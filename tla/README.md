# Power operations, containers and deployment tools, in TLA+

This directory verifies the parts of the repository that have a logic of their own.
The first is PowerOps, which the repository adds to the Kolla-Ansible tree it is
built on: planned power operations on compute hosts, run by Mistral through Ironic,
the fencing that Masakari does before it evacuates a failed host, and the role that
deploys both. The second is the Kolla-Ansible module `kolla_container`, which every
service role uses to bring a container and its systemd unit to the requested state.
The third are the functions and tools around a deployment: merging of
configuration files, the Fernet schedule, the password tools and the PowerOps
command line. The service roles themselves are declarative.

## Inventory

| Component | Source | State | Operations | Hard behaviour |
|---|---|---|---|---|
| Workbook `power_ops` | `mistral/workbooks/power-ops.yaml` | the running task of each execution | `planned_power_off`, `planned_reboot`, `power_on_and_return`, `host_power_status` | every task may fail, before or after its effect; the failure path runs whatever fails on it |
| Mistral actions | `plugins/mistral_power_actions/.../operations.py`, `actions.py` | none of their own; they read and change Nova, Ironic and Masakari | resolve, maintenance, service status, drain, power request, waits, verification, fail-safe | reads that are stale when used, bounded polling, sequences of calls of which one fails |
| Host lock | `.../locks.py`, the lock actions | the Redis key `powerops:host:<host>` with its owner and time to live | acquire (`SET NX PX`), refresh and release (scripts that compare the owner) | two operators at once, expiry under a slow task, lost answers, crashed owners |
| Ironic fence | `plugins/masakari_ironic_fence/.../task.py` | none of its own | one task of the Masakari host recovery flow | runs next to planned workflows without their lock |
| Settings and clients | `.../clients.py`, `.../config.py` | the options | registering options, building connections | time-outs, intervals and the time to live are set independently of each other |
| Deployment role | `ansible/roles/powerops` | Ironic nodes and ports, the Masakari segment, the workbook | three reconcilers, in check mode too | partial failures and reruns; writes the maintenance flag that workflows write as well |
| PowerOps CLI | `tools/powerops_cli.py` | wheels, local and published images | `validate`, `build-images`, `publish-images` | a command that fails halfway; inputs that pass here and fail in the role |
| Container workers | `ansible/module_utils/kolla_*_worker.py`, `ansible/library/kolla_container.py` | the container, its systemd unit, its image and volumes | compare, ensure and pull image, create, recreate, start, stop, restart, remove, volumes | compare, then act; systemd runs jobs and restarts behind the module's back; a call in the middle fails |
| Toolbox and facts | `ansible/library/kolla_toolbox.py`, `kolla_container_facts.py` | none | one command in a container; queries | |
| Configuration merging | `ansible/action_plugins/merge_*.py` | none | merge INI and YAML files | section and list precedence; repeated keys |
| Fernet schedule | `ansible/roles/keystone/files/fernet_rotate_cron_generator.py` | none | a cron table for several hosts | ranges and rounding |
| CLI, passwords, filters | `kolla_ansible/` | the password file, the vault | generate, merge, read, write passwords; template filters | a file is removed before it is written; upgrades |
| Service roles | `ansible/roles/*` | the deployed services | deploy, upgrade, MariaDB recovery | MariaDB recovery chooses the most advanced node |

How they interact. An operator starts a workflow; the Mistral engine runs its
tasks one after the other on executors. The tasks talk to Redis (lock), Nova
(service status, servers), Ironic (node power) and Masakari (maintenance flag).
Masakari, when it is notified of a failed host that is not on maintenance, runs
its recovery flow, in which the repository's `ironic_fence` powers the host off
before instances are evacuated. Planned workflows exclude each other with the
Redis lock. They are kept apart from Masakari only by the maintenance flag and
by the power state they both see in Ironic. The deployment role writes nodes,
ports, segment and workbook, and with them the maintenance flag.

What makes each part correct:

- lock: at most one execution acts on a host; nobody takes a lock from its owner;
  every lock is freed in the end;
- workflows: the host is out of service before and while it is worked on; the
  power off reaches no guest that the last look at the host saw running; failure
  leaves the host out of service; success leaves it as the workflow promises;
- fence: evacuation only from a host that is off; it ends;
- waits: bounded, and successful only on stable observations;
- deployment role: a run that succeeds has brought about what is declared, a run
  that fails leaves nothing that stops the next one, a conflict is refused and not
  half resolved, and check mode tells the truth;
- containers: a container is recreated exactly when its request has changed, what was
  brought up is as requested and is not recreated next time, a stop holds, no failure
  leaves a unit without its container or a service down for want of an image, and
  "unchanged" means unchanged;
- merging: every setting has the value of the last source that gives one;
- Fernet schedule: keys are not rotated again before the interval is over;
- passwords: a password in use never changes;
- PowerOps CLI: inputs that it accepts deploy, and what it publishes is what was built.

## Modules

| Module | Models |
|---|---|
| `Workbook` | the workflows as data: successor of a task on success and on error |
| `PowerDecisions` | what `PowerOperations` and `IronicFenceTask` decide from what they read, as operators without state |
| `Cloud` | Ironic node, Nova service, Masakari flag and servers as the code uses them (external), with the steps they make by themselves |
| `MistralPowerOps` | executions of the workflows over `Cloud` and the lock: one action per action class, two where another actor can come between the read and the call |
| `MasakariRecovery` | the recovery flow with the fence, over `Cloud` |
| `PowerOpsSystem` | planned workflows and recovery on the same host |
| `HostLock` | the abstract lock: what the lock promises to those who act under it |
| `HostLease` | the lock with time: Redis commands, task durations, crashes, expiry |
| `TaskBudget` | task durations from the `[powerops]` settings |
| `PowerOpsRole` | the deployment role: the three reconcilers, read by read and write by write, next to other API users |
| `ContainerSpec` | requests, what the engine makes of them, and the comparison of the two, for Docker and Podman, without state |
| `ServiceContainer` | a container, its unit, image and volumes under the calls of `kolla_container`, with systemd, the registry and failures between any two steps; uses `ContainerSpec` |
| `ConfigMerge` | `merge_configs` (parse, merge, write) and `merge_yaml`, with their reference definitions |
| `FernetCron` | the cron tables of the Fernet schedule |
| `PasswordFile` | `kolla-genpwd`, `-mergepwd`, `-writepwd` and `-readpwd` over installs, deployments and upgrades |
| `PowerOpsInputs` | `validate` next to `normalize_spec` of the role, and `build-images` and `publish-images` command by command |
| `DeployTools` | composes the last five: the functions as cases, the tools as state machines |
| `MCHostLease`, `MCHostLeaseSlow`, `MCMistralPowerOps`, `MCPowerOpsRole`, `MCServiceContainer`, `MCDeployTools` | instances for TLC |
| `HostLeaseProofs`, `MistralProofs` | theorems on the lock and on planned workflows |
| `SystemProofs` | theorems on planned workflows next to the recovery flow |
| `RoleProofs`, `ForecastProofs` | theorems on the deployment role |
| `ContainerSpecProofs` | lemmas on the comparison of a request with a container, option by option |
| `ServiceContainerProofs`, `ToolsProofs` | theorems on containers and on the tools of `DeployTools` |

State and code. `pc[e]` is the task that Mistral runs for execution `e`, with the
names of the workbook. `step[e]` counts the calls or polls inside a task, so the
body of a Python loop is one step of the model, and `stable[e]` is the local
variable `stable` of `wait_power`. `owner` (in `HostLease`: `key`) is the Redis
key. `node`, `nova`, `maintenance` and `servers` are what the code reads from
Ironic, Nova, Masakari and the server list. `flow`, `fpolls` and `fstable` are
the position and the local variables of the recovery flow and its fence.
`last`, `trusted`, `safe`, `late` and `powerOn` are history variables: no guard
of the model reads them, properties do.

The abstract lock. `HostLock` has two variables, the owner and those who act on the
host; only the owner comes to act, and the lock changes hands only while nobody acts,
unless it lapses (`MayLapse`). `HostLease` implements it with the owner of the Redis key
and the executions in protected tasks, and never lapses. `MistralPowerOps` implements it
with the executions in protected tasks that are `trusted`; `LeaseLapses` is the lapse. Both
mappings are the `INSTANCE ... WITH` next to `ImplementsHostLock`. Taking the lock and
acting under it are two steps in the first and one in the second, unless the answer is
lost and leaves a lock whose owner never acts.

What is abstracted. One host is modelled: hosts share nothing but the services,
and every lock and lookup is per host. A lookup by name either finds exactly one
record or raises; `Mapped` says which lookups succeed. An API call fails before it
took effect (`TaskFails`) or after (`Replies`), when `CallsMayFail`. The reads of
`resolve_host` and `verify_host_return` are one step. A pending power target
settles or fails at any time, also never. `list_servers`, `status` and the
workflow `host_power_status` only read and are left out, and so are logging,
the Neutron agents (the workbook's actions require none) and the reboot targets,
which no workflow uses.

In `PowerOpsRole`, `cloud` holds the records that the role reconciles, each absent,
drifted from what is declared, or as declared; `run` is the role's position,
`run.todo` and `run.ports` are what its loops have left, `seen` is what the running
module has read and still works from, and `run.changed` is what it reports.
`quiet`, `forecast` and `off` are history variables. Names and MACs are unique in
the services, so the checks for duplicate records in what a service returns never
fail and are left out; records that nobody declares are only reported and are
left out. The validations of the input are assumed to have passed; that of nodes
(`normalize_spec`) is in `PowerOpsInputs`. The commands of `preflight.yml` change
nothing.

In `ServiceContainer`, `op` and `req` are the action and the parameters that the
module was called with, and `todo` is the call stack of the worker laid flat: a step
is one call of the engine, of systemd over D-Bus or of the file system, and a method
that calls others puts their steps in front (`Then`). `StartSteps`, `RemoveSteps` and
`RecreateSteps` are the bodies of the methods of those names. `seen` is the container
that `start_container` has looked up before it creates one, or `"new"` once it has. `changed` and `res` are
what the module reports. `cont`, `image`, `registry`, `volumes` and `config` are the
engine's container, its local image, the registry, the volumes and the version of the
configuration files; `unit` has the file on disk, what systemd has loaded of it,
its state and the job that waits. systemd and the engine are external and take their
steps at any time. `touched` and `quiet` are history variables.

Points of the code that the model has as they are and that are easy to miss:

- `Reload` is called with arguments it does not take; the error is swallowed, so a
  changed unit file is read only once systemd has forgotten the unit;
- nobody looks at the outcome of the wait after a stop;
- a unit counts as running as soon as its command has been started;
- Docker's worker looks for a volume with the name of the container, whatever volume
  it is about to create, and passes over the others once there is one;
- the volumes are created one after the other before the container, each by a call of
  its own, and Podman reports no change for the container itself;
- `start_container` reads the status of the container that it has just created once
  more (`Status`), and gives no start job when the unit has brought it up by then;
- `start_container` recreates every container that is not running, since the state is
  one of the things compared;
- Podman is not given `tmpfs` and `security_opt`, does not convert units of dimensions,
  and is given only the modes `ro` and `shared` of a path; such requests differ for
  ever and are outside `Supported`;
- a variable taken out of the environment, and an unset `ipc_mode`, `cgroupns_mode` or
  `command`, are no difference for either engine (`Drift` says so);
- `RestartSec` is negative when `client_timeout` is shorter than `restart_retries` seconds.

`DeployTools` computes one case of a function per behaviour, so its properties are
checked over every enumerated input. Texts are abstracted to the distinctions that the
code makes: an INI line is a section header or an assignment with its values, a YAML tree
has mappings, lists and leaves two levels deep, a name may have white space around it
and a MAC may be written in upper case. In `PasswordFile` a password is a number; the
tools read a file, remove it (`RemoveFile`) and write it (`WriteFile`), and may die in
between. The write is one step: a tool that dies in the middle of it leaves a part of the
file, which the model counts as none, because the operator sees the tool fail and starts
from the sample again. In `PowerOpsInputs`, `dist` holds the wheels of a build context, which
accumulate: after a change of version the build of an image fails until somebody
removes the old wheel.

## Runs

| Run | Instance | Shows |
|---|---|---|
| `lease` | 2 executions, drain 120 s, power 40 s, poll 20 s, TTL 400 s, calls of 1.5 s | `MutualExclusion`, `ImplementsHostLock`, `ExecutionEnds`, `LockEventuallyFree` with crashes and lost answers |
| `lease_latency` | default time-outs, poll 10 s, calls of 5 s | `MutualExclusion` is violated: the drain outlasts the lease |
| `planned` | 2 executions, 1 server, 2 drain polls, 3 power polls, 2 stable observations, calls may fail | `PlannedOutOfService`, `PowerOffSparesGuests`, `FailureLeavesHostOut`, `RebootReturnsPoweredHost`, `SuccessMeansDone` |
| `planned_lapse` | 2 executions, leases may lapse at any time | `ImplementsHostLock` for untouched executions, `OwnerSafe` for all |
| `planned_unmapped` | Nova lookup fails | `ErrorLeavesHostOut` is violated |
| `planned_return` | 1 execution after the other | `ReturnsPoweredHost` is violated |
| `recovery` | 1 execution and the recovery flow, 3 polls each, calls may fail | `EvacuationIsFenced`, `PlannedWorkHidesHost`, `RecoveryEnds`, `ExecutionEnds` |
| `role` | 2 nodes with a port each, one with a masked password, one declared on maintenance; 3 disturbances | `RunConverges`, `ForecastHolds`, `NoHalfRegistration`, `WorkbookComesLast`, `ForbiddenStateUntouched`, `RerunConverges` |
| `role_maintenance` | the same with 1 disturbance | `PoweredOffStaysMaintained` is violated |
| `containers` | a service with 2 versions of its request, a one-shot container, 2 images, both engines, 1 disturbance | `NoOrphanUnit`, `FailedPullSparesService`, `RecreateConverges`, `StopHolds`, `UnchangedMeansUntouched`, `ServiceComesUp` |
| `tools` | all pairs of some fifty requests, INI files of up to 3 lines, YAML trees, cron intervals, node lists; 3 generated passwords, 1 edit of a plugin | `CompareIsExact`, `IniMergePrecedence`, `YamlMergeKeepsLeaves`, `NoOverRotation`, `ValidatedInputsDeploy`, `PublishedIsBuilt`, `PasswordsStable` |
| `fernet` | intervals whose round exceeds a day | `RoundRobin` is violated |

Bounds. Two executions are enough for every way one can disturb another: a third
would meet the same lock. Executions start again after they ended, with new
inputs, so sequences of any length are explored. One server can be in every
state at every point; servers do not interact. A migration or stop that is refused for
one of several servers does not occur in the run; the proofs of the same properties hold
for any set of servers. `planned` has no Masakari, so what Masakari does between a
workflow's read and its call is in `recovery` only. Two stable observations are the
smallest the code accepts, and three polls leave room for an interrupted series
of them. `lease` counts time in poll intervals, and its settings are scaled down
by about five; `MCHostLease` also evaluates the condition of the theorem on
mutual exclusion (`LeaseFits`) for the settings explored and for the real
defaults with calls of up to 1.5 seconds. `recovery` has no server: what becomes
of servers does not influence the power, and evacuation is judged by the power
state alone. `role` starts from an empty cloud and never stops running the role;
`MaxTrouble` bounds failed calls, interruptions, failed verifications and foreign
changes together, which is enough for a failure, an interference with the rerun
and a failure of that. Two nodes let one fail while the other is done.

`containers` calls the module any number of times in any order. `always` and `once`
differ in the environment, the configuration strategy and the unit, so that going from
one to the other meets every way to bring a service up to date; the one-shot container
has the volumes. One disturbance (`MaxTrouble`: a crash, a failed call, an exhausted
start limit, a change of the configuration or a registry that goes away) at any moment
is enough to interrupt each operation at each step, and the operations that follow
find what it left; a new image under the tag is not counted. Two disturbances
exceed what TLC can do in a few minutes; the theorems about this module hold
for any number. `tools` has a case for each option of a container alone, since the
comparisons are independent of each other; INI files are long enough to open a
section twice and to repeat a key; the intervals lie on both sides of an hour, of half
a day and of a day; and the node lists differ from a sound one in one field per node.
Three generated values are an install, an upgrade and one superfluous run.

Symmetry and view. Executions are interchangeable in `planned` and
`planned_lapse`, which check invariants, an action property and a refinement without
fairness, in which executions are interchangeable as well; the view
forgets the inputs of ended executions, which nothing reads.

Fairness. Mistral goes on with every execution that has not crashed, Redis
expires keys as time passes, and Masakari goes on with a started flow; nothing is
assumed (outside the deployment role) of operators, of Ironic settling a target or of a service coming up.
Liveness holds all the same because every wait polls a bounded number of times.
`RerunConverges` is about an operator who runs the role again after a failure, as
the guide has it, so `PowerOpsRole` assumes strong fairness of starting a run that
is not a check run, besides a run going on and Ironic ending a verification.
`ServiceContainer` assumes weak fairness of systemd alone, which runs its jobs,
commands and restarts; the module may stop for good, and the registry, the container
and the operator owe nothing. `DeployTools` states safety only.

Deadlock is checked everywhere but in the two timed models, where all executions
may have ended, and in `tools` and `fernet`, where a case ends once it is computed.

## Findings

- `lease_latency`: the number of polls bounds the sleeps of a task and not its
  duration, and the lock is renewed only after the drain. The guide says that
  the lock excludes two planned operations on one host
  (`docs/powerops/POWEROPS-INSTALL.md:996`); that holds under `LeaseFits`.
- `planned_unmapped`: `fail_safe_host` gives up before the maintenance flag when
  the Nova service cannot be looked up, while the guide says that any expected
  error leaves the host disabled and on maintenance (`:1053`).
- `planned_return`: a pending soft power off is not looked at when the node is
  still on, so `power_on_and_return` can enable scheduling on a host that is
  about to go off (`:1005` says that it verifies the return first).
- `role_maintenance`: `reconcile_segment` writes the declared `on_maintenance` back,
  so a reconfigure after `planned_power_off` takes a host that is off from
  maintenance if its globals say `false`, as they do for a host in operation
  (`:857`). The guide says that the host stays on maintenance (`:1023`).

- `fernet`: when a round of all hosts takes longer than a day,
  `fernet_rotate_cron_generator.py:69` takes the hour of a rotation from the minutes
  (`time % HOUR_SPAN`), so that hosts rotate at the same time, or at hours beyond 23.
  The comment (`:48`) promises a round robin and warns of over-rotation. Within a day
  `NoOverRotation` holds.

In a cloud where the role has never run, a check run fails at the workbook: the
command that registers the actions is skipped, and the workbook module requires
them. `ForecastHolds` therefore speaks of later check runs.

The properties of `tools` have conditions that say where the code stops short.
Keys before the first section of a later INI source end up in the last section of the
source before it (`OrphansFirst`). A node without a name passes `validate` and not the role, and one whose name has
white space around it may collide with another once the role has stripped it, and so the
names in `ValidatedInputsDeploy` are plain; two nodes with the same `nova_hostname` or
IPMI address pass both. `kolla-writepwd` writes
the empty pair of an ssh key that was never generated, and `kolla-readpwd` then puts it
in the place of a key that was generated later; `lost` in `PasswordsStable` stands for
that and for every value that was destroyed with no copy in the vault. `publish-images`
after a `build-images` that failed pushes new and old images together, which
`PublishedIsBuilt` does not speak of.

Other properties have conditions of that kind. `EvacuationIsFenced` excuses a power on that was
pending after the first observation that counted (`powerOn`), `PowerOffSparesGuests` a
guest that came to run after the host was found empty (`late`); the code notices
neither. `ServiceComesUp` excuses, by `quiet`, an operation whose new container was
brought up by the unit while the job that was to stop the old one still waited:
`start_container` then gives no start job, reports success, and the waiting job stops the
container. Docker's worker leaves volumes to the engine, which creates them without the
label `kolla_managed`, against the comment at `kolla_docker_worker.py:344`; the
model does as the code does, and no property claims more.

## Proofs

Checked by TLAPS for every value of the constants.

`HostLeaseProofs`. `TypeCorrect`; and, assuming `LeaseCovers(need)`, `HolderOwns`,
`LeaseMutualExclusion` and `LeaseImplementsLock`. `need[w][t]` bounds the time from the
start of task `t` of workflow `w` to the renewal or release of the lock along every path of
the workbook; `LeaseCovers` says that a fresh and a renewed lease exceed it. The
inductive invariant (`LeaseOutlastsWork`) says that whoever is in a protected
task owns the key and that what is left of its time to live is more than what
the task may still take and everything after it needs. Mutual exclusion alone is
not inductive, because it does not speak of time. The refinement goes action by
action: `LeaseStepIsLockStep` takes that the owner acts alone from `HolderOwnsKey` before and
after the step, and `CommandOwner` says how the Redis commands move the owner; that a key
that expires was nobody's to act under is where the time comes in. `FittingLeaseExcludes`
states both results under a condition on the budgets alone, `LeaseFits`: three sums of
task times are shorter than the time to live (up to the renewal or a failure before it;
the whole of `power_on_and_return`, which never renews; and from the renewal on). It
gives the bounds `Need`, task by task (`NeedEquations`), that `LeaseCovers` asks for.

`MistralProofs`. `TypeCorrect`; `PlannedMutualExclusion` from the invariant that a
trusted execution in a protected task owns the lock and took it last, and that
trust is shared by all that run (`TrustInv`, `LockInv`); `PlannedWorkHasLock`, the
refinement of `HostLock`, from the same invariant, of which mutual exclusion is a
consequence; `LockIsOwnerSafe`, an
action property that needs no trust; `PowerOffSparesSeenGuests`, from an
invariant on the servers outside `late` (`GuestInv`): they are away or stopped,
which is stronger than not running because a server in error can still be told
to stop. `PlannedWorkIsOutOfService` and `FailureKeepsHostOut` both rest on
`LockInv`: only the holder of the host writes its service flags
(`OthersKeepFlags`). The first adds that the maintenance flag is already set when
`nova_disable` runs (`OutInv`), the second that the Nova service stays disabled
between the two halves of `fail_safe_host` and that only the end of a failure
path has a completed fail-safe behind it (`FailInv`). `SuccessKeepsItsPromise` speaks
of a state in which the lock is free again, so its invariant (`DoneInv`) says for each
of the last tasks which flags are written by then, for as long as nobody else has
taken the lock. `RebootedHostIsOn` needs to know why a node that `wait_on` has seen on
stays on: the reboot asks for the power on only after the node was off, and Ironic's
own steps and those of other executions cannot turn it off again (`RebootInv`).

`SystemProofs`. The composition with the recovery flow, which does not take the lock.
`EvacuationFenced`: as long as no power on was pending since the fence began to count
observations of "power off", none is pending, so one observation is as good as the rest
(`FenceInv`); the fence's further observations guard against what the model leaves to
Ironic. An observation that the host is not off starts the count and the history
`powerOn` anew, so a planned workflow that switches the host on before is covered. `PlannedWorkWithstandsRecovery` carries `TrustInv`, `LockInv`, `OutInv` and
`GuestInv` over to the composed system, as a recovery only takes the host further out
of service, and `LockWithstandsRecovery` the refinement of `HostLock`; `PlannedWorkHidden`
follows, since a new failure is taken up only on a host that is not on maintenance. The
retry of a recovery that ended in error is not held up by that flag: it may start in the
midst of planned work, and the property names it as its one exception.

`RoleProofs`. `AtInv` says where a run can be when it works on which node and with which
result. `RoleInv` relates what the running module has read (`seen`) to the records as
they are, which holds only of an undisturbed run (`SeenInv`), says that the nodes that
the loop has left are as declared or have failed (`LoopInv`), and what the later stages
find in place (`LaterInv`); `AbsentInv` keeps ports off absent nodes. It gives
`UndisturbedRunConverges` and the three action properties `NothingHalfRegistered`,
`WorkbookWrittenLast` and `ForbiddenUntouched`.

`ForecastProofs`. `CheckRunForecasts` compares two runs, one that writes nothing and one
that does. `CheckInv` says that what the check run has announced so far is what there is
to do for the records it has passed, `RealInv` that what the real run has changed and
what is still to do make up the forecast, and `StandsInv` what becomes of a forecast
between the two; `SegmentInv` relates the hosts to their segment, which the check run
cannot look into while there is none.

`ToolsProofs`. `RestartsReachTheLimit`: the restarts of a unit fit into its start
limit interval for every time-out and number of retries. `ComparisonIsExact` is proved
option by option for any pair of supported requests, one lemma per comparison, in
`ContainerSpecProofs`; TLC's requests differ from a common one in one or two options. `TablesNeverOverRotate`: the
starts are the multiples of the interval (`StartsAreTurns`), which the remainders by the
number of hosts deal out, for any number of hosts and minutes. `AcceptedInputsDeploy`: of
any list of nodes. `PublishedImagesAreBuilt`: the commands come in the order of
`InOrder`, every step that is left has all the earlier ones behind it, and what they
have established is kept by edits of the source and by images that disappear (`ImageInv`).
`PasswordsStayInUse`: the value of a key that is in use moves between files, and the
invariant (`PasswordInv`) says where it is: in the live file, in what a tool is about to
write, in the old file during an upgrade, or in the vault once a tool has died (`Carries`,
`Sound`); and that after an upgrade whatever has Redis's password has one for Valkey, and
the same one until Valkey is deployed (`Follows`).

`ServiceContainerProofs`. `NoOrphans` and `FailedPullIsHarmless`, for any requests,
calls, images and number of failures, on either engine. Neither is inductive: what a
step may rely on depends on the steps before it. The invariant (`Inv`) therefore
describes what is left in `todo`. `Chain` says which step may follow which (the removal
of a container only follows that of its unit file, a start only the creation) and
that at most one step creates; `Ready` says what holds when the turn of a step comes:
the unit file is gone at `remove`, there is a container at `unit` and `run`, the image
is there as soon as a step that is left needs it and is not preceded by a look for it,
and nothing has been touched where a pull may still fail. `PushShape`, `PushChain` and
`PushContents` say once how a step that calls for others changes `todo`; one lemma per
group of actions does the rest.

The other theorems of that module need more of what is left (`Left`): `Course` says that
the second half of `start_container` is the end of every operation that has it and that
a job is asked for only after the unit file is written, `Placed` which operation a step
can belong to. `NoChangeIsTrue` follows from `Owed`: what has been touched is reported,
or a step that is left will report it, or it was the removal of a container by the
Podman worker, which `recreate_or_restart_container` always makes up for because it
creates the next one (`Replaced`). `ContainerTypeCorrect` uses the same order: a job
loads the unit from its file, which is there by then. `StopsHold` adds that a container
whose requests all run by the unit is up only while the unit is (`UpByUnit`), and that a
stop that has been reported is a job in systemd or has been carried out (`StopEffect`),
which no restart undoes.

`RecreationConverges` follows a call from its decision to its report. As long as the
call has not decided, the promise is about a decision still to come; once it has, the
invariant (`RecreateInv`) says what each branch leaves behind. If the container was kept
(`Kept`), it is one the request asks for, option by option, and a changed configuration
is on its way into it: with the strategy `COPY_ALWAYS` by a restart of the unit, which
takes the container down because it is up by the unit (`UpByUnit`). If it was replaced
(`Renewed`), `seen` is empty until the creation, and what has been created is the
request's own container, which its own request fits (`OwnRequestFits`, from the lemmas of
`ContainerSpecProofs`). A container that fits has the strategy of the request, since a
variable that the request sets is compared (`VariableKept`).

Three properties were restated when their proofs failed. The exception of
`UnchangedMeansUntouched` also covers `start_container` without `detach`: it may find
the container running without its unit file, because a removal was interrupted, wait for
its end and remove it, and Podman's worker has nothing to report. It takes two
disturbances to get there, and TLC's run has one. `StopHolds` excludes names under which
some request is one-shot (`RunsByUnit`), not only one-shot requests: `mariadb` starts a
one-shot container under the name of the service to bootstrap or recover its cluster
(`roles/mariadb/handlers/main.yml:17`, `tasks/recover_cluster.yml:126`), and Podman's
`stop_container` for the service then stops a unit that is not running and leaves that
container up. `RecreateConverges` excludes them too, for the same reason (a restart of
the unit leaves such a container up with the old configuration), and speaks of supported
requests (`Supported`) for services that are to run.

Assumptions are the ones named in the modules: `None` is no container, status or image,
calls name operations and requests that exist (`ContainerAssumption`), requests are as
the argument specification leaves them, with at least one retry, and have one of the two
configuration strategies in their environment, as the roles' `docker_common_options`
give it (`RequestsAssumption`; `ansible/group_vars/all.yml:151`),
the owner of an absent key is no execution, polls are at least one, stable observations
at least two, times are natural numbers. `CasesAssumption` in `DeployTools` types the
inputs of the functions as the argument specification, `argparse` and the validation of
the node list leave them: `RequestOK` for requests, `DataOK` for node lists, at least
one host and one minute.

Only model-checked: liveness (`ExecutionEnds`, `RecoveryEnds`, `LockEventuallyFree`,
`RerunConverges`, `ServiceComesUp`), which is out of the prover's reach; and
`IniMergePrecedence` and `YamlMergeKeepsLeaves`, because they say what folds over the
sources compute, which takes an induction over the input.

## Plan

1. Done: the lock, the workflows, the fence and their composition.
2. Done: the deployment role. Left of it: the validation of segments
   (`normalize_segment_spec`).
3. Done: the container workers. Left: `compare_image` as an operation of its own.
4. Done: configuration merging, the Fernet schedule, the password tools, and the
   validation and image commands of the PowerOps CLI.
5. Done: the abstract lock (`HostLock`), which `HostLease`, `MistralPowerOps` and
   `PowerOpsSystem` implement. Left: an abstract host life cycle (in service, worked on,
   out, fenced).
6. Done: theorems on the composed system, the ends of the workflows, the deployment
   role, the tools and the containers.

The order is that of importance to hosts and guests.

## Not modelled

- `kolla_container`: enabling units, TLS and registry credentials, the text of unit
  files and logs. They do not decide what the module does next. Nor is a request that
  systemd refuses over D-Bus: systemd is assumed to take on the jobs for a unit whose
  file is there. (`perform_action` swallows a refusal, and a stop then goes on as if it
  had been carried out.)
- `kolla_toolbox` and `kolla_container_facts`: one command in a container, and queries.
- The `kolla-ansible` command: it assembles an `ansible-playbook` command line and
  keeps no state.
- Template filters and database shards: small stateless functions that the unit tests
  of the repository enumerate.
- Service roles: declarative tasks and templates, executed by Ansible. MariaDB recovery
  is the one with a decision of its own, written in shell and YAML.
- `preflight.yml` and the report of the PowerOps CLI: they only read.
