--------------------------- MODULE ServiceContainer ---------------------------
(***************************************************************************)
(* One service container, its systemd unit, its image and its volumes      *)
(* under the operations of kolla_container, with either engine.  A call of *)
(* the module runs its steps from `todo`; every step is one call of the    *)
(* engine, of systemd or of the file system, and systemd, the container    *)
(* and the registry move between any two of them.                          *)
(***************************************************************************)
EXTENDS ContainerSpec, Sequences

CONSTANTS Requests,      \* the requests, as records by name
          Calls,         \* operation and request of the calls that tasks make
          Images,        \* image ids that the registry may hold under the tag
          Published,     \* the id it holds at first
          MaxTrouble     \* bound on what goes wrong or changes outside

VARIABLES engine, req,   \* the engine of the host; the request being served
          op, todo,      \* the operation of the module and the steps it has left
          seen,          \* the container as start_container read it: None, its status, or "new"
          changed, res,  \* what the module reports
          cont,          \* the container, or None
          image,         \* id of the local image, or None
          registry,      \* id in the registry, or None when a pull fails
          config,        \* version of the configuration files on the host
          unit,          \* the systemd unit: file, what is loaded, state, job
          volumes,       \* volumes of the engine: name and whether kolla_managed
          touched,       \* history: what the operation has changed
          quiet,         \* history: nothing outside has moved since it began, no
                         \* job of an earlier operation was left to run then, and
                         \* it left no container up that its own stop may yet stop
          trouble        \* how much has gone wrong so far

module == <<req, op, todo, seen, changed, res, touched>>
vars == <<engine, module, cont, image, registry, config, unit, volumes, quiet, trouble>>

p == Requests[req]
OneShot == p.restart_policy = "oneshot"

\* The unit file as far as two requests can differ in it.
generate_unit_file == [restart |-> IF p.restart_policy = "unless-stopped" THEN "always"
                                   ELSE p.restart_policy,
                       stop |-> p.graceful_timeout, every |-> RestartSec(p)]

\* get_unit_state: a unit that is not loaded is not listed, and a unit counts as
\* running as soon as its command has been started.
get_unit_state == IF unit.loaded = None THEN None
                  ELSE IF unit.sub = "exec" THEN "running" ELSE unit.sub

Up == IF cont = None THEN FALSE ELSE cont.status = "running"

Info == Inspect(engine, Requests[cont.req], cont.image)

Differs == check_container_differs(engine, p, Info, image, cont.status)

\* compare_config runs in the container; where it cannot, the answer is "stale".
compare_config == cont.status # "running" \/ cont.config # config

check_unit_change == unit.file # generate_unit_file

CompareSaysChanged == cont = None \/ Differs \/ compare_config \/ check_unit_change

StartSteps == <<"ensure", "fit", "create", "run", "wait">>
RemoveStepsSwapped == <<"remove", "unlink">>
RemoveSteps == <<"unlink", "remove">>

Program == [compare_container |-> <<"compare">>,
            ensure_image |-> <<"ensure">>,
            pull_image |-> <<"pull">>,
            recreate_or_restart_container |-> <<"decide">>,
            start_container |-> StartSteps,
            stop_container |-> <<"stop">>,
            remove_container |-> RemoveSteps,
            stop_and_remove_container |-> <<"clear">>,
            restart_container |-> <<"restart">>,
            create_volume |-> <<"create_volume">>,
            remove_volume |-> <<"remove_volume">>,
            remove_image |-> <<"remove_image">>]

Statuses == {"created", "running", "exited"}
Containers == [req : DOMAIN Requests, image : Images, status : Statuses, config : {0, 1, None}]
UnitFiles == [restart : {"always", "on-failure", "no", "oneshot"}, stop : Int, every : Int]
UnitStates == {"dead", "failed", "exec", "running", "auto-restart"}
Strategies == {"COPY_ALWAYS", "COPY_ONCE"}
Jobs == {"StartUnit", "StopUnit", "RestartUnit"}

ASSUME ContainerAssumption ==
    /\ Calls \subseteq ((DOMAIN Program) \X (DOMAIN Requests)) /\ Published \in Images
    /\ None \notin Containers /\ None \notin Statuses /\ None \notin Images
    /\ None \notin UnitFiles /\ None \notin Jobs /\ None \notin Strategies /\ MaxTrouble \in Nat

\* What the module's argument_spec accepts, with the environment of the options that
\* all tasks share; an interval is not split into no parts.
ASSUME RequestsAssumption ==
    \A r \in DOMAIN Requests :
        /\ RequestOK(Requests[r]) /\ "KOLLA_CONFIG_STRATEGY" \in DOMAIN Requests[r].environment
        /\ Requests[r].environment["KOLLA_CONFIG_STRATEGY"] \in Strategies
        /\ Requests[r].restart_policy \in {"no", "on-failure", "oneshot", "always", "unless-stopped"}
        /\ Requests[r].graceful_timeout \in Int /\ Requests[r].client_timeout \in Int
        /\ Requests[r].restart_retries \in Nat \ {0}

Init ==
    /\ engine \in Engines /\ req \in DOMAIN Requests
    /\ op = "none" /\ todo = <<>> /\ seen = None /\ changed = FALSE /\ res = "ok"
    /\ cont = None /\ image = None /\ registry = Published /\ config = 0
    /\ unit = [file |-> None, loaded |-> None, sub |-> "dead", job |-> None]
    /\ volumes = {} /\ touched = {} /\ quiet = TRUE /\ trouble = 0

----------------------------------------------------------------------------
(* Steps of the module *)

Idle == todo = <<>>

\* The next call of kolla_container for this container.
Begin(o, r) ==
    /\ Idle /\ Requests[r].name = p.name
    /\ op' = o /\ req' = r /\ todo' = Program[o] /\ seen' = None
    /\ changed' = FALSE /\ res' = "none" /\ touched' = {} /\ quiet' = (unit.job = None)
    /\ UNCHANGED <<engine, cont, image, registry, config, unit, volumes, trouble>>

At(s) == ~Idle /\ Head(todo) = s

\* The step is done: the steps it calls for come before those that are left.
Then(more) == LET rest == more \o Tail(todo)
              IN  todo' = rest /\ res' = IF rest = <<>> THEN "ok" ELSE res

Fail(why) == todo' = <<>> /\ res' = why

ReportLast(c) == changed' = c
Report(c) == changed' = (changed \/ c)
Touch(what) == touched' = touched \cup what

World == <<cont, image, unit, volumes>>
Fixed == <<engine, req, op, registry, config, quiet, trouble>>

\* A step that only looks and decides.
Look(s, more) == At(s) /\ Then(more) /\ UNCHANGED <<Fixed, World, touched, seen>>

compare_container == Look("compare", <<>>) /\ Report(CompareSaysChanged)

ensure_imageNever == Look("ensure", <<>>) /\ UNCHANGED changed

ensure_image == Look("ensure", IF image = None THEN <<"pull">> ELSE <<>>) /\ UNCHANGED changed

pull_image ==
    /\ At("pull")
    /\ \/ registry = None /\ Fail("no image") /\ UNCHANGED <<image, changed, touched>>
       \/ /\ registry # None /\ Then(<<>>)
          /\ image' = registry /\ changed' = (image # registry)
          /\ Touch(IF image # registry THEN {"image"} ELSE {})
    /\ UNCHANGED <<Fixed, cont, unit, volumes, seen>>

Strategy == p.environment["KOLLA_CONFIG_STRATEGY"]

RecreateStepsPullLate == <<"stop">> \o RemoveSteps \o StartSteps

\* The image is pulled before the container is stopped.
RecreateSteps == <<"ensure", "stop">> \o RemoveSteps \o StartSteps

recreate_withoutRestart ==
    /\ Look("decide",
            IF cont = None THEN StartSteps
            ELSE IF Strategy = "COPY_ONCE" \/ Differs THEN RecreateSteps ELSE <<>>)
    /\ Report(engine = "docker")

recreate_or_restart_container ==
    /\ Look("decide",
            IF cont = None THEN StartSteps
            ELSE IF Strategy = "COPY_ONCE" \/ Differs THEN RecreateSteps
            ELSE IF Strategy = "COPY_ALWAYS" THEN <<"restart">> ELSE <<>>)
    /\ Report(engine = "docker")

\* First half of start_container: a container that differs goes.
fit_container ==
    LET misfit == cont # None /\ Differs
    IN  /\ At("fit") /\ Then(IF misfit THEN <<"stop">> \o RemoveSteps ELSE <<>>)
        /\ seen' = IF cont = None \/ misfit THEN None ELSE cont.status
        /\ UNCHANGED <<Fixed, World, changed, touched>>

Named(vs) == {v.src : v \in {w \in vs : ~w.path}}
Exists(n) == \E v \in volumes : v.name = n

\* create_container_volumes.  Podman's worker looks each volume up.
PodmanPreCreated == {n \in Named(p.volumes) : ~Exists(n)}

\* Docker's looks for a volume with the name of the container, whatever volume it is
\* about to create, and passes over the rest once there is one.  The order is that
\* of the request, which has the volume of the container's own name first.
DockerPreCreated == IF Exists(p.name) THEN {}
                    ELSE IF p.name \in Named(p.volumes) THEN {p.name}
                    ELSE PodmanPreCreated

PreCreated == IF engine = "podman" THEN PodmanPreCreated ELSE DockerPreCreated

\* create_container begins with one call of create_volume after the other, until
\* there is none left to create.
create_container_volumes ==
    /\ At("create") /\ seen = None
    /\ \E n \in PreCreated : volumes' = volumes \cup {[name |-> n, managed |-> TRUE]}
    /\ Report(TRUE) /\ Touch({"volume"})
    /\ UNCHANGED <<Fixed, todo, res, cont, image, unit, seen>>

\* Engines create the volumes that are still missing, without the label.
create_container ==
    /\ At("create")
    /\ \/ seen # None /\ Then(<<>>) /\ UNCHANGED <<cont, volumes, seen, changed, touched>>
       \/ /\ seen = None /\ PreCreated = {}
          /\ Then(IF engine = "docker" /\ OneShot THEN <<>> ELSE <<"unit">>)
          /\ cont' = [req |-> req, image |-> image, status |-> "created", config |-> None]
          /\ volumes' = volumes \cup {[name |-> n, managed |-> FALSE] :
                                        n \in {m \in Named(p.volumes) : ~Exists(m)}}
          /\ seen' = "new" /\ Touch({"service"}) /\ Report(engine = "docker")
    /\ UNCHANGED <<Fixed, image, unit>>

\* create_unit_file.  Its reload has no effect: Reload takes no arguments, it is
\* called with two, and perform_action swallows the error.
create_unit_file ==
    /\ At("unit") /\ Then(<<>>)
    /\ unit' = [unit EXCEPT !.file = generate_unit_file]
    /\ Report(check_unit_change)
    /\ Touch(IF check_unit_change THEN {"service"} ELSE {})
    /\ UNCHANGED <<Fixed, cont, image, volumes, seen>>

\* The status of a container that was found, or of the one just created as it is now.
Status == IF seen = "new" THEN cont.status ELSE seen

run_createdIsEnough ==
    /\ Look("run", IF OneShot THEN <<"engine_start">>
                   ELSE IF Status \in {"running", "created"} THEN <<>>
                   ELSE <<"unit", "StartUnit", "await_running">>)
    /\ Report(Status # "running")

\* Second half of start_container: by the unit, or directly for one-shot work.  A
\* container that is up gets no StartUnit, also when a stop of it still waits.
run_container ==
    /\ At("run")
    /\ Then(IF Status = "running" THEN <<>>
            ELSE IF OneShot THEN <<"engine_start">>
            ELSE <<"unit", "StartUnit", "await_running">>)
    /\ Report(Status # "running")
    /\ quiet' = (quiet /\ ~(Status = "running" /\ unit.job = "StopUnit"))
    /\ UNCHANGED <<engine, req, op, registry, config, trouble, World, touched, seen>>

\* StartUnit, StopUnit and RestartUnit load the unit if it is not loaded, and
\* only enqueue a job, which replaces the one that waits.
Enqueue ==
    \E j \in Jobs :
        /\ At(j) /\ Then(<<>>)
        /\ unit' = [unit EXCEPT !.job = j, !.loaded = IF @ = None THEN unit.file ELSE @]
        /\ Touch({"service"})
        /\ UNCHANGED <<Fixed, cont, image, volumes, seen, changed>>

\* wait_for_unit, which polls until the state is the wanted one or time is up;
\* nobody looks at the outcome of the wait for a stop.
Wanted == IF Head(todo) = "await_running" THEN "running" ELSE "dead"

wait_for_unit ==
    /\ At("await_running") \/ At("await_dead")
    /\ IF get_unit_state = Wanted \/ At("await_dead") THEN Then(<<>>) ELSE Fail("timed out")
    /\ UNCHANGED <<Fixed, World, touched, seen, changed>>

\* The container starts, and takes over the configuration: always, or the first time.
Started(c) == [c EXCEPT !.status = "running",
                        !.config = IF c.config = None \/ Requests[c.req].environment["KOLLA_CONFIG_STRATEGY"]
                                                          = "COPY_ALWAYS" THEN config ELSE @]

engine_start ==
    /\ At("engine_start") /\ cont # None /\ Then(<<>>)
    /\ cont' = Started(cont) /\ Touch({"service"})
    /\ UNCHANGED <<Fixed, image, unit, volumes, seen, changed>>

engine_stop ==
    /\ At("engine_stop") /\ cont # None /\ Then(<<>>)
    /\ cont' = [cont EXCEPT !.status = IF @ = "running" THEN "exited" ELSE @]
    /\ Touch({"service"})
    /\ UNCHANGED <<Fixed, image, unit, volumes, seen, changed>>

\* Last part of start_container: without detach it waits for the container to
\* exit, may remove it, and fails on a return code.
wait_container ==
    \/ p.detach /\ Look("wait", <<>>) /\ UNCHANGED changed
    \/ /\ ~p.detach /\ cont # None /\ cont.status = "exited"
       /\ \E rc \in {"rc_zero", "rc_error"} :
            Look("wait", (IF p.remove_on_exit THEN <<"stop">> \o RemoveSteps ELSE <<>>) \o <<rc>>)
       /\ UNCHANGED changed

return_code ==
    \/ Look("rc_zero", <<>>) /\ UNCHANGED changed
    \/ At("rc_error") /\ Fail("return code") /\ changed' = TRUE
       /\ UNCHANGED <<Fixed, World, touched, seen>>

StopStepsPastSystemd == <<"engine_stop">>

\* How a container is stopped: through systemd, which would restart it otherwise.
DockerStop == IF unit.file = None THEN <<"engine_stop">> ELSE <<"StopUnit", "await_dead">>
PodmanStop == IF OneShot THEN <<"engine_stop">> ELSE <<"unit", "StopUnit", "await_dead">>

StopSteps == IF engine = "docker" THEN DockerStop ELSE PodmanStop

stop_container ==
    \/ /\ At("stop") /\ cont = None /\ ~p.ignore_missing /\ Fail("no container")
       /\ UNCHANGED <<Fixed, World, touched, seen, changed>>
    \/ /\ cont = None /\ p.ignore_missing /\ Look("stop", <<>>) /\ UNCHANGED changed
    \/ /\ cont # None
       /\ LET exited == cont.status = "exited"
          IN  Look("stop", IF exited THEN <<>> ELSE StopSteps) /\ Report(~exited)

\* remove_container: first the unit file, then the container.
remove_unit_file ==
    /\ At("unlink") /\ Then(<<>>)
    /\ unit' = [unit EXCEPT !.file = None]
    /\ Report(unit.file # None) /\ Touch(IF unit.file # None THEN {"service"} ELSE {})
    /\ UNCHANGED <<Fixed, cont, image, volumes, seen>>

remove_container ==
    /\ At("remove") /\ Then(<<>>) /\ cont' = None
    /\ Report(engine = "docker" /\ cont # None)
    /\ Touch(IF cont # None THEN {"service"} ELSE {})
    /\ UNCHANGED <<Fixed, image, unit, volumes, seen>>

stop_and_remove_container ==
    Look("clear", IF cont = None THEN <<>> ELSE <<"stop">> \o RemoveSteps) /\ UNCHANGED changed

PodmanRestart == <<"unit", "RestartUnit", "await_running">>
DockerRestart == IF OneShot THEN <<"engine_stop", "engine_start">> ELSE PodmanRestart

restart_container ==
    \/ /\ At("restart") /\ cont = None /\ Fail("no container")
       /\ UNCHANGED <<Fixed, World, touched, seen, changed>>
    \/ /\ cont # None /\ Report(TRUE)
       /\ Look("restart", IF engine = "docker" THEN DockerRestart ELSE PodmanRestart)

create_volume ==
    /\ At("create_volume") /\ Then(<<>>)
    /\ volumes' = IF Exists(p.name) THEN volumes ELSE volumes \cup {[name |-> p.name, managed |-> TRUE]}
    /\ Report(~Exists(p.name)) /\ Touch(IF Exists(p.name) THEN {} ELSE {"volume"})
    /\ UNCHANGED <<Fixed, cont, image, unit, seen>>

InUse == cont # None /\ p.name \in Named(Requests[cont.req].volumes)

remove_volume ==
    /\ At("remove_volume") /\ Report(Exists(p.name))
    /\ IF Exists(p.name) /\ InUse
       THEN Fail("in use") /\ UNCHANGED <<volumes, touched>>
       ELSE /\ Then(<<>>) /\ volumes' = {v \in volumes : v.name # p.name}
            /\ Touch(IF Exists(p.name) THEN {"volume"} ELSE {})
    /\ UNCHANGED <<Fixed, cont, image, unit, seen>>

ImageInUse == IF image = None \/ cont = None THEN FALSE ELSE cont.image = image

remove_image ==
    /\ At("remove_image") /\ Report(image # None)
    /\ IF ImageInUse
       THEN Fail("in use") /\ UNCHANGED <<image, touched>>
       ELSE Then(<<>>) /\ image' = None /\ Touch(IF image # None THEN {"image"} ELSE {})
    /\ UNCHANGED <<Fixed, cont, unit, volumes, seen>>

ModuleStep ==
    \/ compare_container \/ ensure_image \/ pull_image \/ recreate_or_restart_container
    \/ fit_container \/ create_container_volumes \/ create_container \/ create_unit_file
    \/ run_container \/ Enqueue \/ wait_for_unit \/ engine_start \/ engine_stop
    \/ wait_container \/ return_code \/ stop_container \/ remove_unit_file
    \/ remove_container \/ stop_and_remove_container \/ restart_container
    \/ create_volume \/ remove_volume \/ remove_image

----------------------------------------------------------------------------
(* systemd and the engine (external).  "exec" is a unit whose command has  *)
(* been started and has not brought the container up yet.                  *)

Outside == <<module, image, registry, volumes, engine, config>>

\* The command of the unit has ended.
Ended(u) == {[u EXCEPT !.sub = s] : s \in IF u.loaded.restart = "always" THEN {"auto-restart"}
                                          ELSE {"dead", "failed"}}

StopJob ==
    /\ unit.job = "StopUnit"
    /\ IF unit.sub \in {"exec", "running", "auto-restart"}
       THEN /\ \E s \in {"dead", "failed"} : unit' = [unit EXCEPT !.job = None, !.sub = s]
            /\ cont' = IF Up /\ unit.sub # "auto-restart"
                       THEN [cont EXCEPT !.status = "exited"] ELSE cont
       ELSE unit' = [unit EXCEPT !.job = None] /\ UNCHANGED cont
    /\ UNCHANGED <<Outside, quiet, trouble>>

StartJob ==
    /\ unit.job = "StartUnit"
    /\ unit' = [unit EXCEPT !.job = None, !.sub = IF @ = "running" THEN @ ELSE "exec"]
    /\ UNCHANGED <<Outside, cont, quiet, trouble>>

RestartJob ==
    /\ unit.job = "RestartUnit"
    /\ unit' = [unit EXCEPT !.job = None, !.sub = "exec"]
    /\ cont' = IF Up /\ unit.sub \in {"exec", "running"}
               THEN [cont EXCEPT !.status = "exited"] ELSE cont
    /\ UNCHANGED <<Outside, quiet, trouble>>

ExecStarts ==
    /\ unit.sub = "exec" /\ cont # None
    /\ unit' = [unit EXCEPT !.sub = "running"]
    /\ cont' = IF cont.status = "running" THEN cont ELSE Started(cont)
    /\ UNCHANGED <<Outside, quiet, trouble>>

\* The command ends: there is no container, or it has stopped.
ExecEnds ==
    /\ \/ unit.sub = "exec" /\ cont = None
       \/ unit.sub = "running" /\ ~Up
    /\ unit' \in Ended(unit)
    /\ UNCHANGED <<Outside, cont, quiet, trouble>>

AutoRestart ==
    /\ unit.sub = "auto-restart"
    /\ unit' = [unit EXCEPT !.sub = "exec"]
    /\ UNCHANGED <<Outside, cont, quiet, trouble>>

\* systemd forgets an idle unit and will read its file again.
Unload ==
    /\ unit.loaded # None /\ unit.sub = "dead" /\ unit.job = None
    /\ unit' = [unit EXCEPT !.loaded = None]
    /\ UNCHANGED <<Outside, cont, quiet, trouble>>

Systemd == StopJob \/ StartJob \/ RestartJob \/ ExecStarts \/ ExecEnds \/ AutoRestart

----------------------------------------------------------------------------
(* What goes wrong or changes outside, within MaxTrouble *)

Disturb == trouble < MaxTrouble /\ trouble' = trouble + 1 /\ quiet' = FALSE

\* The process in the container ends: a crash, but the normal end of one-shot work.
ContainerExits ==
    /\ Up /\ cont' = [cont EXCEPT !.status = "exited"]
    /\ IF Requests[cont.req].detach THEN Disturb ELSE UNCHANGED <<quiet, trouble>>
    /\ UNCHANGED <<Outside, unit>>

StartLimitHit ==
    /\ unit.sub = "auto-restart" /\ Disturb
    /\ unit' = [unit EXCEPT !.sub = "failed"]
    /\ UNCHANGED <<Outside, cont>>

\* A new image under the same tag.
ImagePublished ==
    /\ registry # None /\ \E i \in Images : i > registry /\ registry' = i
    /\ quiet' = FALSE
    /\ UNCHANGED <<engine, module, cont, image, config, unit, volumes, trouble>>

RegistryFails ==
    /\ registry # None /\ Disturb /\ registry' = None
    /\ UNCHANGED <<engine, module, cont, image, config, unit, volumes>>

ConfigChanges ==
    /\ Disturb /\ config' = 1 - config
    /\ UNCHANGED <<engine, module, cont, image, registry, unit, volumes>>

\* A call raises, or the module is interrupted: main reports a failure.
CallFails ==
    /\ ~Idle /\ Disturb /\ Fail("error")
    /\ UNCHANGED <<engine, req, op, seen, changed, touched, cont, image, registry, config, unit, volumes>>

Next ==
    \/ \E c \in Calls : Begin(c[1], c[2])
    \/ ModuleStep \/ Systemd \/ Unload
    \/ ContainerExits \/ StartLimitHit \/ ImagePublished \/ RegistryFails \/ ConfigChanges \/ CallFails

\* systemd runs its jobs, its commands and its restarts; nothing is assumed of the
\* module, which may be slow or stop for good.
Spec == Init /\ [][Next]_vars /\ WF_vars(Systemd)

----------------------------------------------------------------------------
(* Properties *)

\* Types of the module's position and of what it works on.
ContainerTypeOK ==
    /\ engine \in Engines /\ req \in DOMAIN Requests /\ op \in DOMAIN Program \cup {"none"}
    /\ changed \in BOOLEAN /\ quiet \in BOOLEAN /\ trouble \in 0..MaxTrouble
    /\ image \in Images \cup {None} /\ registry \in Images \cup {None} /\ config \in {0, 1}
    /\ \/ cont = None
       \/ cont \in Containers
    /\ unit.file = None \/ unit.file \in UnitFiles
    /\ unit.loaded = None \/ unit.loaded \in UnitFiles
    /\ unit.sub \in UnitStates /\ unit.job \in Jobs \cup {None}
    /\ unit.sub # "dead" \/ unit.job # None => unit.loaded # None

\* remove_container deletes the unit file first and create_container writes it
\* last, so that no failure in between leaves a unit behind that has no container
\* to start.
NoOrphanUnit == unit.file # None => cont # None

\* recreate_or_restart_container pulls before it stops: an operation that fails
\* for want of the image has not touched the service.
FailedPullSparesService == res = "no image" => "service" \notin touched

\* One-shot work runs under a name of its own.  (mariadb also bootstraps and recovers
\* its cluster so under the name of the service.)
RunsByUnit == \A r \in DOMAIN Requests :
                  Requests[r].name = p.name => Requests[r].restart_policy # "oneshot"

\* Once systemd has settled, a service that recreate_or_restart_container has
\* brought up passes compare_container, unless something happened to it since.
RecreateConverges ==
    /\ op = "recreate_or_restart_container" /\ res = "ok" /\ quiet
    /\ p.detach /\ RunsByUnit /\ p.state = "running" /\ Supported(engine, p)
    /\ unit.job = None /\ unit.sub = "running" /\ Up
    => ~CompareSaysChanged

\* A stop that went through the unit holds: systemd does not bring the container
\* up again.
StopHolds ==
    /\ op = "stop_container" /\ res = "ok" /\ changed /\ RunsByUnit
    /\ unit.file # None /\ unit.job = None
    => ~Up /\ unit.sub \in {"dead", "failed"}

\* Operations that may end with the container removed.
Removals == {"remove_container", "stop_and_remove_container", "start_container"}

\* An operation that reports no change has changed nothing.  The Podman worker
\* does not report the removal of a container that has lost its unit file.
UnchangedMeansUntouched ==
    res = "ok" /\ ~changed
    => touched = {} \/ (engine = "podman" /\ cont = None /\ op \in Removals)

\* A service that start_container or recreate_or_restart_container reported as
\* up does come up, unless something happens to it or it gets another order.  One
\* outcome is excepted in `quiet`: the unit may bring the new container up while the
\* job that was to stop the old one still waits.  run_container then finds it up and
\* gives no StartUnit, which would have replaced the job, and the job stops it.
ServiceComesUp ==
    op \in {"start_container", "recreate_or_restart_container"} /\ res = "ok" /\ p.detach
      /\ p.restart_policy = "unless-stopped"
    ~> Up \/ ~quiet \/ ~Idle
=============================================================================
