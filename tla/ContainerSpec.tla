---------------------------- MODULE ContainerSpec ----------------------------
(***************************************************************************)
(* What kolla_container asks of an engine, what the engine then shows of   *)
(* the container, and the comparison of the two (check_container_differs)  *)
(* that decides whether a service is recreated.                            *)
(*                                                                         *)
(* A request p is module.params: a record with a field for each option.    *)
(* Lists that the code compares as sets are sets here.  An image name is a *)
(* registry and a base (name and tag); a volume has a source, which is a   *)
(* path or the name of a volume, a destination and a mode, "" when the     *)
(* request gives none; a dimension is a number and its unit; the test of a *)
(* health check is a text or a list.  No two volumes have the same source. *)
(***************************************************************************)
EXTENDS Integers, FiniteSets

CONSTANTS None,           \* an absent value
          Engines,        \* a subset of {"docker", "podman"}
          ImageLabels,    \* labels that the image brings along
          ImageEnv        \* variables that the image brings along

ASSUME EnginesAssumption == Engines \subseteq {"docker", "podman"}

----------------------------------------------------------------------------
(* Conversions *)

\* dict.update and {**a, **b}: the second argument wins.
Update(f, g) == [k \in DOMAIN f \cup DOMAIN g |-> IF k \in DOMAIN g THEN g[k] ELSE f[k]]

UnitSize(u) == CASE u \in {"", "b"} -> 1 [] u = "k" -> 1024 [] u = "m" -> 1024 * 1024
                 [] u = "g" -> 1024 * 1024 * 1024

Bytes(v) == v.n * UnitSize(v.unit)

Dimensions == {"mem_limit", "mem_reservation", "memswap_limit", "cpu_period", "cpu_quota",
               "cpu_shares", "cpuset_cpus", "cpuset_mems", "kernel_memory", "blkio_weight"}

\* The Docker API does not report kernel_memory any more, and the worker drops it.
Comparable(e) == IF e = "docker" THEN Dimensions \ {"kernel_memory"} ELSE Dimensions

HealthOptions == {"test", "interval", "timeout", "start_period", "retries"}

Durations == {"interval", "timeout", "start_period"}

\* Seconds become nanoseconds, a test in one string becomes a shell command, and
\* NONE stands for no health check at all.
parse_healthcheck(h) ==
    IF h = None THEN None
    ELSE IF h["test"].command = "NONE" THEN None
    ELSE [k \in DOMAIN h |->
            CASE k \in Durations -> <<h[k], "ns">>
              [] k = "test" /\ h[k].form = "text" -> [h[k] EXCEPT !.form = "CMD-SHELL"]
              [] OTHER -> h[k]]

\* A volume without a mode is writable.
Mode(v) == IF v.mode = "" THEN "rw" ELSE v.mode

\* What generate_volumes makes of a list of volumes: the destinations, and the
\* binds keyed by source.
generate_volumes(vs) == [list |-> {v.dst : v \in vs},
                         binds |-> {[src |-> v.src, dst |-> v.dst, mode |-> Mode(v)] : v \in vs}]

\* Names of ulimits and capabilities as Podman reports them: a name is a pair of
\* its stem and whether it already has the prefix RLIMIT_ or CAP_.
Prefixed(n) == [stem |-> n.stem, prefix |-> TRUE]

PodmanDefaults == {[stem |-> s, prefix |-> TRUE] : s \in {"NOFILE", "NPROC"}}

AuditWrite == [stem |-> "AUDIT_WRITE", prefix |-> TRUE]

NormalUlimits(us) == {[u EXCEPT !.name = Prefixed(@)] : u \in us}

DropDefaults(us) == {u \in us : u.name \notin PodmanDefaults}

\* _format_env_vars: the name of the service goes in, and None becomes "".
format_env(p) == [k \in DOMAIN p.environment \cup {"KOLLA_SERVICE_NAME"} |->
                    IF k = "KOLLA_SERVICE_NAME" THEN p.name
                    ELSE IF p.environment[k] = None THEN "" ELSE p.environment[k]]

\* Flags that Podman adds to every mount; normalize_mode removes them again.
DefaultFlags == {"rprivate", "nosuid", "nodev", "rbind"}

normalize_mode(flags) ==
    LET rest == flags \ DefaultFlags
    IN  IF rest \cap {"ro", "rw"} = {} THEN rest \cup {"rw"} ELSE rest

\* parse_volumes passes on the modes ro and shared of a path, and the mode of a volume.
PodmanFlags(v) ==
    DefaultFlags \cup (IF v.path /\ v.mode \notin {"ro", "shared"} THEN {"rw"} ELSE {Mode(v)})

\* The defaults of the options that all tasks share; None is left out.
CommonDefaults == [restart_retries |-> 10, graceful_timeout |-> 10, client_timeout |-> 120]

\* generate_module: an option of the task wins over the common options, and these
\* over the defaults; the two environments are merged; an empty mode is no mode.
generate_module(common, args) ==
    LET pick(k) == IF args[k] # None THEN args[k]
                   ELSE IF k \in DOMAIN common THEN common[k]
                   ELSE IF k \in DOMAIN CommonDefaults THEN CommonDefaults[k] ELSE None
    IN  [k \in DOMAIN args |->
            CASE k = "environment" -> Update(common.environment, args.environment)
              [] k \in {"pid_mode", "ipc_mode"} /\ pick(k) = "" -> None
              [] OTHER -> pick(k)]

\* The dependent restart settings of the unit, in seconds.
RestartSec(p) == (p.client_timeout \div p.restart_retries) - 1

----------------------------------------------------------------------------
(* What the engine reports of a container created from request p, on the   *)
(* image with the given id.  The options are those that build_host_config  *)
(* and build_container_options, or prepare_container_args, pass on.        *)

\* What both engines are given alike.
CommonOptions(p, id) ==
    [Image |-> id,
     ImageName |-> p.image,
     IpcMode |-> IF p.ipc_mode = None THEN "private" ELSE p.ipc_mode,
     Labels |-> Update(ImageLabels, p.labels),
     Privileged |-> p.privileged,
     Volumes |-> {v.dst : v \in p.volumes},
     VolumesFrom |-> p.volumes_from,
     Env |-> Update(ImageEnv, format_env(p)),
     Resources |-> [k \in Dimensions |-> IF k \in DOMAIN p.dimensions THEN Bytes(p.dimensions[k]) ELSE 0],
     Command |-> p.command,
     Healthcheck |-> parse_healthcheck(p.healthcheck)]

\* build_host_config and build_container_options
DockerOptions(p) ==
    [CapAdd |-> p.cap_add,
     SecurityOpt |-> p.security_opt,
     PidMode |-> IF p.pid_mode = None THEN "" ELSE p.pid_mode,
     CgroupnsMode |-> IF p.cgroupns_mode = None THEN "" ELSE p.cgroupns_mode,
     Tmpfs |-> p.tmpfs \ {""},
     Binds |-> generate_volumes(p.volumes).binds,
     Ulimits |-> p.ulimits]

\* prepare_container_args: Podman is not given tmpfs and security_opt.
PodmanOptions(p) ==
    [CapAdd |-> {Prefixed(c) : c \in p.cap_add} \cup (IF p.privileged THEN {} ELSE {AuditWrite}),
     SecurityOpt |-> {},
     PidMode |-> IF p.pid_mode = None THEN "private" ELSE p.pid_mode,
     CgroupnsMode |-> IF p.cgroupns_mode = None THEN "private" ELSE p.cgroupns_mode,
     Tmpfs |-> {},
     Binds |-> {[src |-> v.src, dst |-> v.dst, mode |-> PodmanFlags(v)] : v \in p.volumes},
     Ulimits |-> NormalUlimits(DropDefaults(p.ulimits))]

Inspect(e, p, id) ==
    Update(CommonOptions(p, id), IF e = "docker" THEN DockerOptions(p) ELSE PodmanOptions(p))

----------------------------------------------------------------------------
(* The comparisons: does request p differ from what the engine reports?    *)

podman_cap_add(p, i) ==
    LET more == IF i.Privileged THEN {} ELSE {AuditWrite}
    IN  {Prefixed(c) : c \in p.cap_add} \cup more # i.CapAdd \cup more

compare_cap_add(e, p, i) == IF e = "docker" THEN p.cap_add # i.CapAdd ELSE podman_cap_add(p, i)

compare_security_opt(p, i) ==
    /\ p.ipc_mode # "host" /\ p.pid_mode # "host" /\ ~p.privileged
    /\ p.security_opt # i.SecurityOpt

\* image is what check_image finds: the id of the local image, or None.  Podman
\* compares names without the registry.
podman_image(p, i, image) == image = None \/ image # i.Image \/ p.image.base # i.ImageName.base

compare_image(e, p, i, image) ==
    \/ podman_image(p, i, image)
    \/ e = "docker" /\ p.image.registry # i.ImageName.registry

compare_ipc_mode(p, i) == p.ipc_mode # None /\ p.ipc_mode # i.IpcMode

compare_labels(p, i) ==
    \/ \E k \in DOMAIN ImageLabels \cap DOMAIN p.labels : ImageLabels[k] # p.labels[k]
    \/ p.labels # [k \in DOMAIN i.Labels \ (DOMAIN ImageLabels \ DOMAIN p.labels) |-> i.Labels[k]]

docker_pid_mode(p, i) == p.pid_mode # IF i.PidMode = "" THEN None ELSE i.PidMode

\* The mode that Podman gives a container by default is no difference.
compare_pid_mode(e, p, i) ==
    docker_pid_mode(p, i) /\ ~(e = "podman" /\ p.pid_mode = None /\ i.PidMode = "private")

\* A Docker that reports no mode behaves like host.
Cgroupns(i) == IF i.CgroupnsMode = "" THEN "host" ELSE i.CgroupnsMode

compare_cgroupns_mode(p, i) == p.cgroupns_mode # None /\ p.cgroupns_mode # Cgroupns(i)

compare_tmpfs(p, i) == p.tmpfs \ {""} # i.Tmpfs

docker_volumes(p, i) ==
    LET new == generate_volumes(p.volumes)
    IN  new.list # i.Volumes \/ new.binds # i.Binds

podman_volumes(p, i) ==
    LET new == generate_volumes(p.volumes)
        Normal(binds) == {[b EXCEPT !.mode = normalize_mode(@)] : b \in binds}
    IN  \/ new.list # i.Volumes
        \/ Normal({[b EXCEPT !.mode = {@}] : b \in new.binds}) # Normal(i.Binds)

compare_volumes(e, p, i) == IF e = "docker" THEN docker_volumes(p, i) ELSE podman_volumes(p, i)

\* dimensions_differ: Docker's worker converts units, Podman's does not.
dimensions_differ(e, v, current) ==
    IF e = "docker" THEN Bytes(v) # current ELSE v.unit # "" \/ v.n # current

compare_dimensionsGiven(e, p, i) ==
    \E k \in Comparable(e) \cap DOMAIN p.dimensions : dimensions_differ(e, p.dimensions[k], i.Resources[k])

compare_dimensions(e, p, i) ==
    \E k \in Comparable(e) :
        IF k \in DOMAIN p.dimensions THEN dimensions_differ(e, p.dimensions[k], i.Resources[k])
        ELSE i.Resources[k] # 0

podman_ulimits(p, i) == DropDefaults(NormalUlimits(p.ulimits)) # NormalUlimits(DropDefaults(i.Ulimits))

compare_ulimits(e, p, i) == IF e = "docker" THEN p.ulimits # i.Ulimits ELSE podman_ulimits(p, i)

\* Only the variables of the request are looked at.
compare_environment(p, i) ==
    \E k \in DOMAIN p.environment : k \notin DOMAIN i.Env \/ p.environment[k] # i.Env[k]

compare_command(p, i) == p.command # None /\ p.command # i.Command

compare_healthcheck(p, i) == parse_healthcheck(p.healthcheck) # i.Healthcheck

\* compare_container_state: any state but the requested one is a difference, so
\* a stopped service is always recreated and never just started.
compare_container_state(p, status) == status # p.state

check_container_differs(e, p, i, image, status) ==
    \/ compare_cap_add(e, p, i) \/ compare_security_opt(p, i) \/ compare_image(e, p, i, image)
    \/ compare_ipc_mode(p, i) \/ compare_labels(p, i) \/ p.privileged # i.Privileged
    \/ compare_pid_mode(e, p, i) \/ compare_cgroupns_mode(p, i) \/ compare_tmpfs(p, i)
    \/ compare_volumes(e, p, i) \/ p.volumes_from # i.VolumesFrom \/ compare_environment(p, i)
    \/ compare_container_state(p, status) \/ compare_dimensions(e, p, i)
    \/ compare_ulimits(e, p, i) \/ compare_command(p, i) \/ compare_healthcheck(p, i)

----------------------------------------------------------------------------
(* Reference: a request has drifted from the request that a container was  *)
(* created from when the engine would report something else, in an option  *)
(* that the request speaks of.                                             *)

Drift(e, p, old, id) ==
    LET new == Inspect(e, p, id)
        cur == Inspect(e, old, id)
        Free == {"CgroupnsMode", "Env", "ImageName"}
                  \cup (IF p.ipc_mode = None THEN {"IpcMode"} ELSE {})
                  \cup (IF p.command = None THEN {"Command"} ELSE {})
                  \cup (IF "host" \in {p.ipc_mode, p.pid_mode} \/ p.privileged
                        THEN {"SecurityOpt"} ELSE {})
    IN  \/ \E a \in DOMAIN new \ Free : new[a] # cur[a]
        \/ \E k \in DOMAIN p.environment : k \notin DOMAIN cur.Env \/ new.Env[k] # cur.Env[k]
        \/ p.cgroupns_mode # None /\ Cgroupns(new) # Cgroupns(cur)
        \/ p.image # old.image /\ ~(e = "podman" /\ p.image.base = old.image.base)

\* The requests that both sides of the code treat alike.  Beyond them the code
\* finds a difference for ever, or refuses the request: an option that Podman is
\* not given (tmpfs, security_opt, other modes of a path), a unit that the Podman
\* worker does not convert, a ulimit that is dropped under one name only, a label
\* of the image with another value, a variable without a value, one that
\* _inject_env_var replaces.  Podman's default flags as the mode of a volume are
\* told apart by nobody.
Supported(e, p) ==
    /\ \A k \in DOMAIN ImageLabels \cap DOMAIN p.labels : ImageLabels[k] = p.labels[k]
    /\ \A k \in DOMAIN p.environment : k # "KOLLA_SERVICE_NAME" /\ p.environment[k] # None
    /\ DOMAIN p.dimensions \subseteq Comparable(e)
    /\ p.healthcheck # None => DOMAIN p.healthcheck = HealthOptions
    /\ e = "podman" =>
         /\ p.tmpfs \subseteq {""} /\ p.security_opt = {}
         /\ \A k \in DOMAIN p.dimensions : p.dimensions[k].unit = ""
         /\ \A v \in p.volumes : IF v.path THEN v.mode \in {"", "rw", "ro", "shared"}
                                 ELSE v.mode \notin DefaultFlags
         /\ \A u \in p.ulimits : u.name \in PodmanDefaults \/ Prefixed(u.name) \notin PodmanDefaults

\* Types of the options, as the argument specification and generate_module leave
\* them.
RequestOK(p) ==
    /\ p.image \in [registry : STRING, base : STRING]
    /\ p.pid_mode \in {None, "host", "private"} /\ p.cgroupns_mode \in {None, "host", "private"}
    /\ p.labels \in [DOMAIN p.labels -> STRING]
    /\ \A k \in DOMAIN p.dimensions : p.dimensions[k].n \in Nat
    /\ \A u \in p.ulimits : u \in [name : [stem : STRING, prefix : BOOLEAN], soft : Int, hard : Int]
=============================================================================
