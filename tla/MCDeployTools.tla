---------------------------- MODULE MCDeployTools ----------------------------
(***************************************************************************)
(* The cases: requests that differ from a base in one option each, short   *)
(* INI files and two-level YAML trees, intervals around the limits of an   *)
(* hour and a day, and node lists that differ from a sound one in a field. *)
(***************************************************************************)
EXTENDS DeployTools, TLC

MCImageLabels == "kolla_version" :> "1"
MCImageEnv == "PATH" :> "/usr/bin"

Volume(src, path, mode) == [src |-> src, path |-> path, dst |-> "/data", mode |-> mode]
Limit(stem, prefix) == [name |-> [stem |-> stem, prefix |-> prefix], soft |-> 1, hard |-> 2]
Health(test, form, retries) ==
    [test |-> [command |-> test, form |-> form], interval |-> 30, timeout |-> 30,
     start_period |-> 5, retries |-> retries]

Base == [name |-> "nova", cap_add |-> {}, security_opt |-> {}, privileged |-> FALSE,
         image |-> [registry |-> "quay", base |-> "nova"], ipc_mode |-> None, pid_mode |-> None,
         cgroupns_mode |-> None, labels |-> <<>>, tmpfs |-> {}, volumes |-> {},
         volumes_from |-> {}, environment |-> "A" :> "1", dimensions |-> <<>>, ulimits |-> {},
         command |-> None, healthcheck |-> None, state |-> "running"]

Requests ==
    {Base}
      \cup {[Base EXCEPT !.cap_add = {[stem |-> "SYS_NICE", prefix |-> b]}] : b \in BOOLEAN}
      \cup {[Base EXCEPT !.cap_add = {AuditWrite}, !.privileged = b] : b \in BOOLEAN}
      \cup {[Base EXCEPT !.security_opt = {"label=disable"}, !.privileged = b] : b \in BOOLEAN}
      \cup {[Base EXCEPT !.privileged = TRUE]}
      \cup {[Base EXCEPT !.image.registry = "local"], [Base EXCEPT !.image.base = "nova:2"]}
      \cup {[Base EXCEPT !.ipc_mode = m] : m \in {"host", "private"}}
      \cup {[Base EXCEPT !.pid_mode = m] : m \in {"host", "private"}}
      \cup {[Base EXCEPT !.cgroupns_mode = m] : m \in {"host", "private"}}
      \cup {[Base EXCEPT !.labels = f] : f \in {"kolla_version" :> "1", "kolla_version" :> "2", "x" :> "1"}}
      \cup {[Base EXCEPT !.tmpfs = t] : t \in {{""}, {"/run"}}}
      \cup {[Base EXCEPT !.volumes = {Volume(v[1], v[2], v[3])}] :
               v \in ({"/etc/nova"} \X {TRUE} \X {"", "rw", "ro", "shared", "ro,rslave"})
                        \cup ({"nova"} \X {FALSE} \X {"", "ro", "nosuid"})}
      \cup {[Base EXCEPT !.environment = f] : f \in {<<>>, "A" :> "2", ("A" :> "1") @@ ("B" :> "1"), "PATH" :> "/bin",
                                                    "KOLLA_SERVICE_NAME" :> "nova-api"}}
      \cup {[Base EXCEPT !.state = "exited"]}
      \cup {[Base EXCEPT !.dimensions = "mem_limit" :> [n |-> d[1], unit |-> d[2]]] :
               d \in {<<0, "">>, <<1, "k">>, <<1024, "">>, <<1024, "b">>}}
      \cup {[Base EXCEPT !.dimensions = "kernel_memory" :> [n |-> 1, unit |-> ""]]}
      \cup {[Base EXCEPT !.ulimits = {Limit(u[1], u[2])}] : u \in {"CORE", "NOFILE"} \X BOOLEAN}
      \cup {[Base EXCEPT !.command = c] : c \in {"run", "bootstrap"}}
      \cup {[Base EXCEPT !.healthcheck = h] :
               h \in {Health("NONE", "text", 3), Health("ok", "text", 3), Health("ok", "CMD-SHELL", 3),
                      Health("ok", "CMD", 3), Health("ok", "text", 5)}}

CompareCases == {[tool |-> "compare", engine |-> e, new |-> n, old |-> o] :
                    e \in Engines, n \in Requests, o \in Requests}

Lines == {<<"section", "a">>, <<"section", "b">>} \cup ({"assign"} \X {"k"} \X {<<"1">>, <<"2">>, <<"">>})
ShortLines == {<<"section", "a">>, <<"assign", "k", <<"1", "2">>>>, <<"assign", "l", <<"1">>>>}
Files(lines, n) == UNION {[1..m -> lines] : m \in 0..n}

IniCases == [tool : {"ini"}, sources : (Files(Lines, 3) \X Files(Lines, 2))
                                         \cup (Files(ShortLines, 2) \X Files(ShortLines, 2) \X Files(ShortLines, 2))]

Dict(f) == [kind |-> "dict", value |-> f]
List(v) == [kind |-> "list", value |-> <<v>>]
Values == {Leaf(1), Leaf(2), List(1), List(2), Dict(Nothing), Dict("i" :> Leaf(1)), Dict("i" :> Leaf(2)),
           Dict("j" :> List(1)), Dict(("i" :> Leaf(3)) @@ ("j" :> List(2)))}
Trees == {Nothing} \cup {"x" :> v : v \in Values} \cup {("x" :> v) @@ ("y" :> Leaf(1)) : v \in Values}

YamlCases == [tool : {"yaml"}, sources : Trees \X Trees \X Trees, extend : BOOLEAN]

CronCases == [tool : {"cron"}, number : 1..4,
              mins : {1, 7, 15, 16, 20, 25, 30, 31, 60, 61, 90, 100, 360, 480, 481, 720, 1439, 1440}]

Mac(a) == [addr |-> a, upper |-> FALSE, valid |-> TRUE]
Name(t) == [text |-> t, padded |-> FALSE]
Node(n) == [name |-> Name(n), nova_hostname |-> Name(n), driver |-> "redfish", bmc |-> n,
            info |-> Fields("redfish"), network_interface |-> "noop",
            desired_provision_state |-> "manageable", ports |-> <<Mac(n)>>]

Variants(n) ==
    LET node == Node(n) IN
    {node}
      \cup {[node EXCEPT !.name = Name(t)] : t \in {"", "n1"}}
      \cup {[node EXCEPT !.name.padded = TRUE], [node EXCEPT !.nova_hostname.padded = TRUE],
            [node EXCEPT !.name = [text |-> "", padded |-> TRUE]]}
      \cup {[node EXCEPT !.nova_hostname = Name(t)] : t \in {"", "n1", "n9"}}
      \cup {[node EXCEPT !.driver = d, !.bmc = "n1"] : d \in {"redfish", "REDFISH", "ipmi", "ilo"}}
      \cup {[node EXCEPT !.driver = d[1], !.info = @ \ {d[2]}] :
               d \in {"redfish", "ipmi"} \X {"address", "system_id", "password"}}
      \cup {[node EXCEPT !.network_interface = "flat"], [node EXCEPT !.desired_provision_state = "available"]}
      \cup {[node EXCEPT !.ports = <<>>], [node EXCEPT !.ports[1].valid = FALSE],
            [node EXCEPT !.ports = <<Mac(n), [Mac(n) EXCEPT !.upper = TRUE]>>],
            [node EXCEPT !.ports = <<Mac(n), [Mac("n1") EXCEPT !.upper = TRUE]>>]}

Data(nodes) == [services |-> TRUE, section |-> TRUE, computes |-> {"n1", "n2"}, nodes |-> nodes]

ValidateCases ==
    {[tool |-> "validate", data |-> Data(nodes)] : nodes \in Variants("n1") \X Variants("n2")}
      \cup {[tool |-> "validate", data |-> [Data(<<Node("n1")>>) EXCEPT !.services = b, !.section = ~b]] :
               b \in BOOLEAN}

MCCases == CompareCases \cup IniCases \cup YamlCases \cup CronCases \cup ValidateCases
             \cup [tool : {"passwords", "images"}]

\* Intervals for which a round of all hosts takes longer than a day.
WeeklyCases == [tool : {"cron"}, number : 1..4, mins : {480, 720}]
=============================================================================
