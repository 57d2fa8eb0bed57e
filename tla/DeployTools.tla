------------------------------ MODULE DeployTools ------------------------------
(***************************************************************************)
(* The tools around a deployment.  The comparison of a container with its  *)
(* request, the merging of configuration files, the schedule of key        *)
(* rotations and the validation of inputs are functions: a behaviour picks *)
(* a case and computes its outcome.  The password file and the image       *)
(* commands are state machines of their own.                               *)
(***************************************************************************)
EXTENDS ContainerSpec, ConfigMerge, FernetCron, PasswordFile, PowerOpsInputs

CONSTANTS Cases          \* records with the tool and its arguments

\* An image has an id, here 1.
ASSUME IdAssumption == 1 # None

ASSUME CasesAssumption ==
    \A c \in Cases :
        /\ c.tool = "compare" => c.engine \in Engines /\ RequestOK(c.new) /\ RequestOK(c.old)
        /\ c.tool = "cron" => c.number \in Nat \ {0} /\ c.mins \in Nat \ {0}
        /\ c.tool = "validate" => DataOK(c.data)

VARIABLES job, done, out \* the case, whether it has been computed, and its outcome

caseVars == <<job, done, out>>
vars == <<caseVars, passwordVars, imageVars>>

Init ==
    /\ job \in Cases /\ done = FALSE /\ out = {}
    /\ PasswordInit /\ (job.tool # "passwords" => first = 1)
    /\ ImageInit /\ (job.tool # "images" => Range(hosts) = {"r1"})

Compute(tool, outcome) ==
    /\ job.tool = tool /\ ~done
    /\ done' = TRUE /\ out' = outcome
    /\ UNCHANGED <<job, passwordVars, imageVars>>

\* A running container created from the old request, on the image with id 1.
CompareContainer ==
    job.tool = "compare" /\
    Compute("compare", {check_container_differs(job.engine, job.new, Inspect(job.engine, job.old, 1), 1, "running")})

MergeIni == job.tool = "ini" /\ Compute("ini", write(merge_configs(job.sources)))

MergeYaml == job.tool = "yaml" /\ Compute("yaml", merge_yaml(job.sources, job.extend))

ScheduleRotations ==
    job.tool = "cron" /\ Compute("cron", [h \in 0..(job.number - 1) |-> generate(h, job.number, job.mins)])

ValidateInputs == job.tool = "validate" /\ Compute("validate", validate_config(job.data))

KeepPasswords == job.tool = "passwords" /\ PasswordNext /\ UNCHANGED <<caseVars, imageVars>>

PrepareImages == job.tool = "images" /\ ImageNext /\ UNCHANGED <<caseVars, passwordVars>>

Next == CompareContainer \/ MergeIni \/ MergeYaml \/ ScheduleRotations \/ ValidateInputs
          \/ KeepPasswords \/ PrepareImages

Spec == Init /\ [][Next]_vars

Computed(tool) == job.tool = tool /\ done

----------------------------------------------------------------------------

\* check_container_differs of either engine recreates a container exactly when the
\* new request would give another container in an option that it speaks of, or asks
\* for another state than running: it does not miss such a change, and does not
\* restart a service for none.
CompareIsExact ==
    Computed("compare") /\ Supported(job.engine, job.new) /\ Supported(job.engine, job.old) =>
      out = {Drift(job.engine, job.new, job.old, 1) \/ job.new.state # "running"}

\* What a service reads from the file that merge_configs writes is, for every
\* section and key, what the last source that assigns the key gives it, all of its
\* values; provided keys before any section come from the first source.
IniMergePrecedence ==
    Computed("ini") /\ OrphansFirst(merge_configs(job.sources)) =>
      \A s \in {Orphan, "a", "b"}, k \in {"k", "l"} :
          Get(Get(ParseSource(out).at, s, Nothing), k, <<>>) = IniReference(job.sources, s, k)

\* merge_yaml keeps every leaf of every source that no later source overrides, and
\* an overridden one has the last value, or all of a list's values in order when
\* lists are extended; nothing else appears.
YamlMergeKeepsLeaves ==
    Computed("yaml") /\ ~Broken(out) =>
      /\ \A n \in DOMAIN job.sources : \A q \in Paths(job.sources[n]) :
            YamlReference(job.sources, job.extend, q)
              = (IF q \in Paths(out) THEN <<ValueAt(out, q)>> ELSE <<>>)
      /\ Paths(out) \subseteq UNION {Paths(job.sources[n]) : n \in DOMAIN job.sources}

\* Rotations of any two hosts, or of one host at two times, are at least the
\* rotation interval apart, across the end of the cycle too.
Apart(tables, span, mins) ==
    \A g, h \in DOMAIN tables : \A c \in tables[g], d \in tables[h] :
        (<<g, c>> # <<h, d>> /\ RunsAt(c) <= RunsAt(d)) =>
            /\ RunsAt(d) - RunsAt(c) >= mins
            /\ span - (RunsAt(d) - RunsAt(c)) >= mins

\* The Fernet cron tables never over-rotate as long as a round of all hosts fits
\* into a day.
NoOverRotation ==
    Computed("cron") /\ job.number * job.mins <= DAY_SPAN =>
      Apart(out, Span(job.number, job.mins), job.mins)

\* The comment of the generator claims it for every interval: each host rotates in
\* turn, since tokens may become invalid if keys are over-rotated.
RoundRobin ==
    Computed("cron") => Apart(out, Span(job.number, job.mins), job.mins)

\* Inputs that `powerops validate` accepts are deployable: every node with a plain
\* name passes the checks of the role's Ironic module, on a host of the inventory,
\* and no two nodes or ports collide once the module has normalised them.
ValidatedInputsDeploy ==
    Computed("validate") /\ out = {}
      /\ (\A i \in DOMAIN job.data.nodes : job.data.nodes[i].name.text # "" /\ ~job.data.nodes[i].name.padded) =>
      LET n == [i \in DOMAIN job.data.nodes |-> normalize_spec(job.data.nodes[i])]
      IN  /\ \A i \in DOMAIN n : n[i].ok
          /\ \A i \in DOMAIN n : n[i].host \in job.data.computes
          /\ \A i \in DOMAIN n : \A j \in DOMAIN n \ {i} : n[i].name # n[j].name /\ Range(n[i].ports) \cap Range(n[j].ports) = {}
=============================================================================
