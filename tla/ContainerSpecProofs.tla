-------------------------- MODULE ContainerSpecProofs --------------------------
(***************************************************************************)
(* The comparison of a container with its request, for any requests.       *)
(***************************************************************************)
EXTENDS ContainerSpec, TLAPS

-----------------------------------------------------------------------------
(***************************************************************************)
(* The comparison of a container with its request, option by option: the   *)
(* worker finds a difference exactly where the engine would report another *)
(* value.                                                                  *)
(***************************************************************************)

\* What the engine reports: the options that both engines share, and its own.
Common(p, id) == CommonOptions(p, id)
Own(e, p) == IF e = "docker" THEN DockerOptions(p) ELSE PodmanOptions(p)

LEMMA Reported ==
  ASSUME NEW e, NEW p, NEW id
  PROVE  /\ \A a \in {"Image", "ImageName", "IpcMode", "Labels", "Privileged", "Volumes",
                      "VolumesFrom", "Env", "Resources", "Command", "Healthcheck"} :
              Inspect(e, p, id)[a] = Common(p, id)[a]
         /\ \A a \in {"CapAdd", "SecurityOpt", "PidMode", "CgroupnsMode", "Tmpfs", "Binds",
                      "Ulimits"} : Inspect(e, p, id)[a] = Own(e, p)[a]
         /\ DOMAIN Inspect(e, p, id) =
              {"Image", "ImageName", "IpcMode", "Labels", "Privileged", "Volumes",
               "VolumesFrom", "Env", "Resources", "Command", "Healthcheck", "CapAdd",
               "SecurityOpt", "PidMode", "CgroupnsMode", "Tmpfs", "Binds", "Ulimits"}
BY DEF Inspect, Update, Common, Own, CommonOptions, DockerOptions, PodmanOptions

\* The engine would report another value of option a.
Other(e, p, o, id, a) == Inspect(e, p, id)[a] # Inspect(e, o, id)[a]

Fits(e, p) == Supported(e, p) /\ RequestOK(p)

\* Capabilities, unless the containers differ in being privileged anyway.
LEMMA CapsExact ==
  ASSUME NEW e \in Engines, NEW p, NEW id, NEW o, p.privileged = o.privileged
  PROVE  compare_cap_add(e, p, Inspect(e, o, id)) <=> Other(e, p, o, id, "CapAdd")
<1> DEFINE i == Inspect(e, o, id)
<1>1. /\ i["CapAdd"] = Own(e, o)["CapAdd"] /\ Inspect(e, p, id)["CapAdd"] = Own(e, p)["CapAdd"]
      /\ i["Privileged"] = Common(o, id)["Privileged"]
  BY Reported
<1>2. i.Privileged = o.privileged
  BY <1>1 DEF Common, CommonOptions
<1>3. CASE e = "docker"
  BY <1>1, <1>3 DEF Own, DockerOptions, compare_cap_add, Other
<1>4. CASE e # "docker"
  <2> DEFINE more == IF o.privileged THEN {} ELSE {AuditWrite}
             P == {Prefixed(c) : c \in p.cap_add}
             O == {Prefixed(c) : c \in o.cap_add}
  <2>1. i["CapAdd"] = O \cup more /\ Inspect(e, p, id)["CapAdd"] = P \cup more
    BY <1>1, <1>4 DEF Own, PodmanOptions
  <2>2. compare_cap_add(e, p, i) <=> P \cup more # i.CapAdd \cup more
    BY <1>2, <1>4 DEF compare_cap_add, podman_cap_add
  <2> QED
    BY <2>1, <2>2 DEF Other
<1> QED
  BY <1>3, <1>4

\* Security options, where they are looked at.
LEMMA SecurityExact ==
  ASSUME NEW e \in Engines, NEW p, NEW id, NEW o, Fits(e, p), Fits(e, o)
  PROVE  compare_security_opt(p, Inspect(e, o, id))
           <=> /\ "host" \notin {p.ipc_mode, p.pid_mode} /\ ~p.privileged
               /\ Other(e, p, o, id, "SecurityOpt")
<1>1. /\ Inspect(e, o, id)["SecurityOpt"] = Own(e, o)["SecurityOpt"]
      /\ Inspect(e, p, id)["SecurityOpt"] = Own(e, p)["SecurityOpt"]
  BY Reported
<1>2. CASE e = "docker"
  BY <1>1, <1>2 DEF Own, DockerOptions, compare_security_opt, Other
<1>3. CASE e # "docker"
  <2>1. p.security_opt = {}
    BY <1>3, EnginesAssumption DEF Fits, Supported
  <2> QED
    BY <1>1, <1>3, <2>1 DEF Own, PodmanOptions, compare_security_opt, Other
<1> QED
  BY <1>2, <1>3

\* The image: its id is the same, so that its name decides.
LEMMA ImageExact ==
  ASSUME NEW e \in Engines, NEW p, NEW id, id # None, NEW o, Fits(e, p), Fits(e, o)
  PROVE  compare_image(e, p, Inspect(e, o, id), id)
           <=> p.image # o.image /\ ~(e = "podman" /\ p.image.base = o.image.base)
<1> DEFINE i == Inspect(e, o, id)
<1>1. i["Image"] = id /\ i["ImageName"] = o.image
  <2>1. i["Image"] = Common(o, id)["Image"] /\ i["ImageName"] = Common(o, id)["ImageName"]
    BY Reported
  <2> QED
    BY <2>1 DEF Common, CommonOptions
<1>2. p.image = o.image <=> p.image.base = o.image.base /\ p.image.registry = o.image.registry
  BY DEF Fits, RequestOK
<1>3. compare_image(e, p, i, id)
        <=> \/ id = None \/ p.image.base # o.image.base
            \/ e = "docker" /\ p.image.registry # o.image.registry
  BY <1>1 DEF compare_image, podman_image
<1>4. e = "docker" <=> e # "podman"
  BY EnginesAssumption
<1> QED
  BY <1>2, <1>3, <1>4

\* The inter-process communication mode and the command, where the request gives
\* them.
LEMMA GivenExact ==
  ASSUME NEW e \in Engines, NEW p, NEW id, NEW o
  PROVE  /\ compare_ipc_mode(p, Inspect(e, o, id))
              <=> p.ipc_mode # None /\ Other(e, p, o, id, "IpcMode")
         /\ compare_command(p, Inspect(e, o, id))
              <=> p.command # None /\ Other(e, p, o, id, "Command")
<1>1. \A a \in {"IpcMode", "Command"} :
         /\ Inspect(e, o, id)[a] = Common(o, id)[a] /\ Inspect(e, p, id)[a] = Common(p, id)[a]
  BY Reported
<1>2. /\ Inspect(e, o, id)["IpcMode"] = Common(o, id)["IpcMode"]
      /\ Inspect(e, p, id)["IpcMode"] = Common(p, id)["IpcMode"]
      /\ Inspect(e, o, id)["Command"] = Common(o, id)["Command"]
      /\ Inspect(e, p, id)["Command"] = Common(p, id)["Command"]
  BY <1>1
<1>3. p.ipc_mode # None => Common(p, id)["IpcMode"] = p.ipc_mode
  BY DEF Common, CommonOptions
<1>4. Common(p, id)["Command"] = p.command
  BY DEF Common, CommonOptions
<1> QED
  BY <1>2, <1>3, <1>4 DEF compare_ipc_mode, compare_command, Other

\* The process id mode: none is a mode of the engine's own.
LEMMA PidExact ==
  ASSUME NEW e \in Engines, NEW p, NEW id, NEW o, Fits(e, p), Fits(e, o)
  PROVE  compare_pid_mode(e, p, Inspect(e, o, id)) <=> Other(e, p, o, id, "PidMode")
<1>1. /\ Inspect(e, o, id)["PidMode"] = Own(e, o)["PidMode"]
      /\ Inspect(e, p, id)["PidMode"] = Own(e, p)["PidMode"]
  BY Reported
<1>2. /\ p.pid_mode = None \/ p.pid_mode # ""
      /\ o.pid_mode = None \/ o.pid_mode # ""
  BY DEF Fits, RequestOK
<1>3. e = "docker" <=> e # "podman"
  BY EnginesAssumption
<1>4. CASE e = "docker"
  BY <1>1, <1>2, <1>3, <1>4
     DEF Own, DockerOptions, compare_pid_mode, docker_pid_mode, Other
<1>5. CASE e # "docker"
  BY <1>1, <1>2, <1>3, <1>5
     DEF Own, PodmanOptions, compare_pid_mode, docker_pid_mode, Other
<1> QED
  BY <1>4, <1>5

\* The namespace of control groups, where the request gives it.
LEMMA CgroupnsExact ==
  ASSUME NEW e \in Engines, NEW p, NEW id, NEW o, Fits(e, p), Fits(e, o)
  PROVE  compare_cgroupns_mode(p, Inspect(e, o, id))
           <=> /\ p.cgroupns_mode # None
               /\ Cgroupns(Inspect(e, p, id)) # Cgroupns(Inspect(e, o, id))
<1>1. Inspect(e, p, id)["CgroupnsMode"] = Own(e, p)["CgroupnsMode"]
  BY Reported
<1>2. p.cgroupns_mode # None => Cgroupns(Inspect(e, p, id)) = p.cgroupns_mode
  BY <1>1 DEF Own, DockerOptions, PodmanOptions, Cgroupns, Fits, RequestOK
<1> QED
  BY <1>2 DEF compare_cgroupns_mode

\* Temporary file systems.
LEMMA TmpfsExact ==
  ASSUME NEW e \in Engines, NEW p, NEW id, NEW o, Fits(e, p), Fits(e, o)
  PROVE  compare_tmpfs(p, Inspect(e, o, id)) <=> Other(e, p, o, id, "Tmpfs")
<1>1. /\ Inspect(e, o, id)["Tmpfs"] = Own(e, o)["Tmpfs"]
      /\ Inspect(e, p, id)["Tmpfs"] = Own(e, p)["Tmpfs"]
  BY Reported
<1>2. CASE e = "docker"
  BY <1>1, <1>2 DEF Own, DockerOptions, compare_tmpfs, Other
<1>3. CASE e # "docker"
  <2>1. p.tmpfs \ {""} = {}
    BY <1>3, EnginesAssumption DEF Fits, Supported
  <2> QED
    BY <1>1, <1>3, <2>1 DEF Own, PodmanOptions, compare_tmpfs, Other
<1> QED
  BY <1>2, <1>3

\* Options that both sides pass on as they are.
LEMMA PlainExact ==
  ASSUME NEW e \in Engines, NEW p, NEW id, NEW o
  PROVE  /\ p.privileged # Inspect(e, o, id).Privileged <=> Other(e, p, o, id, "Privileged")
         /\ p.volumes_from # Inspect(e, o, id).VolumesFrom <=> Other(e, p, o, id, "VolumesFrom")
         /\ compare_healthcheck(p, Inspect(e, o, id)) <=> Other(e, p, o, id, "Healthcheck")
         /\ ~Other(e, p, o, id, "Image")
<1>1. \A a \in {"Privileged", "VolumesFrom", "Healthcheck", "Image"} :
         /\ Inspect(e, o, id)[a] = Common(o, id)[a] /\ Inspect(e, p, id)[a] = Common(p, id)[a]
  BY Reported
<1>2. /\ Common(p, id)["Privileged"] = p.privileged /\ Common(p, id)["VolumesFrom"] = p.volumes_from
      /\ Common(p, id)["Healthcheck"] = parse_healthcheck(p.healthcheck)
      /\ Common(p, id)["Image"] = Common(o, id)["Image"]
  BY DEF Common, CommonOptions
<1>3. /\ p.privileged # Inspect(e, o, id)["Privileged"] <=> Other(e, p, o, id, "Privileged")
      /\ p.volumes_from # Inspect(e, o, id)["VolumesFrom"] <=> Other(e, p, o, id, "VolumesFrom")
  BY <1>1, <1>2 DEF Other
<1>4. compare_healthcheck(p, Inspect(e, o, id)) <=> Other(e, p, o, id, "Healthcheck")
  BY <1>1, <1>2 DEF Other, compare_healthcheck
<1> QED
  BY <1>1, <1>2, <1>3, <1>4 DEF Other
\* Labels: those that only the image has are left out of the comparison.
LEMMA LabelsExact ==
  ASSUME NEW e \in Engines, NEW p, NEW id, NEW o, Fits(e, p), Fits(e, o)
  PROVE  compare_labels(p, Inspect(e, o, id)) <=> Other(e, p, o, id, "Labels")
<1> DEFINE i == Inspect(e, o, id)
           I == ImageLabels
           P == p.labels
           O == o.labels
           R == [k \in (DOMAIN I \cup DOMAIN O) \ (DOMAIN I \ DOMAIN P) |-> Update(I, O)[k]]
<1>1. i["Labels"] = Update(I, O) /\ Inspect(e, p, id)["Labels"] = Update(I, P)
  <2>1. /\ i["Labels"] = Common(o, id)["Labels"]
        /\ Inspect(e, p, id)["Labels"] = Common(p, id)["Labels"]
    BY Reported
  <2> QED
    BY <2>1 DEF Common, CommonOptions
<1>2. /\ \A k \in DOMAIN I \cap DOMAIN P : I[k] = P[k]
      /\ \A k \in DOMAIN I \cap DOMAIN O : I[k] = O[k]
  BY DEF Fits, Supported
<1>3. P = [k \in DOMAIN P |-> P[k]]
  BY DEF Fits, RequestOK
<1>4. compare_labels(p, i) <=> P # R
  <2>1. DOMAIN Update(I, O) = DOMAIN I \cup DOMAIN O
    BY DEF Update
  <2> QED
    BY <1>1, <1>2, <2>1 DEF compare_labels
<1> HIDE DEF I, P, O, i
<1>5. ASSUME P = R PROVE Update(I, P) = Update(I, O)
  <2>1. DOMAIN P = (DOMAIN I \cup DOMAIN O) \ (DOMAIN I \ DOMAIN P)
    BY <1>5
  <2>2. DOMAIN I \cup DOMAIN P = DOMAIN I \cup DOMAIN O
    BY <2>1
  <2>3. ASSUME NEW k \in DOMAIN I \cup DOMAIN P PROVE Update(I, P)[k] = Update(I, O)[k]
    <3>1. CASE k \in DOMAIN P
      <4>1. P[k] = Update(I, O)[k]
        BY <1>5, <2>1, <3>1
      <4>2. Update(I, P)[k] = P[k]
        BY <3>1 DEF Update
      <4> QED
        BY <4>1, <4>2
    <3>2. CASE k \notin DOMAIN P
      <4>1. k \in DOMAIN I /\ k \in DOMAIN I \cup DOMAIN O
        BY <3>2
      <4>2. Update(I, P)[k] = I[k]
        BY <3>2, <4>1 DEF Update
      <4>3. Update(I, O)[k] = I[k]
        BY <1>2, <4>1 DEF Update
      <4> QED
        BY <4>2, <4>3
    <3> QED
      BY <3>1, <3>2
  <2> QED
    BY <2>2, <2>3 DEF Update
<1>6. ASSUME Update(I, P) = Update(I, O) PROVE P = R
  <2>1. DOMAIN I \cup DOMAIN P = DOMAIN I \cup DOMAIN O
    BY <1>6 DEF Update
  <2>2. DOMAIN P = (DOMAIN I \cup DOMAIN O) \ (DOMAIN I \ DOMAIN P)
    BY <2>1
  <2>3. \A k \in DOMAIN P : P[k] = Update(I, P)[k]
    BY DEF Update
  <2> QED
    BY <1>3, <1>6, <2>2, <2>3
<1> QED
  BY <1>1, <1>4, <1>5, <1>6 DEF Other, i
\* Of the flags that Podman reports of a mode that is none of its own, normalize_mode
\* leaves what it makes of the mode itself, and tells two modes apart.
LEMMA ModesNormal ==
  ASSUME NEW m, NEW n, m \notin DefaultFlags, n \notin DefaultFlags
  PROVE  /\ normalize_mode(DefaultFlags \cup {m}) = normalize_mode({m})
         /\ normalize_mode({m}) = normalize_mode({n}) => m = n
<1>1. (DefaultFlags \cup {m}) \ DefaultFlags = {m} /\ {m} \ DefaultFlags = {m}
      /\ {n} \ DefaultFlags = {n}
  OBVIOUS
<1>2. /\ normalize_mode({m}) = IF {m} \cap {"ro", "rw"} = {} THEN {m} \cup {"rw"} ELSE {m}
      /\ normalize_mode({n}) = IF {n} \cap {"ro", "rw"} = {} THEN {n} \cup {"rw"} ELSE {n}
      /\ normalize_mode(DefaultFlags \cup {m})
           = IF {m} \cap {"ro", "rw"} = {} THEN {m} \cup {"rw"} ELSE {m}
  BY <1>1 DEF normalize_mode
<1>3. normalize_mode({m}) = normalize_mode({n}) => m = n
  <2>1. CASE m \in {"ro", "rw"}
    BY <1>2, <2>1
  <2>2. CASE m \notin {"ro", "rw"}
    BY <1>2, <2>2
  <2> QED
    BY <2>1, <2>2
<1> QED
  BY <1>2, <1>3

\* A mode that Podman is given is among the flags that it reports, and none of its
\* own.
LEMMA FlagsGiven ==
  ASSUME NEW p, Fits("podman", p), NEW v \in p.volumes
  PROVE  Mode(v) \notin DefaultFlags /\ PodmanFlags(v) = DefaultFlags \cup {Mode(v)}
<1>1. IF v.path THEN v.mode \in {"", "rw", "ro", "shared"} ELSE v.mode \notin DefaultFlags
  BY DEF Fits, Supported
<1>2. "rw" \notin DefaultFlags /\ "ro" \notin DefaultFlags /\ "shared" \notin DefaultFlags
  BY DEF DefaultFlags
<1>3. CASE v.path
  <2>1. v.mode \in {"", "rw", "ro", "shared"}
    BY <1>1, <1>3
  <2>2. CASE v.mode \in {"", "rw"}
    BY <1>2, <1>3, <2>2 DEF Mode, PodmanFlags
  <2>3. CASE v.mode \in {"ro", "shared"}
    BY <1>2, <1>3, <2>3 DEF Mode, PodmanFlags
  <2> QED
    BY <2>1, <2>2, <2>3
<1>4. CASE ~v.path
  BY <1>1, <1>2, <1>4 DEF Mode, PodmanFlags
<1> QED
  BY <1>3, <1>4

\* Volumes: their destinations, and the source, destination and mode of each.
LEMMA VolumesExact ==
  ASSUME NEW e \in Engines, NEW p, NEW id, NEW o, Fits(e, p), Fits(e, o)
  PROVE  compare_volumes(e, p, Inspect(e, o, id))
           <=> Other(e, p, o, id, "Volumes") \/ Other(e, p, o, id, "Binds")
<1> DEFINE i == Inspect(e, o, id)
           P == p.volumes
           O == o.volumes
           B(vs, F(_)) == {[src |-> v.src, dst |-> v.dst, mode |-> F(v)] : v \in vs}
<1>1. /\ i["Volumes"] = {v.dst : v \in O}
      /\ Inspect(e, p, id)["Volumes"] = {v.dst : v \in P}
      /\ i["Binds"] = Own(e, o)["Binds"] /\ Inspect(e, p, id)["Binds"] = Own(e, p)["Binds"]
  <2>1. /\ i["Volumes"] = Common(o, id)["Volumes"]
        /\ Inspect(e, p, id)["Volumes"] = Common(p, id)["Volumes"]
        /\ i["Binds"] = Own(e, o)["Binds"] /\ Inspect(e, p, id)["Binds"] = Own(e, p)["Binds"]
    BY Reported
  <2> QED
    BY <2>1 DEF Common, CommonOptions
<1>2. /\ generate_volumes(P).list = {v.dst : v \in P}
      /\ generate_volumes(P).binds = B(P, Mode)
      /\ generate_volumes(O).binds = B(O, Mode)
  BY DEF generate_volumes
<1>3. CASE e = "docker"
  <2>1. Own(e, o)["Binds"] = B(O, Mode) /\ Own(e, p)["Binds"] = B(P, Mode)
    BY <1>2, <1>3 DEF Own, DockerOptions
  <2> QED
    BY <1>1, <1>2, <1>3, <2>1 DEF compare_volumes, docker_volumes, Other
<1>4. CASE e = "podman"
  <2> DEFINE Single(v) == normalize_mode({Mode(v)})
             Flags(v) == normalize_mode(PodmanFlags(v))
  <2>1. Own(e, o)["Binds"] = B(O, PodmanFlags) /\ Own(e, p)["Binds"] = B(P, PodmanFlags)
    BY <1>4 DEF Own, PodmanOptions
  <2>2. {[b EXCEPT !.mode = normalize_mode(@)] : b \in
           {[b EXCEPT !.mode = {@}] : b \in B(P, Mode)}} = B(P, Single)
    <3> DEFINE r(v) == [src |-> v.src, dst |-> v.dst, mode |-> Mode(v)]
               t(b) == [[b EXCEPT !.mode = {@}] EXCEPT !.mode = normalize_mode(@)]
    <3>1. \A v : t(r(v)) = [src |-> v.src, dst |-> v.dst, mode |-> Single(v)]
      <4> TAKE v
      <4>1. [r(v) EXCEPT !.mode = {@}] = [src |-> v.src, dst |-> v.dst, mode |-> {Mode(v)}]
        OBVIOUS
      <4>2. [[src |-> v.src, dst |-> v.dst, mode |-> {Mode(v)}] EXCEPT !.mode = normalize_mode(@)]
              = [src |-> v.src, dst |-> v.dst, mode |-> Single(v)]
        OBVIOUS
      <4> HIDE DEF r, Single
      <4> QED
        BY <4>1, <4>2
    <3>2. {t(b) : b \in {r(v) : v \in P}} = {t(r(v)) : v \in P}
      <4> HIDE DEF t, r
      <4> QED
        OBVIOUS
    <3>3. {t(r(v)) : v \in P} = B(P, Single)
      <4> HIDE DEF t, r, Single
      <4> QED
        BY <3>1
    <3>4. {[b EXCEPT !.mode = normalize_mode(@)] : b \in
             {[b EXCEPT !.mode = {@}] : b \in B(P, Mode)}} = {t(b) : b \in {r(v) : v \in P}}
      <4> DEFINE u(b) == [b EXCEPT !.mode = {@}]
                 n(b) == [b EXCEPT !.mode = normalize_mode(@)]
                 S == {r(v) : v \in P}
      <4>1. \A b : t(b) = n(u(b))
        OBVIOUS
      <4>2. {n(b) : b \in {u(b) : b \in S}} = {t(b) : b \in S}
        <5> HIDE DEF t, u, n, S
        <5> QED
          BY <4>1
      <4> QED
        BY <4>2
    <3> QED
      BY <3>2, <3>3, <3>4
  <2>3. {[b EXCEPT !.mode = normalize_mode(@)] : b \in B(O, PodmanFlags)} = B(O, Flags)
    <3> DEFINE r(v) == [src |-> v.src, dst |-> v.dst, mode |-> PodmanFlags(v)]
               n(b) == [b EXCEPT !.mode = normalize_mode(@)]
    <3>1. \A v : n(r(v)) = [src |-> v.src, dst |-> v.dst, mode |-> Flags(v)]
      OBVIOUS
    <3>2. {n(b) : b \in {r(v) : v \in O}} = B(O, Flags)
      <4> HIDE DEF n, r, Flags
      <4> QED
        BY <3>1
    <3> QED
      BY <3>2
  <2>4. compare_volumes(e, p, i)
          <=> {v.dst : v \in P} # {v.dst : v \in O} \/ B(P, Single) # B(O, Flags)
    BY <1>1, <1>2, <1>4, <2>1, <2>2, <2>3 DEF compare_volumes, podman_volumes
  <2>5. \A v \in P, w \in O : Single(v) = Flags(w) <=> PodmanFlags(v) = PodmanFlags(w)
    <3> SUFFICES ASSUME NEW v \in P, NEW w \in O
                 PROVE  Single(v) = Flags(w) <=> PodmanFlags(v) = PodmanFlags(w)
      OBVIOUS
    <3>1. /\ Mode(v) \notin DefaultFlags /\ PodmanFlags(v) = DefaultFlags \cup {Mode(v)}
          /\ Mode(w) \notin DefaultFlags /\ PodmanFlags(w) = DefaultFlags \cup {Mode(w)}
      BY <1>4, FlagsGiven
    <3>2. Flags(w) = normalize_mode({Mode(w)})
      BY <3>1, ModesNormal
    <3>3. Single(v) = Flags(w) <=> Mode(v) = Mode(w)
      BY <3>1, <3>2, ModesNormal
    <3>4. PodmanFlags(v) = PodmanFlags(w) <=> Mode(v) = Mode(w)
      BY <3>1
    <3> QED
      BY <3>3, <3>4
  <2> HIDE DEF Single, Flags
  <2>6. B(P, Single) = B(O, Flags) <=> B(P, PodmanFlags) = B(O, PodmanFlags)
    <3> DEFINE Same(v, w) == v.src = w.src /\ v.dst = w.dst /\ PodmanFlags(v) = PodmanFlags(w)
               s(v) == [src |-> v.src, dst |-> v.dst, mode |-> Single(v)]
               t(v) == [src |-> v.src, dst |-> v.dst, mode |-> Flags(v)]
               f(v) == [src |-> v.src, dst |-> v.dst, mode |-> PodmanFlags(v)]
               Match == /\ \A v \in P : \E w \in O : Same(v, w)
                        /\ \A w \in O : \E v \in P : Same(v, w)
    <3>1. \A v, w : f(v) = f(w) <=> Same(v, w)
      OBVIOUS
    <3>2. \A v \in P, w \in O : s(v) = t(w) <=> Same(v, w)
      BY <2>5
    <3> HIDE DEF s, t, f, Same
    <3>3. {s(v) : v \in P} = {t(w) : w \in O} <=> Match
      BY <3>2
    <3>4. {f(v) : v \in P} = {f(w) : w \in O} <=> Match
      BY <3>1
    <3> QED
      BY <3>3, <3>4 DEF s, t, f
  <2> QED
    BY <1>1, <2>1, <2>4, <2>6 DEF Other
<1> QED
  BY <1>3, <1>4, EnginesAssumption
\* Environment variables of the request.
LEMMA EnvironmentExact ==
  ASSUME NEW e \in Engines, NEW p, NEW id, NEW o, Fits(e, p), Fits(e, o)
  PROVE  compare_environment(p, Inspect(e, o, id))
           <=> \E k \in DOMAIN p.environment :
                 \/ k \notin DOMAIN Inspect(e, o, id).Env
                 \/ Inspect(e, p, id).Env[k] # Inspect(e, o, id).Env[k]
<1>1. Inspect(e, p, id)["Env"] = Update(ImageEnv, format_env(p))
  <2>1. Inspect(e, p, id)["Env"] = Common(p, id)["Env"]
    BY Reported
  <2> QED
    BY <2>1 DEF Common, CommonOptions
<1>2. ASSUME NEW k \in DOMAIN p.environment
      PROVE  Inspect(e, p, id)["Env"][k] = p.environment[k]
  <2>1. k # "KOLLA_SERVICE_NAME" /\ p.environment[k] # None
    BY DEF Fits, Supported
  <2>2. k \in DOMAIN format_env(p) /\ format_env(p)[k] = p.environment[k]
    BY <2>1 DEF format_env
  <2> QED
    BY <1>1, <2>2 DEF Update
<1> QED
  BY <1>2 DEF compare_environment

\* Resource limits: a unit that the worker does not convert is none.
LEMMA DimensionsExact ==
  ASSUME NEW e \in Engines, NEW p, NEW id, NEW o, Fits(e, p), Fits(e, o)
  PROVE  compare_dimensions(e, p, Inspect(e, o, id)) <=> Other(e, p, o, id, "Resources")
<1> DEFINE R(q, k) == IF k \in DOMAIN q.dimensions THEN Bytes(q.dimensions[k]) ELSE 0
           i == Inspect(e, o, id)
<1>1. /\ i["Resources"] = [k \in Dimensions |-> R(o, k)]
      /\ Inspect(e, p, id)["Resources"] = [k \in Dimensions |-> R(p, k)]
  <2>1. /\ i["Resources"] = Common(o, id)["Resources"]
        /\ Inspect(e, p, id)["Resources"] = Common(p, id)["Resources"]
    BY Reported
  <2> QED
    BY <2>1 DEF Common, CommonOptions
<1>2. /\ DOMAIN p.dimensions \subseteq Comparable(e) /\ DOMAIN o.dimensions \subseteq Comparable(e)
      /\ Comparable(e) \subseteq Dimensions
  BY DEF Fits, Supported, Comparable
<1>3. \A k \in Dimensions \ Comparable(e) : R(o, k) = 0 /\ R(p, k) = 0
  BY <1>2
<1>4. ASSUME NEW k \in Comparable(e), k \in DOMAIN p.dimensions
      PROVE  dimensions_differ(e, p.dimensions[k], i["Resources"][k]) <=> R(p, k) # R(o, k)
  <2>1. i["Resources"][k] = R(o, k) /\ R(p, k) = Bytes(p.dimensions[k])
    BY <1>1, <1>2, <1>4
  <2>2. CASE e = "docker"
    BY <2>1, <2>2 DEF dimensions_differ
  <2>3. CASE e # "docker"
    <3>1. p.dimensions[k].unit = "" /\ p.dimensions[k].n \in Nat
      <4>1. e = "podman"
        BY <2>3, EnginesAssumption
      <4>2. \A j \in DOMAIN p.dimensions : p.dimensions[j].unit = ""
        BY <4>1 DEF Fits, Supported
      <4>3. \A j \in DOMAIN p.dimensions : p.dimensions[j].n \in Nat
        BY DEF Fits, RequestOK
      <4> QED
        BY <1>4, <4>2, <4>3, Zenon
    <3>2. UnitSize(p.dimensions[k].unit) = 1
      <4>1. UnitSize("") = 1
        BY DEF UnitSize
      <4> QED
        BY <3>1, <4>1, Zenon
    <3>3. Bytes(p.dimensions[k]) = p.dimensions[k].n
      <4>1. Bytes(p.dimensions[k]) = p.dimensions[k].n * UnitSize(p.dimensions[k].unit)
        BY DEF Bytes
      <4>2. \A n \in Nat : n * 1 = n
        OBVIOUS
      <4> QED
        BY <3>1, <3>2, <4>1, <4>2, Zenon
    <3> HIDE DEF R
    <3> QED
      BY <2>1, <2>3, <3>1, <3>3 DEF dimensions_differ
  <2> QED
    BY <2>2, <2>3
<1>5. ASSUME NEW k \in Comparable(e), k \notin DOMAIN p.dimensions
      PROVE  i["Resources"][k] # 0 <=> R(p, k) # R(o, k)
  BY <1>1, <1>2, <1>5
<1> HIDE DEF R, i
<1>6. compare_dimensions(e, p, i) <=> \E k \in Comparable(e) : R(p, k) # R(o, k)
  BY <1>4, <1>5 DEF compare_dimensions
<1>7. [k \in Dimensions |-> R(p, k)] # [k \in Dimensions |-> R(o, k)]
        <=> \E k \in Dimensions : R(p, k) # R(o, k)
  OBVIOUS
<1> QED
  BY <1>1, <1>2, <1>3, <1>6, <1>7 DEF Other, i

\* Names of ulimits: a name that Podman drops is dropped under its prefix too.
LEMMA UlimitsNormal ==
  ASSUME NEW p, Fits("podman", p)
  PROVE  LET N == NormalUlimits(DropDefaults(p.ulimits))
         IN  DropDefaults(NormalUlimits(p.ulimits)) = N /\ NormalUlimits(DropDefaults(N)) = N
<1> DEFINE U == p.ulimits
           T == [name : [stem : STRING, prefix : BOOLEAN], soft : Int, hard : Int]
           f(u) == [u EXCEPT !.name = Prefixed(@)]
           D == DropDefaults(U)
           N == NormalUlimits(D)
<1>1. U \subseteq T
  BY DEF Fits, RequestOK
<1>2. \A u \in U : u.name \in PodmanDefaults \/ Prefixed(u.name) \notin PodmanDefaults
  BY DEF Fits, Supported
<1>3. ASSUME NEW u \in T
      PROVE  f(u) \in T /\ f(u).name = Prefixed(u.name) /\ f(f(u)) = f(u)
  <2>1. u.name \in [stem : STRING, prefix : BOOLEAN]
    OBVIOUS
  <2>2. Prefixed(u.name) \in [stem : STRING, prefix : BOOLEAN]
        /\ Prefixed(Prefixed(u.name)) = Prefixed(u.name)
    BY <2>1 DEF Prefixed
  <2>3. f(u) \in T /\ f(u).name = Prefixed(u.name)
    BY <2>2
  <2>4. f(f(u)) = f(u)
    BY <2>2, <2>3
  <2> QED
    BY <2>3, <2>4
<1>4. ASSUME NEW u \in U, u.name \in PodmanDefaults PROVE Prefixed(u.name) \in PodmanDefaults
  <2>1. PICK s \in {"NOFILE", "NPROC"} : u.name = [stem |-> s, prefix |-> TRUE]
    BY <1>4 DEF PodmanDefaults
  <2>2. Prefixed(u.name) = u.name
    BY <2>1 DEF Prefixed
  <2> QED
    BY <1>4, <2>2
<1>5. \A S : NormalUlimits(S) = {f(u) : u \in S} /\ DropDefaults(S) = {u \in S : u.name \notin PodmanDefaults}
  BY DEF NormalUlimits, DropDefaults
<1> HIDE DEF f, T, U
<1>6. DropDefaults(NormalUlimits(U)) = N
  <2>1. \A u \in U : f(u).name \notin PodmanDefaults <=> u.name \notin PodmanDefaults
    BY <1>1, <1>2, <1>3, <1>4
  <2> QED
    BY <1>5, <2>1
<1>7. \A w \in N : w.name \notin PodmanDefaults /\ f(w) = w
  BY <1>1, <1>2, <1>3, <1>5
<1>8. NormalUlimits(DropDefaults(N)) = N
  <2>1. DropDefaults(N) = N
    BY <1>5, <1>7
  <2>2. NormalUlimits(N) = N
    <3> HIDE DEF N
    <3> QED
      BY <1>5, <1>7
  <2> QED
    BY <2>1, <2>2
<1> QED
  BY <1>6, <1>8 DEF U

\* Ulimits.
LEMMA UlimitsExact ==
  ASSUME NEW e \in Engines, NEW p, NEW id, NEW o, Fits(e, p), Fits(e, o)
  PROVE  compare_ulimits(e, p, Inspect(e, o, id)) <=> Other(e, p, o, id, "Ulimits")
<1>1. /\ Inspect(e, o, id)["Ulimits"] = Own(e, o)["Ulimits"]
      /\ Inspect(e, p, id)["Ulimits"] = Own(e, p)["Ulimits"]
  BY Reported
<1>2. CASE e = "docker"
  BY <1>1, <1>2 DEF Own, DockerOptions, compare_ulimits, Other
<1>3. CASE e = "podman"
  <2>1. /\ Own(e, o)["Ulimits"] = NormalUlimits(DropDefaults(o.ulimits))
        /\ Own(e, p)["Ulimits"] = NormalUlimits(DropDefaults(p.ulimits))
    BY <1>3 DEF Own, PodmanOptions
  <2>2. /\ DropDefaults(NormalUlimits(p.ulimits)) = NormalUlimits(DropDefaults(p.ulimits))
        /\ NormalUlimits(DropDefaults(NormalUlimits(DropDefaults(o.ulimits))))
             = NormalUlimits(DropDefaults(o.ulimits))
    BY <1>3, UlimitsNormal
  <2> QED
    BY <1>1, <1>3, <2>1, <2>2 DEF compare_ulimits, podman_ulimits, Other
<1> QED
  BY <1>2, <1>3, EnginesAssumption

\* All options together, of a running container.
LEMMA ComparisonExact ==
  ASSUME NEW e \in Engines, NEW p, NEW id, id # None, NEW o, Fits(e, p), Fits(e, o)
  PROVE  check_container_differs(e, p, Inspect(e, o, id), id, "running")
           <=> Drift(e, p, o, id) \/ p.state # "running"
<1> DEFINE i == Inspect(e, o, id)
           D(a) == Other(e, p, o, id, a)
           secured == "host" \notin {p.ipc_mode, p.pid_mode} /\ ~p.privileged
           Free == {"CgroupnsMode", "Env", "ImageName"}
                     \cup (IF p.ipc_mode = None THEN {"IpcMode"} ELSE {})
                     \cup (IF p.command = None THEN {"Command"} ELSE {})
                     \cup (IF "host" \in {p.ipc_mode, p.pid_mode} \/ p.privileged
                           THEN {"SecurityOpt"} ELSE {})
           env == \E k \in DOMAIN p.environment :
                    \/ k \notin DOMAIN Inspect(e, o, id).Env
                    \/ Inspect(e, p, id).Env[k] # Inspect(e, o, id).Env[k]
           cgroup == /\ p.cgroupns_mode # None
                     /\ Cgroupns(Inspect(e, p, id)) # Cgroupns(Inspect(e, o, id))
           image == p.image # o.image /\ ~(e = "podman" /\ p.image.base = o.image.base)
           All == {"Image", "ImageName", "IpcMode", "Labels", "Privileged", "Volumes",
                   "VolumesFrom", "Env", "Resources", "Command", "Healthcheck", "CapAdd",
                   "SecurityOpt", "PidMode", "CgroupnsMode", "Tmpfs", "Binds", "Ulimits"}
           some == \E a \in All \ Free : D(a)
<1>1. Drift(e, p, o, id) <=> some \/ env \/ cgroup \/ image
  <2>1. DOMAIN Inspect(e, p, id) = All
    BY Reported
  <2> QED
    BY <2>1 DEF Drift, Other
<1>2. some <=> \/ D("Image") \/ D("Labels") \/ D("Privileged") \/ D("Volumes") \/ D("VolumesFrom")
               \/ D("Resources") \/ D("Healthcheck") \/ D("CapAdd") \/ D("PidMode") \/ D("Tmpfs")
               \/ D("Binds") \/ D("Ulimits")
               \/ p.ipc_mode # None /\ D("IpcMode")
               \/ p.command # None /\ D("Command")
               \/ secured /\ D("SecurityOpt")
  <2> HIDE DEF D
  <2>1. \A a \in {"Image", "Labels", "Privileged", "Volumes", "VolumesFrom", "Resources",
                  "Healthcheck", "CapAdd", "PidMode", "Tmpfs", "Binds", "Ulimits"} :
          a \in All \ Free
    OBVIOUS
  <2>2. /\ "IpcMode" \in All \ Free <=> p.ipc_mode # None
        /\ "Command" \in All \ Free <=> p.command # None
        /\ "SecurityOpt" \in All \ Free <=> secured
    OBVIOUS
  <2>3. \A a \in All \ Free :
          a \in {"Image", "Labels", "Privileged", "Volumes", "VolumesFrom", "Resources",
                 "Healthcheck", "CapAdd", "PidMode", "Tmpfs", "Binds", "Ulimits",
                 "IpcMode", "Command", "SecurityOpt"}
    OBVIOUS
  <2> HIDE DEF All, Free, secured
  <2> QED
    BY <2>1, <2>2, <2>3
<1>3. /\ compare_security_opt(p, i) <=> secured /\ D("SecurityOpt")
      /\ compare_image(e, p, i, id) <=> image
      /\ compare_ipc_mode(p, i) <=> p.ipc_mode # None /\ D("IpcMode")
      /\ compare_command(p, i) <=> p.command # None /\ D("Command")
      /\ compare_labels(p, i) <=> D("Labels")
      /\ compare_pid_mode(e, p, i) <=> D("PidMode")
  BY SecurityExact, ImageExact, GivenExact, LabelsExact, PidExact
<1>4. /\ compare_cgroupns_mode(p, i) <=> cgroup
      /\ compare_tmpfs(p, i) <=> D("Tmpfs")
      /\ compare_volumes(e, p, i) <=> D("Volumes") \/ D("Binds")
      /\ compare_environment(p, i) <=> env
      /\ compare_dimensions(e, p, i) <=> D("Resources")
      /\ compare_ulimits(e, p, i) <=> D("Ulimits")
  BY CgroupnsExact, TmpfsExact, VolumesExact, EnvironmentExact, DimensionsExact, UlimitsExact
<1>5. /\ p.privileged # i.Privileged <=> D("Privileged")
      /\ p.volumes_from # i.VolumesFrom <=> D("VolumesFrom")
      /\ compare_healthcheck(p, i) <=> D("Healthcheck")
      /\ ~D("Image")
  BY PlainExact
<1>6. compare_cap_add(e, p, i) \/ p.privileged # i.Privileged
        <=> D("CapAdd") \/ D("Privileged")
  <2>1. i["Privileged"] = o.privileged
    <3>1. i["Privileged"] = Common(o, id)["Privileged"]
      BY Reported
    <3> QED
      BY <3>1 DEF Common, CommonOptions
  <2>2. CASE p.privileged = o.privileged
    BY <1>5, <2>2, CapsExact
  <2>3. CASE p.privileged # o.privileged
    BY <1>5, <2>1, <2>3
  <2> QED
    BY <2>2, <2>3
<1>7. compare_container_state(p, "running") <=> p.state # "running"
  BY DEF compare_container_state
<1>8. check_container_differs(e, p, i, id, "running")
        <=> \/ compare_cap_add(e, p, i) \/ compare_security_opt(p, i) \/ compare_image(e, p, i, id)
            \/ compare_ipc_mode(p, i) \/ compare_labels(p, i) \/ p.privileged # i.Privileged
            \/ compare_pid_mode(e, p, i) \/ compare_cgroupns_mode(p, i) \/ compare_tmpfs(p, i)
            \/ compare_volumes(e, p, i) \/ p.volumes_from # i.VolumesFrom
            \/ compare_environment(p, i) \/ compare_container_state(p, "running")
            \/ compare_dimensions(e, p, i) \/ compare_ulimits(e, p, i) \/ compare_command(p, i)
            \/ compare_healthcheck(p, i)
  BY DEF check_container_differs
<1> HIDE DEF i, D, secured, env, cgroup, image, some
<1>9. check_container_differs(e, p, i, id, "running") <=> Drift(e, p, o, id) \/ p.state # "running"
  BY <1>1, <1>2, <1>3, <1>4, <1>5, <1>6, <1>7, <1>8
<1> QED
  BY <1>9 DEF i
\* A container does not differ from the request that it was created from.
LEMMA OwnRequestFits ==
  ASSUME NEW e \in Engines, NEW p, NEW id, id # None, Fits(e, p), p.state = "running"
  PROVE  ~check_container_differs(e, p, Inspect(e, p, id), id, "running")
<1>1. check_container_differs(e, p, Inspect(e, p, id), id, "running")
        <=> Drift(e, p, p, id) \/ p.state # "running"
  BY ComparisonExact
<1>2. ~Drift(e, p, p, id)
  <2>1. Inspect(e, p, id)["Env"] = Common(p, id)["Env"]
    BY Reported
  <2>2. DOMAIN Inspect(e, p, id).Env = DOMAIN ImageEnv \cup DOMAIN format_env(p)
    BY <2>1 DEF Common, CommonOptions, Update
  <2>3. DOMAIN p.environment \subseteq DOMAIN Inspect(e, p, id).Env
    BY <2>2 DEF format_env
  <2> QED
    BY <2>3 DEF Drift
<1> QED
  BY <1>1, <1>2

\* A variable that both requests set is compared.
LEMMA VariableKept ==
  ASSUME NEW e, NEW p, NEW o, NEW id, NEW k \in DOMAIN p.environment, k \in DOMAIN o.environment,
         k # "KOLLA_SERVICE_NAME", o.environment[k] # None,
         ~compare_environment(p, Inspect(e, o, id))
  PROVE  o.environment[k] = p.environment[k]
<1>1. Inspect(e, o, id)["Env"] = Common(o, id)["Env"]
  BY Reported
<1>2. Inspect(e, o, id).Env[k] = format_env(o)[k]
  BY <1>1 DEF Common, CommonOptions, Update, format_env
<1>3. format_env(o)[k] = o.environment[k]
  BY DEF format_env
<1> QED
  BY <1>2, <1>3 DEF compare_environment
==============================================================================
