---------------------------- MODULE PowerOpsInputs ----------------------------
(***************************************************************************)
(* tools/powerops: what `validate` accepts, against what the role's Ironic *)
(* module later accepts, and the commands `build-images` and               *)
(* `publish-images`, which stop at the first command that fails.           *)
(*                                                                         *)
(* A text with white space around it is marked `padded`, a MAC with upper  *)
(* case letters `upper`.                                                   *)
(***************************************************************************)
EXTENDS Naturals, Sequences, FiniteSets

CONSTANTS MaxEdits       \* bound on the changes of the plugins' sources

ASSUME MaxEditsAssumption == MaxEdits \in Nat

----------------------------------------------------------------------------
(* validate_config and normalize_spec *)

Fields(driver) == CASE driver = "redfish" -> {"address", "system_id", "username", "password"}
                    [] driver = "ipmi" -> {"address", "username", "password"}
                    [] OTHER -> {}

Lower(text) == IF text = "REDFISH" THEN "redfish" ELSE text

PortKeyRaw(m) == m

\* The MAC under which validate_config knows a port.
PortKey(m) == [m EXCEPT !.upper = FALSE]

\* The name that validate_config takes for a node: it is not stripped.
NameOf(node) == IF node.name.text = "" /\ ~node.name.padded
                THEN [text |-> "<unnamed>", padded |-> FALSE] ELSE node.name

System(node) == [address |-> "address" \in node.info, id |-> node.bmc]

\* The errors of one node, given the nodes before it.
NodeErrors(node, before, computes) ==
    {e \in {"duplicate node name", "nova_hostname absent", "network_interface", "provision state",
            "driver", "driver_info", "duplicate Redfish system", "invalid MAC", "duplicate MAC"} :
        CASE e = "duplicate node name" -> \E b \in before : NameOf(b) = NameOf(node)
          [] e = "nova_hostname absent" -> node.nova_hostname.padded \/ node.nova_hostname.text \notin computes
          [] e = "network_interface" -> node.network_interface # "noop"
          [] e = "provision state" -> node.desired_provision_state # "manageable"
          [] e = "driver" -> Fields(node.driver) = {}
          [] e = "driver_info" -> ~(Fields(node.driver) \subseteq node.info)
          [] e = "duplicate Redfish system" ->
                node.driver = "redfish" /\ \E b \in before : b.driver = "redfish" /\ System(b) = System(node)
          [] e = "invalid MAC" -> \E i \in DOMAIN node.ports : ~node.ports[i].valid
          [] e = "duplicate MAC" ->
                \/ \E i, j \in DOMAIN node.ports : i # j /\ PortKey(node.ports[i]) = PortKey(node.ports[j])
                \/ \E b \in before, i \in DOMAIN node.ports : \E j \in DOMAIN b.ports :
                     PortKey(node.ports[i]) = PortKey(b.ports[j])}

\* Types of the inventory and the node list.  No host of an inventory has the name "".
Text == [text : STRING, padded : BOOLEAN]
NodeType == [name : Text, nova_hostname : Text, driver : STRING, bmc : STRING,
             info : SUBSET STRING, network_interface : STRING,
             desired_provision_state : STRING,
             ports : Seq([addr : STRING, upper : BOOLEAN, valid : BOOLEAN])]

DataOK(data) == data.nodes \in Seq(NodeType) /\ "" \notin data.computes

\* computes is the set of hosts under [compute]; the section may be missing.
validate_config(data) ==
    (IF data.services THEN {} ELSE {"service must be yes"})
      \cup (IF data.section THEN {} ELSE {"missing [compute]"})
      \cup UNION {NodeErrors(data.nodes[i], {data.nodes[j] : j \in 1..(i - 1)},
                             IF data.section THEN data.computes ELSE {}) : i \in DOMAIN data.nodes}

Refused == [ok |-> FALSE]

\* normalize_spec: names and driver are stripped, MACs are lowered.
normalize_spec(node) ==
    LET macs == [i \in DOMAIN node.ports |-> [node.ports[i] EXCEPT !.upper = FALSE]]
    IN  IF \/ node.name.text = "" \/ node.nova_hostname.text = ""
           \/ Fields(Lower(node.driver)) = {}
           \/ node.network_interface # "noop" \/ node.desired_provision_state # "manageable"
           \/ ~(Fields(Lower(node.driver)) \subseteq node.info)
           \/ \E i \in DOMAIN macs : ~macs[i].valid \/ \E j \in 1..(i - 1) : macs[i] = macs[j]
        THEN Refused
        ELSE [ok |-> TRUE, name |-> node.name.text, host |-> node.nova_hostname.text,
              driver |-> Lower(node.driver), ports |-> macs]

----------------------------------------------------------------------------
(* build_images and publish_images *)

MistralServices == {"mistral-api", "mistral-engine", "mistral-executor"}
IMAGE_SERVICES == <<"mistral-api", "mistral-engine", "mistral-executor", "masakari-engine">>
Services == MistralServices \cup {"masakari-engine"}
Kinds == {"mistral", "masakari"}
KindOf(s) == IF s \in MistralServices THEN "mistral" ELSE "masakari"

NoImage == 0

VARIABLES source,     \* version and edit of each plugin's source
          dist,       \* wheels in each build context: version and edit
          local,      \* edit that the derived image of each service carries
          registry,   \* the same in the registry
          hosts,      \* registry host of each derived image in globals.yml, "" when missing
          wheel,      \* history: edit of the wheels of the last build
          built,      \* history: how the last build ended
          pushed,     \* history: services that the last command has pushed
          confirmed,  \* the registry that the operator has confirmed
          steps, result  \* what the command has left to do; how the last one ended

imageVars == <<source, dist, local, registry, hosts, wheel, built, pushed, confirmed, steps, result>>

ImageInit ==
    /\ source = [k \in Kinds |-> [version |-> 1, edit |-> 1]]
    /\ dist = [k \in Kinds |-> {}] /\ local = [s \in Services |-> NoImage]
    /\ registry = [s \in Services |-> NoImage]
    /\ hosts \in {[s \in Services |-> "r1"]}
                   \cup {[[s \in Services |-> "r1"] EXCEPT !["mistral-engine"] = h] : h \in {"r2", "bare", ""}}
    /\ wheel = [k \in Kinds |-> NoImage] /\ built = "none" /\ pushed = {} /\ confirmed = "r1"
    /\ steps = <<>> /\ result = "none"

Idle == steps = <<>>
ByService(what) == [i \in 1..Len(IMAGE_SERVICES) |-> <<what, IMAGE_SERVICES[i]>>]

BuildSteps == <<<<"wheel", "mistral">>, <<"wheel", "masakari">>>> \o ByService("image")
PublishSteps == ByService("inspect") \o ByService("push")

\* _image_mappings: every service has a base and a derived image.
image_mappings == \A s \in Services : hosts[s] # ""

build_images ==
    /\ Idle /\ pushed' = {}
    /\ IF image_mappings THEN steps' = BuildSteps /\ result' = "none" /\ built' = "running"
       ELSE steps' = <<>> /\ result' = "failed" /\ built' = built
    /\ UNCHANGED <<source, dist, local, registry, hosts, wheel, confirmed>>

\* Each image needs a registry host, and all of them the confirmed one.
publish_images(confirm) ==
    /\ Idle /\ confirmed' = confirm /\ pushed' = {}
    /\ IF image_mappings /\ \A s \in Services : hosts[s] = confirm
       THEN steps' = PublishSteps /\ result' = "none"
       ELSE steps' = <<>> /\ result' = "failed"
    /\ UNCHANGED <<source, dist, local, registry, hosts, wheel, built>>

At(what) == ~Idle /\ Head(steps)[1] = what

Proceed(next) ==
    /\ steps' = Tail(steps)
    /\ result' = IF Tail(steps) = <<>> THEN "ok" ELSE result
    /\ built' = IF Tail(steps) = <<>> /\ next = "build" THEN "ok" ELSE built

CopyIfMissing(context, w) == IF \E v \in context : v.version = w.version THEN context ELSE context \cup {w}

\* A wheel copied into a context replaces one of the same version.
CopyWheel(context, w) == {v \in context : v.version # w.version} \cup {w}

\* The wheel is built, checked for its entry point and copied into the context.
BuildWheel ==
    /\ At("wheel") /\ Proceed("build")
    /\ LET k == Head(steps)[2] IN
         /\ dist' = [dist EXCEPT ![k] = CopyWheel(@, source[k])]
         /\ wheel' = [wheel EXCEPT ![k] = source[k].edit]
    /\ UNCHANGED <<source, local, registry, hosts, pushed, confirmed>>

\* The Containerfile installs every wheel of the context: two versions conflict.
BuildImage ==
    /\ At("image") /\ Proceed("build")
    /\ LET s == Head(steps)[2] IN
         /\ Cardinality(dist[KindOf(s)]) = 1
         /\ local' = [local EXCEPT ![s] = (CHOOSE w \in dist[KindOf(s)] : TRUE).edit]
    /\ UNCHANGED <<source, dist, registry, hosts, wheel, pushed, confirmed>>

InspectImage ==
    /\ At("inspect") /\ Proceed("publish") /\ local[Head(steps)[2]] # NoImage
    /\ UNCHANGED <<source, dist, local, registry, hosts, wheel, pushed, confirmed>>

PushImage ==
    /\ At("push") /\ Proceed("publish") /\ local[Head(steps)[2]] # NoImage
    /\ registry' = [registry EXCEPT ![Head(steps)[2]] = local[Head(steps)[2]]]
    /\ pushed' = pushed \cup {Head(steps)[2]}
    /\ UNCHANGED <<source, dist, local, hosts, wheel, confirmed>>

\* check=True: any command may fail, and ends the tool.
CommandFails ==
    /\ ~Idle /\ steps' = <<>> /\ result' = "failed"
    /\ built' = IF Head(steps)[1] \in {"wheel", "image"} THEN "failed" ELSE built
    /\ UNCHANGED <<source, dist, local, registry, hosts, wheel, pushed, confirmed>>

\* Developers change a plugin, with or without a new version, and the operator may
\* prune images; the context's old wheels are removed by hand only.
EditSource(k, bump) ==
    /\ source[k].edit < 1 + MaxEdits
    /\ source' = [source EXCEPT ![k] = [version |-> IF bump THEN @.version + 1 ELSE @.version,
                                        edit |-> @.edit + 1]]
    /\ UNCHANGED <<dist, local, registry, hosts, wheel, built, pushed, confirmed, steps, result>>

Prune(s) ==
    /\ Idle /\ local[s] # NoImage /\ local' = [local EXCEPT ![s] = NoImage]
    /\ UNCHANGED <<source, dist, registry, hosts, wheel, built, pushed, confirmed, steps, result>>

CleanContext(k) ==
    /\ Idle /\ dist[k] # {} /\ dist' = [dist EXCEPT ![k] = {}]
    /\ UNCHANGED <<source, local, registry, hosts, wheel, built, pushed, confirmed, steps, result>>

ImageNext ==
    \/ build_images \/ \E confirm \in {"r1", "r2"} : publish_images(confirm)
    \/ BuildWheel \/ BuildImage \/ InspectImage \/ PushImage \/ CommandFails
    \/ \E k \in Kinds : CleanContext(k) \/ \E bump \in BOOLEAN : EditSource(k, bump)
    \/ \E s \in Services : Prune(s)

ImageSpec == ImageInit /\ [][ImageNext]_imageVars

\* What tools/powerops publishes after a build that returned is what that build
\* made: when a publish returns, the images of each plugin carry the wheel that the
\* build checked, whatever was edited meanwhile; and no publish, complete or not,
\* pushes anything unless every image exists and is of the confirmed registry.
PublishedIsBuilt ==
    /\ result = "ok" /\ pushed = Services /\ built = "ok" =>
          \A s \in Services : registry[s] = wheel[KindOf(s)]
    /\ pushed # {} => \A s \in Services : hosts[s] = confirmed
    /\ pushed # {} /\ ~Idle => \A s \in Services : local[s] # NoImage
=============================================================================
