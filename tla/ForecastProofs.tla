---------------------------- MODULE ForecastProofs ----------------------------
(***************************************************************************)
(* A check run of the powerops role announces what the next run changes.   *)
(***************************************************************************)
EXTENDS RoleProofs

-----------------------------------------------------------------------------
(***************************************************************************)
(* What a run has to change, read off the records of the services.         *)
(***************************************************************************)

NeedsNode(n) ==
  cloud.node[n] # "declared" \/ n \in Masked \/ cloud.provision[n] = "enroll"
NeedsPort(m) == cloud.owner[m] = NoOne \/ cloud.network[m] = "drifted"
NeedsHost(n) == ~HostReady(n)
NeedsSegment == cloud.segment # "declared"
NeedsWorkbook == cloud.workbook # "declared"
Declared(m) == \E n \in Nodes : m \in PortsOf[n]

\* The loop has not come to node n; it is at node n.
Left(n) == run.stage \in NodeLoop /\ n \in run.todo
At(n) == run.stage \in NodeStages /\ n = run.at

\* What a check run has announced so far.
NodeSaid(n) ==
  /\ ~Left(n)
  /\ At(n) => \/ run.stage = "manage" /\ (n \in Masked \/ cloud.node[n] # "declared")
              \/ run.stage \in {"ports", "port"} /\ NeedsNode(n)
  /\ ~At(n) => NeedsNode(n)

PortDealt(n, m) ==
  /\ m \in PortsOf[n] /\ ~Left(n)
  /\ At(n) => run.stage = "port" /\ m \notin run.ports

PortSaid(m) == NeedsPort(m) /\ \E n \in Nodes : PortDealt(n, m)

HostSaid(n) ==
  /\ NeedsHost(n)
  /\ Past(AfterHosts) \/ (run.stage = "host" /\ n \notin run.todo)

NodesSaid == \A n \in Nodes : <<n, "node">> \in run.changed <=> NodeSaid(n)
PortsSaid == \A m \in Macs : <<m, "port">> \in run.changed <=> PortSaid(m)
HostsSaid == \A n \in Nodes : <<n, "host">> \in run.changed <=> HostSaid(n)
SegmentSaid ==
  <<"segment", "segment">> \in run.changed <=> NeedsSegment /\ Past(AfterSegment)
WorkbookSaid ==
  <<"workbook", "workbook">> \in run.changed <=> NeedsWorkbook /\ Past({"validate"})

Said == NodesSaid /\ PortsSaid /\ HostsSaid /\ SegmentSaid /\ WorkbookSaid

\* Ironic is not verifying a node that the check run has passed.
Settled(n) == ~Left(n) /\ (At(n) => run.stage \in {"manage", "ports", "port"})

\* What a check run has read of the node at hand, and later, still holds.
CheckNode ==
  LET n == run.at IN
  /\ run.stage \notin {"create", "verify"}
  /\ run.stage \in {"preflight", "update", "manage"} =>
       /\ seen.node = cloud.node[n]
       /\ seen.provision \in {"enroll", "manageable"}
            => cloud.provision[n] = seen.provision
  /\ run.stage \in {"update", "manage"} => seen.node # "absent"
  /\ run.stage = "manage" => seen.provision \in {"enroll", "manageable"}
  /\ run.stage = "port" =>
       \A m \in run.ports :
         seen.owner[m] = cloud.owner[m] /\ seen.network[m] = cloud.network[m]

CheckSettled == \A n \in Nodes : Settled(n) => cloud.provision[n] # "verifying"

CheckLater ==
  /\ run.stage = "putSegment" => seen.segment = cloud.segment
  /\ run.stage = "host" =>
       \A n \in run.todo : /\ seen.host[n] = cloud.host[n]
                           /\ seen.maintenance[n] = cloud.maintenance[n]
  /\ run.stage = "putWorkbook" => seen.workbook = cloud.workbook

CheckInv ==
  quiet /\ run.check /\ run.result # "failed" =>
    CheckNode /\ CheckSettled /\ CheckLater /\ Said

\* The run that follows a check run: what was announced has been changed, or is
\* still to be changed.
NodesTold ==
  \A n \in Nodes : <<n, "node">> \in forecast <=>
                     <<n, "node">> \in run.changed \/ NeedsNode(n)
PortsTold ==
  \A m \in Macs : <<m, "port">> \in forecast <=>
                    <<m, "port">> \in run.changed \/ (NeedsPort(m) /\ Declared(m))
HostsTold ==
  \A n \in Nodes : <<n, "host">> \in forecast <=>
                     <<n, "host">> \in run.changed \/ NeedsHost(n)
SegmentTold ==
  <<"segment", "segment">> \in forecast <=>
    <<"segment", "segment">> \in run.changed \/ NeedsSegment
WorkbookTold ==
  <<"workbook", "workbook">> \in forecast <=>
    <<"workbook", "workbook">> \in run.changed \/ NeedsWorkbook

Told == NodesTold /\ PortsTold /\ HostsTold /\ SegmentTold /\ WorkbookTold

\* A masked password is written in every run, and Ironic verifies only nodes that
\* this run has handed over to it.
Passed(n) ==
  /\ ~Left(n)
  /\ At(n) => run.stage \in {"manage", "verify", "ports", "port"}
MaskedTold ==
  /\ \A n \in Masked : Passed(n) => <<n, "node">> \in run.changed
  /\ \A n \in Nodes : cloud.provision[n] = "verifying" =>
                        <<n, "node">> \in run.changed

RealInv ==
  forecast # NoForecast /\ ~run.check /\ run.result # "failed" =>
    Told /\ MaskedTold

\* Hosts belong to a segment, and a segment is never deleted.
SegmentInv ==
  cloud.segment = "absent" =>
    /\ \A n \in Nodes : cloud.host[n] = "absent"
    /\ run.stage = "putSegment" => seen.segment = "absent"
    /\ ~run.check => run.stage \notin AfterSegment

\* A forecast stands as long as nobody intervenes, and is the changes of the run
\* that has just ended, whichever kind of run it was.  A run leaves the loop over
\* the nodes only when none has failed.
StandsInv ==
  /\ run.stage \in NodeStages => run.at \notin run.todo
  /\ run.stage = "port" => run.ports \subseteq PortsOf[run.at]
  /\ run.stage \in AfterNodes => run.result # "failed"
  /\ forecast # NoForecast => quiet /\ forecast \subseteq Items
  /\ forecast # NoForecast /\ run.stage = "idle" =>
       run.result = "ok" /\ forecast = run.changed

ForecastInv == StandsInv /\ SegmentInv /\ CheckInv /\ RealInv

-----------------------------------------------------------------------------
(***************************************************************************)
(* Items of the report.                                                    *)
(***************************************************************************)

\* The items of two reports agree, kind by kind.
SameNodes(S, T) == \A n \in Nodes : <<n, "node">> \in T <=> <<n, "node">> \in S
SamePorts(S, T) == \A m \in Macs : <<m, "port">> \in T <=> <<m, "port">> \in S
SameHosts(S, T) == \A n \in Nodes : <<n, "host">> \in T <=> <<n, "host">> \in S
SameSegment(S, T) ==
  <<"segment", "segment">> \in T <=> <<"segment", "segment">> \in S
SameWorkbook(S, T) ==
  <<"workbook", "workbook">> \in T <=> <<"workbook", "workbook">> \in S

\* A node that is reported changes the report of this node only.
LEMMA AddNode ==
  ASSUME NEW S, NEW x
  PROVE  LET T == S \cup {<<x, "node">>} IN
         /\ \A n \in Nodes : <<n, "node">> \in T <=> <<n, "node">> \in S \/ n = x
         /\ SamePorts(S, T) /\ SameHosts(S, T) /\ SameSegment(S, T)
         /\ SameWorkbook(S, T)
BY DEF SamePorts, SameHosts, SameSegment, SameWorkbook

\* So does a port.
LEMMA AddPort ==
  ASSUME NEW S, NEW x
  PROVE  LET T == S \cup {<<x, "port">>} IN
         /\ \A m \in Macs : <<m, "port">> \in T <=> <<m, "port">> \in S \/ m = x
         /\ SameNodes(S, T) /\ SameHosts(S, T) /\ SameSegment(S, T)
         /\ SameWorkbook(S, T)
BY DEF SameNodes, SameHosts, SameSegment, SameWorkbook

\* So does a host.
LEMMA AddHost ==
  ASSUME NEW S, NEW x
  PROVE  LET T == S \cup {<<x, "host">>} IN
         /\ \A n \in Nodes : <<n, "host">> \in T <=> <<n, "host">> \in S \/ n = x
         /\ SameNodes(S, T) /\ SamePorts(S, T) /\ SameSegment(S, T)
         /\ SameWorkbook(S, T)
BY DEF SameNodes, SamePorts, SameSegment, SameWorkbook

\* So do the segment and the workbook.
LEMMA AddOthers ==
  ASSUME NEW S
  PROVE  /\ LET T == S \cup {<<"segment", "segment">>} IN
              /\ <<"segment", "segment">> \in T
              /\ SameNodes(S, T) /\ SamePorts(S, T) /\ SameHosts(S, T)
              /\ SameWorkbook(S, T)
         /\ LET T == S \cup {<<"workbook", "workbook">>} IN
              /\ <<"workbook", "workbook">> \in T
              /\ SameNodes(S, T) /\ SamePorts(S, T) /\ SameHosts(S, T)
              /\ SameSegment(S, T)
BY DEF SameNodes, SamePorts, SameHosts, SameSegment, SameWorkbook

\* A node that is to be created is reported with its ports.
LEMMA AddAnnounced ==
  ASSUME NEW S, NEW x
  PROVE  LET T == S \cup Announced(x) IN
         /\ \A n \in Nodes : <<n, "node">> \in T <=> <<n, "node">> \in S \/ n = x
         /\ \A m \in Macs : <<m, "port">> \in T <=>
                              <<m, "port">> \in S \/ m \in PortsOf[x]
         /\ SameHosts(S, T) /\ SameSegment(S, T) /\ SameWorkbook(S, T)
BY DEF Announced, SameHosts, SameSegment, SameWorkbook

\* A segment that is to be created is reported with all hosts.
LEMMA AddSegmentAndHosts ==
  ASSUME NEW S
  PROVE  LET T == S \cup {<<"segment", "segment">>} \cup (Nodes \X {"host"}) IN
         /\ \A n \in Nodes : <<n, "host">> \in T
         /\ <<"segment", "segment">> \in T
         /\ SameNodes(S, T) /\ SamePorts(S, T) /\ SameWorkbook(S, T)
BY DEF SameNodes, SamePorts, SameWorkbook

\* Two reports with the same items are the same.
LEMMA ItemsEqual ==
  ASSUME NEW S \in SUBSET Items, NEW T \in SUBSET Items,
         SameNodes(S, T), SamePorts(S, T), SameHosts(S, T), SameSegment(S, T),
         SameWorkbook(S, T)
  PROVE  T = S
<1>1. ASSUME NEW i \in Items PROVE i \in T <=> i \in S
  <2>1. CASE \E n \in Nodes : i = <<n, "node">>
    BY <2>1 DEF SameNodes
  <2>2. CASE \E n \in Nodes : i = <<n, "host">>
    BY <2>2 DEF SameHosts
  <2>3. CASE \E m \in Macs : i = <<m, "port">>
    BY <2>3 DEF SamePorts
  <2>4. CASE i = <<"segment", "segment">> \/ i = <<"workbook", "workbook">>
    BY <2>4 DEF SameSegment, SameWorkbook
  <2> QED
    BY <2>1, <2>2, <2>3, <2>4 DEF Items
<1> QED
  BY <1>1
-----------------------------------------------------------------------------
(***************************************************************************)
(* Check runs.                                                             *)
(***************************************************************************)

\* The records that a report is about stay as they are.
SameCloud ==
  /\ cloud'.node = cloud.node /\ cloud'.provision = cloud.provision
  /\ cloud'.owner = cloud.owner /\ cloud'.network = cloud.network
  /\ cloud'.segment = cloud.segment /\ cloud'.host = cloud.host
  /\ cloud'.maintenance = cloud.maintenance /\ cloud'.workbook = cloud.workbook

\* Then there is as much to change as before.
LEMMA NeedsKept ==
  ASSUME SameCloud
  PROVE  /\ \A n \in Nodes : NeedsNode(n)' <=> NeedsNode(n)
         /\ \A m \in Macs : NeedsPort(m)' <=> NeedsPort(m)
         /\ \A n \in Nodes : NeedsHost(n)' <=> NeedsHost(n)
         /\ NeedsSegment' <=> NeedsSegment
         /\ NeedsWorkbook' <=> NeedsWorkbook
BY DEF SameCloud, NeedsNode, NeedsPort, NeedsHost, HostReady, NeedsSegment,
       NeedsWorkbook

\* A check run writes nothing.
LEMMA CheckWritesNothing ==
  ASSUME RoleTypeOK, run.check, NodeStep \/ LaterStep
  PROVE  SameCloud
<1>1. cloud \in Clouds
  BY DEF RoleTypeOK
<1>2. CASE cloud' = cloud
  BY <1>2 DEF SameCloud
<1>3. CASE Populated
  BY <1>1, <1>3 DEF Populated, Clouds, SameCloud
<1>4. CASE NodeStep
  BY <1>2, <1>4 DEF NodeStep, ListedNode, Preflighted, CreatedNode, UpdatedNode,
       ManagedNode, AwaitedNode, ListedPorts, DidPort, DoneNode, DoneNodes, Wrote,
       Looked
<1>5. CASE LaterStep
  BY <1>2, <1>3, <1>5 DEF LaterStep, ListedSegment, DidSegment, ListedHosts,
       DidHost, DoneHosts, ListedWorkbook, DidWorkbook, Summarised, Wrote, Looked
<1> QED
  BY <1>4, <1>5

\* While the loop goes on, nothing is said of what comes after it.
LEMMA LoopSaysNoMore ==
  ASSUME run.stage \in NodeLoop, run'.stage \in NodeLoop \cup {"segment"},
         HostsSaid, SegmentSaid, WorkbookSaid,
         SameHosts(run.changed, run'.changed),
         SameSegment(run.changed, run'.changed),
         SameWorkbook(run.changed, run'.changed)
  PROVE  CheckLater' /\ HostsSaid' /\ SegmentSaid' /\ WorkbookSaid'
<1> USE LoopStages DEF Past, AfterHosts, AfterSegment, AfterPopulate
<1>1. CheckLater'
  BY DEF CheckLater
<1>2. HostsSaid'
  BY DEF HostsSaid, HostSaid, SameHosts
<1>3. SegmentSaid'
  BY DEF SegmentSaid, SameSegment
<1>4. WorkbookSaid'
  BY DEF WorkbookSaid, SameWorkbook
<1> QED
  BY <1>1, <1>2, <1>3, <1>4

\* A step on the node at hand says nothing of the other nodes.
LEMMA OtherNodesKept ==
  ASSUME SameCloud, run.stage \in NodeStages, run'.stage \in NodeStages,
         run'.at = run.at, run'.todo = run.todo
  PROVE  \A k \in Nodes : k # run.at =>
           /\ NodeSaid(k)' <=> NodeSaid(k)
           /\ Settled(k)' <=> Settled(k)
           /\ \A m \in Macs : PortDealt(k, m)' <=> PortDealt(k, m)
<1>1. \A k \in Nodes : NeedsNode(k)' <=> NeedsNode(k)
  BY NeedsKept
<1>2. \A k \in Nodes : k # run.at => /\ ~At(k) /\ ~At(k)'
                                     /\ Left(k)' <=> Left(k)
  BY LoopStages DEF At, Left
<1> QED
  BY <1>1, <1>2 DEF NodeSaid, Settled, PortDealt

\* Where the node at hand has not come to its ports, nothing changes for ports.
LEMMA PortsKept ==
  ASSUME SameCloud, PortsSaid, run.stage \in NodeStages \ {"port"},
         run'.stage \in NodeStages, run'.at = run.at, run'.todo = run.todo,
         run'.stage = "port" => run'.ports = PortsOf[run.at],
         SamePorts(run.changed, run'.changed)
  PROVE  PortsSaid'
<1>1. \A m \in Macs : NeedsPort(m)' <=> NeedsPort(m)
  BY NeedsKept
<1>2. \A m \in Macs, k \in Nodes : PortDealt(k, m)' <=> PortDealt(k, m)
  <2> SUFFICES ASSUME NEW m \in Macs, NEW k \in Nodes
               PROVE  PortDealt(k, m)' <=> PortDealt(k, m)
    OBVIOUS
  <2>1. CASE k # run.at
    BY <2>1, OtherNodesKept
  <2>2. CASE k = run.at
    <3>1. ~PortDealt(k, m)
      BY <2>2 DEF PortDealt, At
    <3>2. ~PortDealt(k, m)'
      BY <2>2 DEF PortDealt, At
    <3> QED
      BY <3>1, <3>2
  <2> QED
    BY <2>1, <2>2
<1> QED
  BY <1>1, <1>2 DEF PortsSaid, PortSaid, SamePorts

\* The first steps on a node, in a check run.
LEMMA CheckFirstSteps ==
  ASSUME RoleTypeOK, AtInv, AbsentInv, StandsInv, run.check,
         CheckNode, CheckSettled, Said,
         (\E n \in Nodes : ListedNode(n)) \/ Preflighted
  PROVE  CheckNode' /\ CheckSettled' /\ CheckLater' /\ Said'
<1>1. SameCloud /\ \A n \in Nodes : NeedsNode(n)' <=> NeedsNode(n)
  BY CheckWritesNothing, NeedsKept DEF NodeStep
<1>2. \A m \in Macs : NeedsPort(m)' <=> NeedsPort(m)
  BY <1>1, NeedsKept
<1>3. NodesSaid /\ PortsSaid /\ HostsSaid /\ SegmentSaid /\ WorkbookSaid
  BY DEF Said
<1>4. ASSUME NEW n \in Nodes, ListedNode(n)
      PROVE  CheckNode' /\ CheckSettled' /\ CheckLater' /\ Said'
  <2>1. /\ run.stage = "node" /\ run'.stage = "preflight"
        /\ run'.at = n /\ n \in run.todo /\ run'.todo = run.todo \ {n}
        /\ run'.changed = run.changed
        /\ seen' = [node |-> cloud.node[n], provision |-> cloud.provision[n]]
    BY <1>4 DEF ListedNode, Comes, Looked
  <2>2. /\ run.stage \in NodeLoop \ NodeStages /\ run'.stage \in NodeStages
        /\ run'.stage \in NodeLoop
    BY <2>1, LoopStages DEF NodeStages
  <2>3. CheckNode'
    BY <1>1, <2>1 DEF CheckNode, SameCloud
  <2>4. \A k \in Nodes : k # n => /\ ~At(k) /\ ~At(k)'
                                  /\ Left(k)' <=> Left(k)
    BY <2>1, <2>2 DEF At, Left
  <2>5. Left(n) /\ At(n)' /\ ~Left(n)'
    BY <2>1, <2>2 DEF At, Left
  <2>6. CheckSettled'
    BY <1>1, <2>1, <2>4, <2>5 DEF CheckSettled, Settled, SameCloud
  <2>7. \A k \in Nodes : NodeSaid(k)' <=> NodeSaid(k)
    <3>1. ~NodeSaid(n) /\ ~NodeSaid(n)'
      BY <2>1, <2>5 DEF NodeSaid
    <3>2. \A k \in Nodes : k # n => (NodeSaid(k)' <=> NodeSaid(k))
      BY <1>1, <2>4 DEF NodeSaid
    <3> QED
      BY <3>1, <3>2
  <2>8. \A m \in Macs, k \in Nodes : PortDealt(k, m)' <=> PortDealt(k, m)
    BY <2>1, <2>4, <2>5 DEF PortDealt
  <2>9. NodesSaid'
    BY <1>3, <2>1, <2>7 DEF NodesSaid
  <2>10. PortsSaid'
    BY <1>2, <1>3, <2>1, <2>8 DEF PortsSaid, PortSaid
  <2>11. CheckLater' /\ HostsSaid' /\ SegmentSaid' /\ WorkbookSaid'
    BY <1>3, <2>1, <2>2, LoopSaysNoMore DEF SameHosts, SameSegment, SameWorkbook
  <2> QED
    BY <2>3, <2>6, <2>9, <2>10, <2>11 DEF Said
<1>5. ASSUME run.stage = "preflight" PROVE run.at \in Nodes /\ run.at \notin run.todo
  BY <1>5 DEF AtInv, StandsInv, NodeStages
<1>6. CASE /\ run.stage = "preflight"
           /\ ~PortConflict(run.at, TRUE) /\ seen.node = "absent"
           /\ Comes("node", NoOne, run.todo, run.ports)
           /\ run'.changed = run.changed \cup Announced(run.at)
  <2>0. PICK n \in Nodes : n = run.at /\ n \notin run.todo
    BY <1>5, <1>6
  <2>1. /\ run'.stage = "node" /\ run'.at = NoOne /\ run'.todo = run.todo
        /\ cloud.node[n] = "absent"
    BY <1>6, <2>0 DEF Comes, CheckNode
  <2>2. /\ run.stage \in NodeStages /\ run.stage \in NodeLoop
        /\ run'.stage \in NodeLoop \ NodeStages
    BY <1>6, <2>1, LoopStages DEF NodeStages
  <2>3. CheckNode'
    BY <2>1 DEF CheckNode
  <2>4. \A k \in Nodes : /\ ~At(k)' /\ (At(k) <=> k = n)
                         /\ Left(k)' <=> Left(k)
    BY <1>6, <2>0, <2>1, <2>2 DEF At, Left
  <2>5. ~Left(n)
    BY <2>0 DEF Left
  <2>6. CheckSettled'
    <3>1. cloud.provision[n] # "verifying"
      BY <1>6, <2>0, <2>1 DEF AbsentInv
    <3> QED
      BY <1>1, <2>4, <3>1 DEF CheckSettled, Settled, SameCloud
  <2>7. NeedsNode(n)
    BY <2>1 DEF NeedsNode
  <2>8. \A k \in Nodes : NodeSaid(k)' <=> NodeSaid(k) \/ k = n
    <3>1. NodeSaid(n)'
      BY <1>1, <1>6, <2>0, <2>4, <2>5, <2>7 DEF NodeSaid
    <3>2. \A k \in Nodes : k # n => (NodeSaid(k)' <=> NodeSaid(k))
      BY <1>1, <2>0, <2>4 DEF NodeSaid
    <3> QED
      BY <1>6, <2>0, <3>1, <3>2
  <2>9. NodesSaid'
    <3>1. \A k \in Nodes : <<k, "node">> \in run'.changed <=>
                             <<k, "node">> \in run.changed \/ k = n
      BY <1>6, <2>0 DEF Announced
    <3> QED
      BY <1>3, <2>8, <3>1 DEF NodesSaid
  <2>10. \A m \in PortsOf[n] : NeedsPort(m)
    BY <1>6, <2>0 DEF PortConflict, NeedsPort
  <2>11. ASSUME NEW m \in Macs PROVE PortSaid(m)' <=> PortSaid(m) \/ m \in PortsOf[n]
    <3>1. \A k \in Nodes : k # n => (PortDealt(k, m)' <=> PortDealt(k, m))
      BY <2>0, <2>4 DEF PortDealt
    <3>2. ~PortDealt(n, m)
      BY <1>6, <2>0, <2>4 DEF PortDealt
    <3>3. PortDealt(n, m)' <=> m \in PortsOf[n]
      BY <1>6, <2>0, <2>4, <2>5 DEF PortDealt
    <3> QED
      BY <1>2, <1>6, <2>0, <2>10, <3>1, <3>2, <3>3 DEF PortSaid
  <2>12. PortsSaid'
    BY <1>3, <1>6, <2>0, <2>11, AddAnnounced DEF PortsSaid
  <2>13. CheckLater' /\ HostsSaid' /\ SegmentSaid' /\ WorkbookSaid'
    BY <1>3, <1>6, <2>2, AddAnnounced, LoopSaysNoMore
  <2> QED
    BY <2>3, <2>6, <2>9, <2>12, <2>13 DEF Said
<1>7. CASE /\ run.stage = "preflight" /\ seen.node # "absent"
           /\ Comes("update", run.at, run.todo, run.ports) /\ Looked(seen)
  <2>1. /\ run'.stage = "update" /\ run'.at = run.at /\ run'.todo = run.todo
        /\ run'.changed = run.changed /\ seen' = seen
    BY <1>7 DEF Comes, Looked
  <2>2. /\ run.stage \in NodeStages \ {"port"} /\ run'.stage \in NodeStages
        /\ run.stage \in NodeLoop /\ run'.stage \in NodeLoop
    BY <1>7, <2>1, LoopStages DEF NodeStages
  <2>3. CheckNode'
    BY <1>1, <1>7, <2>1 DEF CheckNode, SameCloud
  <2>4. \A k \in Nodes : /\ NodeSaid(k)' <=> NodeSaid(k)
                         /\ Settled(k)' <=> Settled(k)
    <3>1. At(run.at) /\ At(run.at)'
      BY <1>7, <2>1, <2>2 DEF At
    <3>2. ~NodeSaid(run.at) /\ ~NodeSaid(run.at)'
      BY <1>7, <2>1, <3>1 DEF NodeSaid
    <3>3. ~Settled(run.at) /\ ~Settled(run.at)'
      BY <1>7, <2>1, <3>1 DEF Settled
    <3> QED
      BY <1>1, <1>5, <1>7, <2>1, <2>2, <3>2, <3>3, OtherNodesKept
  <2>5. CheckSettled'
    BY <1>1, <2>4 DEF CheckSettled, SameCloud
  <2>6. NodesSaid'
    BY <1>3, <2>1, <2>4 DEF NodesSaid
  <2>7. PortsSaid'
    BY <1>1, <1>3, <2>1, <2>2, PortsKept DEF SamePorts
  <2>8. CheckLater' /\ HostsSaid' /\ SegmentSaid' /\ WorkbookSaid'
    BY <1>3, <2>1, <2>2, LoopSaysNoMore DEF SameHosts, SameSegment, SameWorkbook
  <2> QED
    BY <2>3, <2>5, <2>6, <2>7, <2>8 DEF Said
<1> QED
  BY <1>4, <1>6, <1>7 DEF Preflighted
\* The steps that bring a node to manageable, in a check run.
LEMMA CheckProvisionSteps ==
  ASSUME RoleTypeOK, AtInv, StandsInv, run.check,
         CheckNode, CheckSettled, Said, UpdatedNode \/ ManagedNode
  PROVE  CheckNode' /\ CheckSettled' /\ CheckLater' /\ Said'
<1>1. SameCloud /\ \A n \in Nodes : NeedsNode(n)' <=> NeedsNode(n)
  BY CheckWritesNothing, NeedsKept DEF NodeStep
<1>2. NodesSaid /\ PortsSaid /\ HostsSaid /\ SegmentSaid /\ WorkbookSaid
  BY DEF Said
<1>3. PICK n \in Nodes : n = run.at /\ n \notin run.todo
  BY DEF AtInv, StandsInv, NodeStages, UpdatedNode, ManagedNode
<1>4. /\ run'.at = n /\ run'.todo = run.todo /\ seen' = seen
      /\ \/ run.stage = "update" /\ run'.stage = "manage"
         \/ run.stage = "manage" /\ run'.stage = "ports"
  BY <1>3 DEF UpdatedNode, ManagedNode, Comes, Wrote, Looked
<1>5. /\ run.stage \in NodeStages \ {"port"} /\ run'.stage \in NodeStages
      /\ run.stage \in NodeLoop /\ run'.stage \in NodeLoop
      /\ run'.stage # "port"
  BY <1>4, LoopStages DEF NodeStages
<1>6. At(n) /\ At(n)' /\ ~Left(n) /\ ~Left(n)'
  BY <1>3, <1>4, <1>5 DEF At, Left
<1>7. /\ seen.node = cloud.node[n] /\ seen.node # "absent"
      /\ seen.provision \in {"enroll", "manageable"}
      /\ cloud.provision[n] = seen.provision
  BY <1>3 DEF UpdatedNode, ManagedNode, CheckNode
<1>8. cloud.node[n] \in Records
  BY <1>3, CloudFields DEF RoleTypeOK
<1>9. CheckNode'
  BY <1>1, <1>4, <1>7 DEF CheckNode, SameCloud
<1>10. CheckSettled'
  BY <1>1, <1>3, <1>4, <1>5, <1>7, OtherNodesKept DEF CheckSettled, SameCloud
<1>11. \A k \in Nodes : k # n => (NodeSaid(k)' <=> NodeSaid(k))
  BY <1>1, <1>3, <1>4, <1>5, OtherNodesKept
<1>12. \/ /\ run'.changed = run.changed \cup {<<n, "node">>}
          /\ NodeSaid(n)'
       \/ /\ run'.changed = run.changed
          /\ NodeSaid(n)' <=> NodeSaid(n)
  <2>1. CASE UpdatedNode
    <3>1. run.stage = "update" /\ run'.stage = "manage"
      BY <2>1, <1>4 DEF UpdatedNode
    <3>2. NodeSaid(n)' <=> n \in Masked \/ seen.node = "drifted"
      BY <1>1, <1>6, <1>7, <1>8, <3>1 DEF NodeSaid, SameCloud, Records
    <3>3. ~NodeSaid(n)
      BY <1>6, <3>1 DEF NodeSaid
    <3> QED
      BY <1>3, <2>1, <3>2, <3>3 DEF UpdatedNode, Wrote, Looked
  <2>2. CASE ManagedNode
    <3>1. run.stage = "manage" /\ run'.stage = "ports"
      BY <2>2, <1>4 DEF ManagedNode
    <3>2. NodeSaid(n)' <=> NeedsNode(n)
      BY <1>1, <1>6, <3>1 DEF NodeSaid
    <3>3. NodeSaid(n) <=> n \in Masked \/ cloud.node[n] # "declared"
      BY <1>6, <3>1 DEF NodeSaid
    <3>4. NeedsNode(n) <=>
            n \in Masked \/ cloud.node[n] # "declared" \/ seen.provision = "enroll"
      BY <1>7 DEF NeedsNode
    <3> QED
      BY <1>3, <2>2, <3>2, <3>3, <3>4 DEF ManagedNode, Wrote, Looked
  <2> QED
    BY <2>1, <2>2
<1>13. NodesSaid'
  <2>1. ASSUME NEW k \in Nodes PROVE (<<k, "node">> \in run.changed <=> NodeSaid(k))'
    <3>1. <<k, "node">> \in run.changed <=> NodeSaid(k)
      BY <1>2 DEF NodesSaid
    <3>2. k # n => (<<k, "node">> \in run'.changed <=> <<k, "node">> \in run.changed)
      BY <1>12
    <3>3. k = n => (<<k, "node">> \in run'.changed <=>
                      <<k, "node">> \in run.changed \/ run'.changed # run.changed)
      BY <1>12
    <3> QED
      BY <1>11, <1>12, <3>1, <3>2, <3>3
  <2> QED
    BY <2>1 DEF NodesSaid
<1>14. /\ SamePorts(run.changed, run'.changed) /\ SameHosts(run.changed, run'.changed)
       /\ SameSegment(run.changed, run'.changed)
       /\ SameWorkbook(run.changed, run'.changed)
  BY <1>12 DEF SamePorts, SameHosts, SameSegment, SameWorkbook
<1>15. PortsSaid'
  BY <1>1, <1>2, <1>3, <1>4, <1>5, <1>14, PortsKept
<1>16. CheckLater' /\ HostsSaid' /\ SegmentSaid' /\ WorkbookSaid'
  BY <1>2, <1>5, <1>14, LoopSaysNoMore
<1> QED
  BY <1>9, <1>10, <1>13, <1>15, <1>16 DEF Said

\* The steps on the ports of a node, in a check run.
LEMMA CheckPortSteps ==
  ASSUME RoleTypeOK, AtInv, StandsInv, run.check,
         CheckNode, CheckSettled, Said,
         ListedPorts \/ \E m \in Macs : DidPort(m)
  PROVE  CheckNode' /\ CheckSettled' /\ CheckLater' /\ Said'
<1>1. SameCloud /\ \A n \in Nodes : NeedsNode(n)' <=> NeedsNode(n)
  BY CheckWritesNothing, NeedsKept DEF NodeStep
<1>2. NodesSaid /\ PortsSaid /\ HostsSaid /\ SegmentSaid /\ WorkbookSaid
  BY DEF Said
<1>3. PICK n \in Nodes : n = run.at /\ n \notin run.todo
  BY DEF AtInv, StandsInv, NodeStages, ListedPorts, DidPort
<1>4. /\ run'.at = n /\ run'.todo = run.todo
      /\ run.stage \in {"ports", "port"} /\ run'.stage = "port"
  BY <1>3 DEF ListedPorts, DidPort, Comes
<1>5. /\ run.stage \in NodeStages /\ run'.stage \in NodeStages
      /\ run.stage \in NodeLoop /\ run'.stage \in NodeLoop
  BY <1>4, LoopStages DEF NodeStages
<1>6. At(n) /\ At(n)' /\ ~Left(n) /\ ~Left(n)'
  BY <1>3, <1>4, <1>5 DEF At, Left
<1>7. \A k \in Nodes : k # n =>
        /\ NodeSaid(k)' <=> NodeSaid(k)
        /\ Settled(k)' <=> Settled(k)
        /\ \A m \in Macs : PortDealt(k, m)' <=> PortDealt(k, m)
  BY <1>1, <1>3, <1>4, <1>5, OtherNodesKept
<1>8. NodeSaid(n)' <=> NodeSaid(n)
  BY <1>1, <1>4, <1>6 DEF NodeSaid
<1>9. CheckSettled'
  <2>1. Settled(n)
    BY <1>4, <1>6 DEF Settled
  <2> QED
    BY <1>1, <1>7, <2>1 DEF CheckSettled, SameCloud
<1>10. ASSUME SameNodes(run.changed, run'.changed) PROVE NodesSaid'
  BY <1>2, <1>7, <1>8, <1>10 DEF NodesSaid, SameNodes
<1>11. CASE ListedPorts
  <2>1. /\ run.stage = "ports" /\ run'.ports = PortsOf[n]
        /\ run'.changed = run.changed
        /\ seen' = [owner |-> [m \in PortsOf[n] |-> cloud.owner[m]],
                    network |-> [m \in PortsOf[n] |-> cloud.network[m]]]
    BY <1>3, <1>11 DEF ListedPorts, Comes, Looked
  <2>2. CheckNode'
    BY <1>1, <1>4, <2>1 DEF CheckNode, SameCloud
  <2>3. NodesSaid'
    BY <1>10, <2>1 DEF SameNodes
  <2>4. PortsSaid'
    BY <1>1, <1>2, <1>3, <1>4, <1>5, <2>1, PortsKept DEF SamePorts
  <2>5. CheckLater' /\ HostsSaid' /\ SegmentSaid' /\ WorkbookSaid'
    BY <1>2, <1>5, <2>1, LoopSaysNoMore DEF SameHosts, SameSegment, SameWorkbook
  <2> QED
    BY <1>9, <2>2, <2>3, <2>4, <2>5 DEF Said
<1>12. ASSUME NEW m \in Macs, DidPort(m)
       PROVE  CheckNode' /\ CheckSettled' /\ CheckLater' /\ Said'
  <2>1. /\ run.stage = "port" /\ m \in run.ports /\ run'.ports = run.ports \ {m}
        /\ seen' = seen /\ run.ports \subseteq PortsOf[n]
    BY <1>3, <1>12 DEF DidPort, Comes, Wrote, Looked, StandsInv
  <2>2. CheckNode'
    BY <1>1, <1>4, <2>1 DEF CheckNode, SameCloud
  <2>3. seen.owner[m] = cloud.owner[m] /\ seen.network[m] = cloud.network[m]
    BY <2>1 DEF CheckNode
  <2>4. cloud.network[m] \in {"drifted", "declared"}
    BY CloudFields DEF RoleTypeOK
  <2>5. \/ /\ run'.changed = run.changed \cup {<<m, "port">>} /\ NeedsPort(m)
        \/ run'.changed = run.changed /\ ~NeedsPort(m)
    BY <1>3, <1>12, <2>3, <2>4, RoleAssumption DEF DidPort, Wrote, Looked, NeedsPort
  <2>6. /\ SameNodes(run.changed, run'.changed)
        /\ SameHosts(run.changed, run'.changed)
        /\ SameSegment(run.changed, run'.changed)
        /\ SameWorkbook(run.changed, run'.changed)
    BY <2>5 DEF SameNodes, SameHosts, SameSegment, SameWorkbook
  <2>7. PortsSaid'
    <3>1. ASSUME NEW j \in Macs PROVE (<<j, "port">> \in run.changed <=> PortSaid(j))'
      <4>1. NeedsPort(j)' <=> NeedsPort(j)
        BY <1>1, NeedsKept
      <4>2. <<j, "port">> \in run.changed <=> PortSaid(j)
        BY <1>2 DEF PortsSaid
      <4>3. CASE j # m
        <5>1. PortDealt(n, j)' <=> PortDealt(n, j)
          BY <1>4, <1>6, <2>1, <4>3 DEF PortDealt
        <5>2. PortSaid(j)' <=> PortSaid(j)
          BY <1>7, <4>1, <5>1 DEF PortSaid
        <5>3. <<j, "port">> \in run'.changed <=> <<j, "port">> \in run.changed
          BY <2>5, <4>3
        <5> QED
          BY <4>2, <5>2, <5>3
      <4>4. CASE j = m
        <5>1. PortDealt(n, m)'
          BY <1>4, <1>6, <2>1 DEF PortDealt
        <5>2. PortSaid(m)' <=> NeedsPort(m)
          BY <4>1, <4>4, <5>1 DEF PortSaid
        <5>3. PortSaid(m) => NeedsPort(m)
          BY DEF PortSaid
        <5> QED
          BY <2>5, <4>2, <4>4, <5>2, <5>3
      <4> QED
        BY <4>3, <4>4
    <3> QED
      BY <3>1 DEF PortsSaid
  <2>8. CheckLater' /\ HostsSaid' /\ SegmentSaid' /\ WorkbookSaid'
    BY <1>2, <1>5, <2>6, LoopSaysNoMore
  <2> QED
    BY <1>9, <1>10, <2>2, <2>6, <2>7, <2>8 DEF Said
<1> QED
  BY <1>11, <1>12

\* The end of a node, and the end of the loop, in a check run.
LEMMA CheckLoopEnds ==
  ASSUME RoleTypeOK, AtInv, StandsInv, run.check,
         CheckNode, CheckSettled, Said, DoneNode \/ DoneNodes
  PROVE  CheckNode' /\ CheckSettled' /\ CheckLater' /\ Said'
<1>1. /\ SameCloud /\ \A n \in Nodes : NeedsNode(n)' <=> NeedsNode(n)
      /\ \A m \in Macs : NeedsPort(m)' <=> NeedsPort(m)
  BY CheckWritesNothing, NeedsKept DEF NodeStep
<1>2. NodesSaid /\ PortsSaid /\ HostsSaid /\ SegmentSaid /\ WorkbookSaid
  BY DEF Said
<1>3. run'.changed = run.changed /\ run'.todo = run.todo
  BY DEF DoneNode, DoneNodes, Comes, Looked
<1>4. run.stage \in NodeLoop /\ run'.stage \in NodeLoop \cup {"segment"}
      /\ run'.stage \in {"node", "segment"}
  BY LoopStages DEF DoneNode, DoneNodes, Comes
<1>5. CheckNode'
  BY <1>4 DEF CheckNode
<1>6. \A k \in Nodes :
        /\ Left(k)' <=> Left(k)
        /\ ~At(k)'
        /\ At(k) => run.stage = "port" /\ run.ports = {}
  <2>1. CASE DoneNode
    BY <1>3, <1>4, <2>1, LoopStages DEF DoneNode, Comes, Left, At, NodeStages
  <2>2. CASE DoneNodes
    BY <1>3, <1>4, <2>2, LoopStages DEF DoneNodes, Comes, Left, At, NodeStages
  <2> QED
    BY <2>1, <2>2
<1>7. \A k \in Nodes : /\ NodeSaid(k)' <=> NodeSaid(k)
                       /\ Settled(k)' <=> Settled(k)
  BY <1>1, <1>6 DEF NodeSaid, Settled
<1>8. \A k \in Nodes, m \in Macs : PortDealt(k, m)' <=> PortDealt(k, m)
  BY <1>6 DEF PortDealt
<1>9. CheckSettled'
  BY <1>1, <1>7 DEF CheckSettled, SameCloud
<1>10. NodesSaid'
  BY <1>2, <1>3, <1>7 DEF NodesSaid
<1>11. PortsSaid'
  BY <1>1, <1>2, <1>3, <1>8 DEF PortsSaid, PortSaid
<1>12. CheckLater' /\ HostsSaid' /\ SegmentSaid' /\ WorkbookSaid'
  BY <1>2, <1>3, <1>4, LoopSaysNoMore DEF SameHosts, SameSegment, SameWorkbook
<1> QED
  BY <1>5, <1>9, <1>10, <1>11, <1>12 DEF Said
\* After the loop, all nodes and ports have been reported.
LEMMA NodesReported ==
  ASSUME SameCloud, run.stage \notin NodeLoop, run'.stage \notin NodeLoop,
         NodesSaid, PortsSaid, CheckSettled,
         SameNodes(run.changed, run'.changed),
         SamePorts(run.changed, run'.changed)
  PROVE  CheckNode' /\ CheckSettled' /\ NodesSaid' /\ PortsSaid'
<1>1. \A n \in Nodes : ~Left(n) /\ ~Left(n)' /\ ~At(n) /\ ~At(n)'
  BY LoopStages DEF Left, At
<1>2. CheckNode'
  BY LoopStages DEF CheckNode
<1>3. CheckSettled'
  BY <1>1 DEF CheckSettled, Settled, SameCloud
<1>4. NodesSaid'
  BY <1>1, NeedsKept DEF NodesSaid, NodeSaid, SameNodes
<1>5. PortsSaid'
  <2>1. \A n \in Nodes, m \in Macs : PortDealt(n, m)' <=> PortDealt(n, m)
    BY <1>1 DEF PortDealt
  <2> QED
    BY <2>1, NeedsKept DEF PortsSaid, PortSaid, SamePorts
<1> QED
  BY <1>2, <1>3, <1>4, <1>5

\* The steps on the segment, in a check run.
LEMMA CheckSegmentSteps ==
  ASSUME RoleTypeOK, SegmentInv, run.check, CheckSettled, CheckLater, Said,
         ListedSegment \/ DidSegment \/ ListedHosts
  PROVE  CheckNode' /\ CheckSettled' /\ CheckLater' /\ Said'
<1> USE DEF Past, AfterHosts, AfterSegment, AfterPopulate
<1>1. SameCloud
  BY CheckWritesNothing DEF LaterStep
<1>2. /\ \A n \in Nodes : NeedsHost(n)' <=> NeedsHost(n)
      /\ NeedsSegment' <=> NeedsSegment
      /\ NeedsWorkbook' <=> NeedsWorkbook
  BY <1>1, NeedsKept
<1>3. NodesSaid /\ PortsSaid /\ HostsSaid /\ SegmentSaid /\ WorkbookSaid
  BY DEF Said
<1>4. run.stage \in {"segment", "putSegment", "hosts"}
  BY DEF ListedSegment, DidSegment, ListedHosts
<1>5. run'.stage \in {"populate", "putSegment", "hosts", "host"}
  BY DEF ListedSegment, DidSegment, ListedHosts, Comes
<1>6. run.stage \notin NodeLoop /\ run'.stage \notin NodeLoop
  BY <1>4, <1>5, LoopStages
<1>7. ASSUME SameNodes(run.changed, run'.changed), SamePorts(run.changed, run'.changed)
      PROVE  CheckNode' /\ CheckSettled' /\ NodesSaid' /\ PortsSaid'
  BY <1>1, <1>3, <1>6, <1>7, NodesReported
<1>8. ASSUME SameWorkbook(run.changed, run'.changed) PROVE WorkbookSaid'
  BY <1>3, <1>4, <1>5, <1>8 DEF WorkbookSaid, SameWorkbook
<1>9. CASE /\ cloud.segment = "absent" /\ run.stage = "segment"
           /\ run'.stage = "populate"
           /\ run'.changed = run.changed \cup {<<"segment", "segment">>}
                                         \cup (Nodes \X {"host"})
  <2>1. /\ \A n \in Nodes : <<n, "host">> \in run'.changed
        /\ <<"segment", "segment">> \in run'.changed
        /\ SameNodes(run.changed, run'.changed)
        /\ SamePorts(run.changed, run'.changed)
        /\ SameWorkbook(run.changed, run'.changed)
    BY <1>9 DEF SameNodes, SamePorts, SameWorkbook
  <2>2. NeedsSegment /\ \A n \in Nodes : NeedsHost(n)
    BY <1>9 DEF NeedsSegment, NeedsHost, HostReady, SegmentInv
  <2>3. HostsSaid' /\ SegmentSaid'
    BY <1>2, <1>9, <2>1, <2>2 DEF HostsSaid, HostSaid, SegmentSaid
  <2>4. CheckLater'
    BY <1>9 DEF CheckLater
  <2> QED
    BY <1>7, <1>8, <2>1, <2>3, <2>4 DEF Said
<1>10. CASE /\ run.stage = "segment" /\ run'.stage = "putSegment"
            /\ Looked([segment |-> cloud.segment])
  <2>1. run'.changed = run.changed /\ seen' = [segment |-> cloud.segment]
    BY <1>10 DEF Looked
  <2>2. HostsSaid' /\ SegmentSaid'
    BY <1>2, <1>3, <1>10, <2>1 DEF HostsSaid, HostSaid, SegmentSaid
  <2>3. CheckLater'
    BY <1>1, <1>10, <2>1 DEF CheckLater, SameCloud
  <2> QED
    BY <1>7, <1>8, <2>1, <2>2, <2>3 DEF Said, SameNodes, SamePorts, SameWorkbook
<1>11. CASE DidSegment
  <2>1. /\ run.stage = "putSegment" /\ run'.stage = "hosts"
        /\ seen.segment = cloud.segment
    BY <1>11 DEF DidSegment, Comes, CheckLater
  <2>2. \/ /\ run'.changed = run.changed \cup {<<"segment", "segment">>}
           /\ NeedsSegment
        \/ run'.changed = run.changed /\ ~NeedsSegment
    BY <1>11, <2>1 DEF DidSegment, Wrote, Looked, NeedsSegment
  <2>3. /\ SameNodes(run.changed, run'.changed) /\ SamePorts(run.changed, run'.changed)
        /\ SameHosts(run.changed, run'.changed)
        /\ SameWorkbook(run.changed, run'.changed)
    BY <2>2 DEF SameNodes, SamePorts, SameHosts, SameWorkbook
  <2>4. HostsSaid'
    BY <1>2, <1>3, <2>1, <2>3 DEF HostsSaid, HostSaid, SameHosts
  <2>5. SegmentSaid'
    BY <1>2, <1>3, <2>1, <2>2 DEF SegmentSaid
  <2>6. CheckLater'
    BY <2>1 DEF CheckLater
  <2> QED
    BY <1>7, <1>8, <2>3, <2>4, <2>5, <2>6 DEF Said
<1>12. CASE ListedHosts
  <2>1. /\ run.stage = "hosts" /\ run'.stage = "host" /\ run'.todo = Nodes
        /\ run'.changed = run.changed
        /\ seen' = [host |-> cloud.host, maintenance |-> cloud.maintenance]
    BY <1>12 DEF ListedHosts, Comes, Looked
  <2>2. HostsSaid' /\ SegmentSaid'
    BY <1>2, <1>3, <2>1 DEF HostsSaid, HostSaid, SegmentSaid
  <2>3. CheckLater'
    BY <1>1, <2>1 DEF CheckLater, SameCloud
  <2> QED
    BY <1>7, <1>8, <2>1, <2>2, <2>3 DEF Said, SameNodes, SamePorts, SameWorkbook
<1> QED
  BY <1>9, <1>10, <1>11, <1>12 DEF ListedSegment, Comes

\* The steps on the hosts, in a check run.
LEMMA CheckHostSteps ==
  ASSUME RoleTypeOK, run.check, CheckSettled, CheckLater, Said,
         (\E n \in Nodes : DidHost(n)) \/ DoneHosts
  PROVE  CheckNode' /\ CheckSettled' /\ CheckLater' /\ Said'
<1> USE DEF Past, AfterHosts, AfterSegment, AfterPopulate
<1>1. SameCloud
  BY CheckWritesNothing DEF LaterStep
<1>2. /\ \A n \in Nodes : NeedsHost(n)' <=> NeedsHost(n)
      /\ NeedsSegment' <=> NeedsSegment
      /\ NeedsWorkbook' <=> NeedsWorkbook
  BY <1>1, NeedsKept
<1>3. NodesSaid /\ PortsSaid /\ HostsSaid /\ SegmentSaid /\ WorkbookSaid
  BY DEF Said
<1>4. run.stage = "host" /\ run'.stage \in {"host", "populate"}
  BY DEF DidHost, DoneHosts, Comes
<1>5. run.stage \notin NodeLoop /\ run'.stage \notin NodeLoop
  BY <1>4, LoopStages
<1>6. ASSUME SameNodes(run.changed, run'.changed), SamePorts(run.changed, run'.changed),
             SameSegment(run.changed, run'.changed),
             SameWorkbook(run.changed, run'.changed)
      PROVE  /\ CheckNode' /\ CheckSettled' /\ NodesSaid' /\ PortsSaid'
             /\ SegmentSaid' /\ WorkbookSaid'
  <2>1. CheckNode' /\ CheckSettled' /\ NodesSaid' /\ PortsSaid'
    BY <1>1, <1>3, <1>5, <1>6, NodesReported
  <2>2. SegmentSaid' /\ WorkbookSaid'
    BY <1>2, <1>3, <1>4, <1>6 DEF SegmentSaid, WorkbookSaid, SameSegment, SameWorkbook
  <2> QED
    BY <2>1, <2>2
<1>7. ASSUME NEW n \in Nodes, DidHost(n)
      PROVE  CheckNode' /\ CheckSettled' /\ CheckLater' /\ Said'
  <2>1. /\ n \in run.todo /\ run'.stage = "host" /\ run'.todo = run.todo \ {n}
        /\ seen' = seen
    BY <1>7 DEF DidHost, Comes, Wrote, Looked
  <2>2. /\ seen.host[n] = cloud.host[n]
        /\ seen.maintenance[n] = cloud.maintenance[n]
    BY <1>4, <2>1 DEF CheckLater
  <2>3. cloud.maintenance[n] \in BOOLEAN /\ cloud.host[n] \in Records
    BY CloudFields DEF RoleTypeOK
  <2>4. Moved(n) <=> ~(cloud.maintenance[n] <=> n \in Maintained)
    BY <2>2, <2>3 DEF Moved
  <2>5. NeedsHost(n) <=> seen.host[n] # "declared" \/ Moved(n)
    BY <2>2, <2>4 DEF NeedsHost, HostReady
  <2>6. \/ /\ run'.changed = run.changed \cup {<<n, "host">>} /\ NeedsHost(n)
        \/ run'.changed = run.changed /\ ~NeedsHost(n)
    BY <1>7, <2>5 DEF DidHost, Wrote, Looked
  <2>7. /\ SameNodes(run.changed, run'.changed) /\ SamePorts(run.changed, run'.changed)
        /\ SameSegment(run.changed, run'.changed)
        /\ SameWorkbook(run.changed, run'.changed)
    BY <2>6 DEF SameNodes, SamePorts, SameSegment, SameWorkbook
  <2>8. CheckLater'
    BY <1>1, <1>4, <2>1 DEF CheckLater, SameCloud
  <2>9. HostsSaid'
    <3>1. ASSUME NEW k \in Nodes PROVE (<<k, "host">> \in run.changed <=> HostSaid(k))'
      <4>1. <<k, "host">> \in run.changed <=> HostSaid(k)
        BY <1>3 DEF HostsSaid
      <4>2. HostSaid(k) <=> NeedsHost(k) /\ k \notin run.todo
        BY <1>4 DEF HostSaid
      <4>3. HostSaid(k)' <=> NeedsHost(k) /\ (k \notin run.todo \/ k = n)
        BY <1>2, <2>1 DEF HostSaid
      <4>4. <<k, "host">> \in run'.changed <=>
              <<k, "host">> \in run.changed \/ (k = n /\ NeedsHost(n))
        BY <2>6
      <4> QED
        BY <4>1, <4>2, <4>3, <4>4
    <3> QED
      BY <3>1 DEF HostsSaid
  <2> QED
    BY <1>6, <2>7, <2>8, <2>9 DEF Said
<1>8. CASE DoneHosts
  <2>1. run.todo = {} /\ run'.stage = "populate" /\ run'.changed = run.changed
    BY <1>8 DEF DoneHosts, Comes, Looked
  <2>2. HostsSaid'
    BY <1>2, <1>3, <1>4, <2>1 DEF HostsSaid, HostSaid
  <2>3. CheckLater'
    BY <2>1 DEF CheckLater
  <2> QED
    BY <1>6, <2>1, <2>2, <2>3 DEF Said, SameNodes, SamePorts, SameSegment,
                                  SameWorkbook
<1> QED
  BY <1>7, <1>8

\* The last steps of a check run.
LEMMA CheckWorkbookSteps ==
  ASSUME RoleTypeOK, run.check, CheckSettled, CheckLater, Said,
         Populated \/ ListedWorkbook \/ DidWorkbook \/ Summarised
  PROVE  CheckNode' /\ CheckSettled' /\ CheckLater' /\ Said'
<1> USE DEF Past, AfterHosts, AfterSegment, AfterPopulate
<1>1. SameCloud
  BY CheckWritesNothing DEF LaterStep
<1>2. /\ \A n \in Nodes : NeedsHost(n)' <=> NeedsHost(n)
      /\ NeedsSegment' <=> NeedsSegment
      /\ NeedsWorkbook' <=> NeedsWorkbook
  BY <1>1, NeedsKept
<1>3. NodesSaid /\ PortsSaid /\ HostsSaid /\ SegmentSaid /\ WorkbookSaid
  BY DEF Said
<1>4. /\ run.stage \in AfterHosts
      /\ run'.stage \in AfterPopulate \/ (run'.stage = "idle" /\ run'.result = "ok")
  BY DEF Populated, ListedWorkbook, DidWorkbook, Summarised, Comes
<1>5. run.stage \notin NodeLoop /\ run'.stage \notin NodeLoop
  BY <1>4, LoopStages
<1>6. ASSUME SameNodes(run.changed, run'.changed), SamePorts(run.changed, run'.changed),
             SameHosts(run.changed, run'.changed),
             SameSegment(run.changed, run'.changed)
      PROVE  /\ CheckNode' /\ CheckSettled' /\ NodesSaid' /\ PortsSaid'
             /\ HostsSaid' /\ SegmentSaid'
  <2>1. CheckNode' /\ CheckSettled' /\ NodesSaid' /\ PortsSaid'
    BY <1>1, <1>3, <1>5, <1>6, NodesReported
  <2>2. HostsSaid' /\ SegmentSaid'
    BY <1>2, <1>3, <1>4, <1>6 DEF HostsSaid, HostSaid, SegmentSaid, SameHosts,
                                  SameSegment
  <2> QED
    BY <2>1, <2>2
<1>7. CASE DidWorkbook
  <2>1. /\ run.stage = "putWorkbook" /\ run'.stage = "validate"
        /\ seen.workbook = cloud.workbook
    BY <1>7 DEF DidWorkbook, Comes, CheckLater
  <2>2. \/ /\ run'.changed = run.changed \cup {<<"workbook", "workbook">>}
           /\ NeedsWorkbook
        \/ run'.changed = run.changed /\ ~NeedsWorkbook
    BY <1>7, <2>1 DEF DidWorkbook, Wrote, Looked, NeedsWorkbook
  <2>3. /\ SameNodes(run.changed, run'.changed) /\ SamePorts(run.changed, run'.changed)
        /\ SameHosts(run.changed, run'.changed)
        /\ SameSegment(run.changed, run'.changed)
    BY <2>2 DEF SameNodes, SamePorts, SameHosts, SameSegment
  <2>4. WorkbookSaid'
    BY <1>2, <1>3, <2>1, <2>2 DEF WorkbookSaid
  <2>5. CheckLater'
    BY <2>1 DEF CheckLater
  <2> QED
    BY <1>6, <2>3, <2>4, <2>5 DEF Said
<1>8. CASE ~DidWorkbook
  <2>1. /\ run'.changed = run.changed
        /\ \/ run.stage = "validate" /\ run'.stage = "idle" /\ run'.result = "ok"
           \/ run.stage # "validate" /\ run'.stage \in {"workbook", "putWorkbook"}
    BY <1>8 DEF Populated, ListedWorkbook, Summarised, Comes, Looked
  <2>2. WorkbookSaid'
    BY <1>2, <1>3, <1>4, <2>1 DEF WorkbookSaid
  <2>3. CheckLater'
    <3>1. CASE ListedWorkbook
      <4>1. /\ run'.stage = "putWorkbook"
            /\ seen' = [workbook |-> cloud.workbook]
        BY <3>1 DEF ListedWorkbook, Comes, Looked
      <4>2. seen'.workbook = cloud'.workbook
        BY <1>1, <4>1 DEF SameCloud
      <4> QED
        BY <4>1, <4>2 DEF CheckLater
    <3>2. CASE Populated \/ Summarised
      <4>1. run'.stage \in {"workbook", "idle"}
        BY <3>2 DEF Populated, Summarised, Comes
      <4> QED
        BY <4>1 DEF CheckLater
    <3> QED
      BY <1>8, <3>1, <3>2
  <2> QED
    BY <1>6, <2>1, <2>2, <2>3 DEF Said, SameNodes, SamePorts, SameHosts, SameSegment
<1> QED
  BY <1>7, <1>8

\* A verification that ends is none that a check run has relied on.
LEMMA CheckVerified ==
  ASSUME RoleTypeOK, AtInv, NEW n \in Nodes, Verified(n),
         CheckNode, CheckSettled, CheckLater, Said
  PROVE  CheckNode' /\ CheckSettled' /\ CheckLater' /\ Said'
<1>1. cloud \in Clouds
  BY DEF RoleTypeOK
<1>2. cloud.provision[n] = "verifying" /\ run' = run /\ seen' = seen
  BY DEF Verified
<1>3. /\ cloud'.node = cloud.node /\ cloud'.owner = cloud.owner
      /\ cloud'.network = cloud.network /\ cloud'.segment = cloud.segment
      /\ cloud'.host = cloud.host /\ cloud'.maintenance = cloud.maintenance
      /\ cloud'.workbook = cloud.workbook
      /\ \A k \in Nodes : k # n => cloud'.provision[k] = cloud.provision[k]
  BY <1>1 DEF Verified, Clouds
<1>4. ~Settled(n)
  BY <1>2 DEF CheckSettled
<1>5. \A k \in Nodes : /\ Left(k)' <=> Left(k)
                       /\ At(k)' <=> At(k)
                       /\ Settled(k)' <=> Settled(k)
  BY <1>2 DEF Left, At, Settled
<1>6. CheckNode'
  <2>1. CASE run.stage \in NodeStages
    <3>1. run.at \in Nodes
      BY <2>1 DEF AtInv
    <3> QED
      BY <1>2, <1>3, <3>1 DEF CheckNode
  <2>2. CASE run.stage \notin NodeStages
    BY <1>2, <2>2 DEF CheckNode, NodeStages
  <2> QED
    BY <2>1, <2>2
<1>7. CheckSettled'
  BY <1>3, <1>4, <1>5 DEF CheckSettled
<1>8. CheckLater'
  BY <1>2, <1>3 DEF CheckLater
<1>9. NodesSaid'
  <2>1. ASSUME NEW k \in Nodes PROVE NodeSaid(k)' <=> NodeSaid(k)
    <3>1. CASE k = n
      <4>1. ~NodeSaid(n)
        BY <1>4 DEF NodeSaid, Settled
      <4>2. ~NodeSaid(n)'
        BY <1>2, <1>4, <1>5 DEF NodeSaid, Settled
      <4> QED
        BY <3>1, <4>1, <4>2
    <3>2. CASE k # n
      <4>1. NeedsNode(k)' <=> NeedsNode(k)
        BY <1>3, <3>2 DEF NeedsNode
      <4> QED
        BY <1>2, <1>3, <1>5, <4>1 DEF NodeSaid
    <3> QED
      BY <3>1, <3>2
  <2> QED
    BY <1>2, <2>1 DEF NodesSaid, Said
<1>10. PortsSaid'
  <2>1. \A k \in Nodes, m \in Macs : PortDealt(k, m)' <=> PortDealt(k, m)
    BY <1>2, <1>5 DEF PortDealt
  <2>2. \A m \in Macs : NeedsPort(m)' <=> NeedsPort(m)
    BY <1>3 DEF NeedsPort
  <2> QED
    BY <1>2, <2>1, <2>2 DEF PortsSaid, PortSaid, Said
<1>11. HostsSaid' /\ SegmentSaid' /\ WorkbookSaid'
  BY <1>2, <1>3 DEF Said, HostsSaid, HostSaid, NeedsHost, HostReady, SegmentSaid,
                    NeedsSegment, WorkbookSaid, NeedsWorkbook, Past
<1> QED
  BY <1>6, <1>7, <1>8, <1>9, <1>10, <1>11 DEF Said

\* A run that starts has said nothing.
LEMMA CheckStarts ==
  ASSUME Started
  PROVE  CheckNode' /\ CheckSettled' /\ CheckLater' /\ Said'
<1>1. /\ run'.stage = "node" /\ run'.todo = Nodes /\ run'.changed = {}
  BY DEF Started
<1>2. run'.stage \in NodeLoop \ NodeStages
  BY <1>1, LoopStages DEF NodeStages
<1>3. \A n \in Nodes : Left(n)'
  BY <1>1, <1>2 DEF Left
<1>4. CheckNode' /\ CheckLater'
  BY <1>1 DEF CheckNode, CheckLater
<1>5. CheckSettled'
  BY <1>3 DEF CheckSettled, Settled
<1>6. NodesSaid' /\ PortsSaid'
  BY <1>1, <1>3 DEF NodesSaid, NodeSaid, PortsSaid, PortSaid, PortDealt
<1>7. HostsSaid' /\ SegmentSaid' /\ WorkbookSaid'
  BY <1>1 DEF HostsSaid, HostSaid, SegmentSaid, WorkbookSaid, Past, AfterHosts,
              AfterSegment, AfterPopulate
<1> QED
  BY <1>4, <1>5, <1>6, <1>7 DEF Said
\* A run that goes on has not failed.
LEMMA ResultKept ==
  ASSUME StandsInv, NodeStep \/ LaterStep, run'.result # "failed"
  PROVE  run.result # "failed"
<1>1. CASE NodeStep
  BY <1>1 DEF NodeStep, ListedNode, Preflighted, CreatedNode, UpdatedNode,
              ManagedNode, AwaitedNode, ListedPorts, DidPort, DoneNode, DoneNodes,
              Comes
<1>2. CASE LaterStep
  <2>1. run.stage \in AfterNodes
    BY <1>2 DEF LaterStep, ListedSegment, DidSegment, ListedHosts, DidHost,
                DoneHosts, Populated, ListedWorkbook, DidWorkbook, Summarised,
                AfterNodes, AfterSegment, AfterHosts, AfterPopulate
  <2> QED
    BY <2>1 DEF StandsInv
<1> QED
  BY <1>1, <1>2

\* A check run goes on saying what has to be changed, whatever step comes.
LEMMA CheckStep ==
  ASSUME RoleInv, ForecastInv, Next
  PROVE  CheckInv'
<1>1. /\ RoleTypeOK /\ AtInv /\ AbsentInv
      /\ StandsInv /\ SegmentInv /\ CheckInv
  BY DEF RoleInv, ForecastInv
<1>2. SUFFICES ASSUME quiet', run'.check, run'.result # "failed"
               PROVE  CheckNode' /\ CheckSettled' /\ CheckLater' /\ Said'
  BY DEF CheckInv
<1>3. CASE NodeStep \/ LaterStep
  <2>1. /\ quiet /\ run.check /\ run.result # "failed"
    BY <1>1, <1>2, <1>3, RunKept, ResultKept
  <2>2. CheckNode /\ CheckSettled /\ CheckLater /\ Said
    BY <1>1, <2>1 DEF CheckInv
  <2>3. ~CreatedNode /\ ~AwaitedNode
    BY <2>2 DEF CheckNode, CreatedNode, AwaitedNode
  <2>4. CASE (\E n \in Nodes : ListedNode(n)) \/ Preflighted
    BY <1>1, <2>1, <2>2, <2>4, CheckFirstSteps
  <2>5. CASE UpdatedNode \/ ManagedNode
    BY <1>1, <2>1, <2>2, <2>5, CheckProvisionSteps
  <2>6. CASE ListedPorts \/ \E m \in Macs : DidPort(m)
    BY <1>1, <2>1, <2>2, <2>6, CheckPortSteps
  <2>7. CASE DoneNode \/ DoneNodes
    BY <1>1, <2>1, <2>2, <2>7, CheckLoopEnds
  <2>8. CASE ListedSegment \/ DidSegment \/ ListedHosts
    BY <1>1, <2>1, <2>2, <2>8, CheckSegmentSteps
  <2>9. CASE (\E n \in Nodes : DidHost(n)) \/ DoneHosts
    BY <1>1, <2>1, <2>2, <2>9, CheckHostSteps
  <2>10. CASE Populated \/ ListedWorkbook \/ DidWorkbook \/ Summarised
    BY <1>1, <2>1, <2>2, <2>10, CheckWorkbookSteps
  <2> QED
    BY <1>3, <2>3, <2>4, <2>5, <2>6, <2>7, <2>8, <2>9, <2>10, Zenon
       DEF NodeStep, LaterStep
<1>4. CASE Failed \/ OthersWrote
  BY <1>2, <1>4 DEF Failed, OthersWrote
<1>5. CASE Started
  BY <1>5, CheckStarts
<1>6. CASE \E n \in Nodes : Verified(n)
  <2>1. PICK n \in Nodes : Verified(n)
    BY <1>6
  <2>2. quiet /\ run.check /\ run.result # "failed"
    BY <1>2, <2>1 DEF Verified
  <2>3. CheckNode /\ CheckSettled /\ CheckLater /\ Said
    BY <1>1, <2>2 DEF CheckInv
  <2> QED
    BY <1>1, <2>1, <2>3, CheckVerified
<1> QED
  BY <1>1, <1>3, <1>4, <1>5, <1>6, StepsMean

-----------------------------------------------------------------------------
(***************************************************************************)
(* Segments and their hosts.                                               *)
(***************************************************************************)

\* The steps on the nodes leave the segment and the hosts alone.
LEMMA NodeStepLeaves ==
  ASSUME RoleTypeOK, NodeStep
  PROVE  /\ cloud'.segment = cloud.segment /\ cloud'.host = cloud.host
         /\ cloud'.maintenance = cloud.maintenance
         /\ cloud'.workbook = cloud.workbook
         /\ run'.stage \in NodeLoop \cup {"segment"}
<1> USE DEF NodeLoop, NodeStages
<1>0. cloud \in Clouds
  BY DEF RoleTypeOK
<1>1. CASE (\E n \in Nodes : ListedNode(n)) \/ Preflighted \/ AwaitedNode
           \/ ListedPorts \/ DoneNode \/ DoneNodes
  BY <1>1 DEF ListedNode, Preflighted, AwaitedNode, ListedPorts, DoneNode,
              DoneNodes, Comes, Looked
<1>2. CASE CreatedNode
  BY <1>0, <1>2 DEF CreatedNode, Comes, Wrote, Clouds
<1>3. CASE UpdatedNode
  BY <1>0, <1>3 DEF UpdatedNode, Comes, Wrote, Looked, Clouds
<1>4. CASE ManagedNode
  BY <1>0, <1>4 DEF ManagedNode, Comes, Wrote, Looked, Clouds
<1>5. CASE \E m \in Macs : DidPort(m)
  BY <1>0, <1>5 DEF DidPort, Comes, Wrote, Looked, Clouds
<1> QED
  BY <1>1, <1>2, <1>3, <1>4, <1>5 DEF NodeStep

\* Hosts belong to a segment, whatever step comes.
LEMMA SegmentStep ==
  ASSUME RoleInv, ForecastInv, Next
  PROVE  SegmentInv'
<1>1. RoleTypeOK /\ AtInv /\ SegmentInv
  BY DEF RoleInv, ForecastInv
<1>2. cloud \in Clouds
  BY <1>1 DEF RoleTypeOK
<1> USE DEF AfterSegment, AfterHosts, AfterPopulate
<1>3. CASE NodeStep
  <2>1. run'.stage \notin AfterSegment /\ run'.stage # "putSegment"
    BY <1>1, <1>3, NodeStepLeaves DEF NodeLoop, NodeStages
  <2> QED
    BY <1>1, <1>3, <2>1, NodeStepLeaves DEF SegmentInv
<1>4. CASE ListedSegment
  <2>1. UNCHANGED cloud /\ run'.check = run.check
    BY <1>4 DEF ListedSegment, Looked, Comes
  <2>2. \/ run'.stage = "populate" /\ run'.check
        \/ run'.stage = "putSegment" /\ seen' = [segment |-> cloud.segment]
    BY <1>4 DEF ListedSegment, Looked, Comes
  <2>3. run'.stage = "putSegment" => seen'.segment = cloud'.segment
    BY <2>1, <2>2
  <2> QED
    BY <1>1, <2>1, <2>2, <2>3 DEF SegmentInv
<1>5. CASE DidSegment
  <2>1. run'.stage = "hosts" /\ run'.check = run.check /\ run.stage = "putSegment"
    BY <1>5 DEF DidSegment, Comes
  <2>2. \/ cloud'.segment = "declared"
        \/ UNCHANGED cloud /\ (run.check \/ seen.segment = "declared")
    BY <1>2, <1>5 DEF DidSegment, Wrote, Looked, Clouds
  <2> QED
    BY <1>1, <2>1, <2>2 DEF SegmentInv
<1>6. CASE \E n \in Nodes : DidHost(n)
  <2>1. PICK n \in Nodes : DidHost(n)
    BY <1>6
  <2>2. /\ run.stage = "host" /\ run'.stage = "host" /\ run'.check = run.check
        /\ run.check => UNCHANGED cloud
    BY <2>1 DEF DidHost, Comes, Wrote, Looked
  <2>3. cloud'.segment = cloud.segment
    BY <1>2, <2>1 DEF DidHost, Wrote, Looked, Clouds
  <2> QED
    BY <1>1, <2>2, <2>3 DEF SegmentInv
<1>7. CASE ListedHosts \/ DoneHosts \/ Populated \/ ListedWorkbook \/ DidWorkbook
           \/ Summarised
  <2>1. cloud'.segment = cloud.segment /\ cloud'.host = cloud.host
    BY <1>2, <1>7 DEF ListedHosts, DoneHosts, Populated, ListedWorkbook,
                      DidWorkbook, Summarised, Comes, Wrote, Looked, Clouds
  <2>2. /\ run.stage \in AfterSegment /\ run'.stage # "putSegment"
        /\ run'.check = run.check
    BY <1>7 DEF ListedHosts, DoneHosts, Populated, ListedWorkbook,
                DidWorkbook, Summarised, Comes
  <2>3. CASE run.check
    BY <1>1, <2>1, <2>2, <2>3 DEF SegmentInv
  <2>4. CASE ~run.check
    BY <1>1, <2>1, <2>2, <2>4 DEF SegmentInv
  <2> QED
    BY <2>3, <2>4
<1>8. CASE Failed \/ Started
  <2>1. UNCHANGED cloud /\ run'.stage \in {"node", "idle"}
    BY <1>8 DEF Failed, Started
  <2> QED
    BY <1>1, <2>1 DEF SegmentInv
<1>9. CASE \E n \in Nodes : Verified(n)
  <2>1. /\ cloud'.segment = cloud.segment /\ cloud'.host = cloud.host
        /\ UNCHANGED <<run, seen>>
    BY <1>2, <1>9 DEF Verified, Clouds
  <2> QED
    BY <1>1, <2>1 DEF SegmentInv
<1>10. CASE OthersWrote
  BY <1>1, <1>10 DEF SegmentInv, OthersWrote
<1> QED
  BY <1>1, <1>3, <1>4, <1>5, <1>6, <1>7, <1>8, <1>9, <1>10, StepsMean, Zenon
     DEF LaterStep
-----------------------------------------------------------------------------
(***************************************************************************)
(* The run that follows a check run.                                       *)
(***************************************************************************)

\* A step that writes nothing leaves as much to be done as before.
LEMMA ToldKept ==
  ASSUME Told, SameCloud, forecast' = forecast, run'.changed = run.changed
  PROVE  Told'
<1>1. /\ \A n \in Nodes : NeedsNode(n)' <=> NeedsNode(n)
      /\ \A m \in Macs : NeedsPort(m)' <=> NeedsPort(m)
      /\ \A n \in Nodes : NeedsHost(n)' <=> NeedsHost(n)
      /\ NeedsSegment' <=> NeedsSegment
      /\ NeedsWorkbook' <=> NeedsWorkbook
  BY NeedsKept
<1>2. NodesTold /\ PortsTold /\ HostsTold /\ SegmentTold /\ WorkbookTold
  BY DEF Told
<1>3. NodesTold'
  BY <1>1, <1>2 DEF NodesTold
<1>4. PortsTold'
  BY <1>1, <1>2 DEF PortsTold, Declared
<1>5. HostsTold' /\ SegmentTold' /\ WorkbookTold'
  BY <1>1, <1>2 DEF HostsTold, SegmentTold, WorkbookTold
<1> QED
  BY <1>3, <1>4, <1>5 DEF Told

\* A write to a node that had to be changed was announced.
LEMMA ToldNode ==
  ASSUME Told, forecast' = forecast, NEW a \in Nodes, <<a, "node">> \in forecast,
         run'.changed = run.changed \cup {<<a, "node">>},
         \A k \in Nodes : k # a => /\ cloud'.node[k] = cloud.node[k]
                                   /\ cloud'.provision[k] = cloud.provision[k],
         cloud'.owner = cloud.owner, cloud'.network = cloud.network,
         cloud'.segment = cloud.segment, cloud'.host = cloud.host,
         cloud'.maintenance = cloud.maintenance, cloud'.workbook = cloud.workbook
  PROVE  Told'
<1>1. /\ \A n \in Nodes : n # a => (NeedsNode(n)' <=> NeedsNode(n))
      /\ \A m \in Macs : NeedsPort(m)' <=> NeedsPort(m)
      /\ \A n \in Nodes : NeedsHost(n)' <=> NeedsHost(n)
      /\ NeedsSegment' <=> NeedsSegment
      /\ NeedsWorkbook' <=> NeedsWorkbook
  BY DEF NeedsNode, NeedsPort, NeedsHost, HostReady, NeedsSegment, NeedsWorkbook
<1>2. NodesTold /\ PortsTold /\ HostsTold /\ SegmentTold /\ WorkbookTold
  BY DEF Told
<1>3. NodesTold'
  BY <1>1, <1>2 DEF NodesTold
<1>4. PortsTold'
  BY <1>1, <1>2 DEF PortsTold, Declared
<1>5. HostsTold' /\ SegmentTold' /\ WorkbookTold'
  BY <1>1, <1>2 DEF HostsTold, SegmentTold, WorkbookTold
<1> QED
  BY <1>3, <1>4, <1>5 DEF Told

\* So was a write to a port.
LEMMA ToldPort ==
  ASSUME Told, forecast' = forecast, NEW a \in Macs, <<a, "port">> \in forecast,
         run'.changed = run.changed \cup {<<a, "port">>},
         \A k \in Macs : k # a => /\ cloud'.owner[k] = cloud.owner[k]
                                  /\ cloud'.network[k] = cloud.network[k],
         cloud'.node = cloud.node, cloud'.provision = cloud.provision,
         cloud'.segment = cloud.segment, cloud'.host = cloud.host,
         cloud'.maintenance = cloud.maintenance, cloud'.workbook = cloud.workbook
  PROVE  Told'
<1>1. /\ \A n \in Nodes : NeedsNode(n)' <=> NeedsNode(n)
      /\ \A m \in Macs : m # a => (NeedsPort(m)' <=> NeedsPort(m))
      /\ \A n \in Nodes : NeedsHost(n)' <=> NeedsHost(n)
      /\ NeedsSegment' <=> NeedsSegment
      /\ NeedsWorkbook' <=> NeedsWorkbook
  BY DEF NeedsNode, NeedsPort, NeedsHost, HostReady, NeedsSegment, NeedsWorkbook
<1>2. NodesTold /\ PortsTold /\ HostsTold /\ SegmentTold /\ WorkbookTold
  BY DEF Told
<1>3. NodesTold'
  BY <1>1, <1>2 DEF NodesTold
<1>4. PortsTold'
  BY <1>1, <1>2 DEF PortsTold, Declared
<1>5. HostsTold' /\ SegmentTold' /\ WorkbookTold'
  BY <1>1, <1>2 DEF HostsTold, SegmentTold, WorkbookTold
<1> QED
  BY <1>3, <1>4, <1>5 DEF Told

\* So was a write to a host.
LEMMA ToldHost ==
  ASSUME Told, forecast' = forecast, NEW a \in Nodes, <<a, "host">> \in forecast,
         run'.changed = run.changed \cup {<<a, "host">>},
         \A k \in Nodes : k # a =>
           /\ cloud'.host[k] = cloud.host[k]
           /\ cloud'.maintenance[k] = cloud.maintenance[k],
         cloud'.node = cloud.node, cloud'.provision = cloud.provision,
         cloud'.owner = cloud.owner, cloud'.network = cloud.network,
         cloud'.segment = cloud.segment, cloud'.workbook = cloud.workbook
  PROVE  Told'
<1>1. /\ \A n \in Nodes : NeedsNode(n)' <=> NeedsNode(n)
      /\ \A m \in Macs : NeedsPort(m)' <=> NeedsPort(m)
      /\ \A n \in Nodes : n # a => (NeedsHost(n)' <=> NeedsHost(n))
      /\ NeedsSegment' <=> NeedsSegment
      /\ NeedsWorkbook' <=> NeedsWorkbook
  BY DEF NeedsNode, NeedsPort, NeedsHost, HostReady, NeedsSegment, NeedsWorkbook
<1>2. NodesTold /\ PortsTold /\ HostsTold /\ SegmentTold /\ WorkbookTold
  BY DEF Told
<1>3. NodesTold'
  BY <1>1, <1>2 DEF NodesTold
<1>4. PortsTold'
  BY <1>1, <1>2 DEF PortsTold, Declared
<1>5. HostsTold' /\ SegmentTold' /\ WorkbookTold'
  BY <1>1, <1>2 DEF HostsTold, SegmentTold, WorkbookTold
<1> QED
  BY <1>3, <1>4, <1>5 DEF Told

\* So was a write to the segment, or to the workbook.
LEMMA ToldOthers ==
  ASSUME Told, forecast' = forecast,
         \/ /\ run'.changed = run.changed \cup {<<"segment", "segment">>}
            /\ <<"segment", "segment">> \in forecast
            /\ cloud'.workbook = cloud.workbook
         \/ /\ run'.changed = run.changed \cup {<<"workbook", "workbook">>}
            /\ <<"workbook", "workbook">> \in forecast
            /\ cloud'.segment = cloud.segment,
         cloud'.node = cloud.node, cloud'.provision = cloud.provision,
         cloud'.owner = cloud.owner, cloud'.network = cloud.network,
         cloud'.host = cloud.host, cloud'.maintenance = cloud.maintenance
  PROVE  Told'
<1>1. /\ \A n \in Nodes : NeedsNode(n)' <=> NeedsNode(n)
      /\ \A m \in Macs : NeedsPort(m)' <=> NeedsPort(m)
      /\ \A n \in Nodes : NeedsHost(n)' <=> NeedsHost(n)
      /\ cloud'.segment = cloud.segment => (NeedsSegment' <=> NeedsSegment)
      /\ cloud'.workbook = cloud.workbook => (NeedsWorkbook' <=> NeedsWorkbook)
  BY DEF NeedsNode, NeedsPort, NeedsHost, HostReady, NeedsSegment, NeedsWorkbook
<1>2. NodesTold /\ PortsTold /\ HostsTold /\ SegmentTold /\ WorkbookTold
  BY DEF Told
<1>3. NodesTold'
  BY <1>1, <1>2 DEF NodesTold
<1>4. PortsTold'
  BY <1>1, <1>2 DEF PortsTold, Declared
<1>5. HostsTold' /\ SegmentTold' /\ WorkbookTold'
  BY <1>1, <1>2 DEF HostsTold, SegmentTold, WorkbookTold
<1> QED
  BY <1>3, <1>4, <1>5 DEF Told

\* A step on the node at hand, or one that chooses or leaves it, passes no other.
LEMMA PassedKept ==
  ASSUME MaskedTold, run.changed \subseteq run'.changed,
         NEW a \in Nodes,
         \A k \in Nodes : cloud'.provision[k] = "verifying" =>
           cloud.provision[k] = "verifying" \/ <<k, "node">> \in run'.changed,
         \A k \in Nodes : Passed(k)' => Passed(k) \/ k = a,
         a \in Masked /\ Passed(a)' /\ ~Passed(a) => <<a, "node">> \in run'.changed
  PROVE  MaskedTold'
BY RoleAssumption DEF MaskedTold
\* The steps on a node that write nothing, in a run that follows a check run.
LEMMA RealLooks ==
  ASSUME RoleTypeOK, AtInv, StandsInv, ~run.check, Told, MaskedTold,
         \/ \E n \in Nodes : ListedNode(n)
         \/ Preflighted \/ AwaitedNode \/ ListedPorts \/ DoneNode \/ DoneNodes
  PROVE  Told' /\ MaskedTold'
<1> USE DEF NodeStages
<1>1. UNCHANGED cloud /\ run'.changed = run.changed /\ forecast' = forecast
  BY DEF ListedNode, Preflighted, AwaitedNode, ListedPorts, DoneNode, DoneNodes,
         Looked
<1>2. Told'
  BY <1>1, ToldKept DEF SameCloud
<1>3. \A k \in Nodes : Passed(k)' => Passed(k)
  <2>1. CASE \E n \in Nodes : ListedNode(n)
    <3>1. PICK n \in Nodes : ListedNode(n)
      BY <2>1
    <3>2. /\ run.stage = "node" /\ n \in run.todo
          /\ run'.stage = "preflight" /\ run'.at = n /\ run'.todo = run.todo \ {n}
      BY <3>1 DEF ListedNode, Comes
    <3> QED
      BY <3>2 DEF Passed, Left, At, NodeLoop
  <2>2. CASE Preflighted \/ AwaitedNode \/ ListedPorts
    <3>1. /\ run'.at = run.at /\ run'.todo = run.todo
          /\ run.stage \in NodeStages /\ run'.stage \in NodeStages
          /\ \/ run'.stage \in {"create", "update"}
             \/ run.stage \in {"verify", "ports"}
      BY <2>2 DEF Preflighted, AwaitedNode, ListedPorts, Comes
    <3> QED
      BY <3>1 DEF Passed, Left, At, NodeLoop
  <2>3. CASE DoneNode \/ DoneNodes
    <3>1. /\ run'.todo = run.todo
          /\ \/ run.stage = "port" /\ run'.stage = "node"
             \/ run.stage = "node" /\ run'.stage = "segment" /\ run.todo = {}
      BY <2>3 DEF DoneNode, DoneNodes, Comes
    <3> QED
      BY <3>1 DEF Passed, Left, At, NodeLoop
  <2> QED
    BY <2>1, <2>2, <2>3
<1>4. MaskedTold'
  BY <1>1, <1>3, RoleAssumption DEF MaskedTold
<1> QED
  BY <1>2, <1>4

\* The writes to the node at hand.
LEMMA RealNodeWrites ==
  ASSUME RoleTypeOK, AtInv, StandsInv, ~run.check, SeenInv, Told, MaskedTold,
         CreatedNode \/ UpdatedNode \/ ManagedNode
  PROVE  Told' /\ MaskedTold'
<1> USE DEF NodeStages
<1>1. PICK n \in Nodes : n = run.at
  BY DEF AtInv, CreatedNode, UpdatedNode, ManagedNode
<1>2. cloud \in Clouds
  BY DEF RoleTypeOK
<1>3. /\ cloud.node \in [Nodes -> Records] /\ cloud.provision \in [Nodes -> Provision]
  BY <1>2, CloudFields
<1>4. /\ run'.at = run.at /\ run'.todo = run.todo
      /\ run.stage \in {"create", "update", "manage"} /\ run'.stage \in NodeStages
      /\ run.stage = "create" => run'.stage = "update"
      /\ run.stage = "manage" => run'.stage \in {"ports", "verify"}
  BY DEF CreatedNode, UpdatedNode, ManagedNode, Comes
<1>5. \A k \in Nodes : Passed(k)' => Passed(k) \/ (k = n /\ run.stage = "update")
  BY <1>1, <1>4 DEF Passed, Left, At, NodeLoop
<1> DEFINE Silent ==
             /\ UNCHANGED <<cloud, forecast>> /\ run'.changed = run.changed
             /\ run.stage = "update" => n \notin Masked
           Written ==
             /\ run'.changed = run.changed \cup {<<n, "node">>}
             /\ forecast' = forecast /\ NeedsNode(n)
             /\ \A k \in Nodes : k # n =>
                  /\ cloud'.node[k] = cloud.node[k]
                  /\ cloud'.provision[k] = cloud.provision[k]
             /\ cloud'.owner = cloud.owner /\ cloud'.network = cloud.network
             /\ cloud'.segment = cloud.segment /\ cloud'.host = cloud.host
             /\ cloud'.maintenance = cloud.maintenance
             /\ cloud'.workbook = cloud.workbook
<1>6. ASSUME CreatedNode PROVE Silent \/ Written
  <2>1. /\ run'.changed = run.changed \cup {<<n, "node">>} /\ forecast' = forecast
        /\ cloud.node[n] = "absent"
        /\ cloud' = [cloud EXCEPT !.node[n] = "declared", !.provision[n] = "enroll"]
    BY <1>1, <1>6 DEF CreatedNode, Wrote
  <2> QED
    BY <1>2, <1>3, <2>1 DEF Clouds, NeedsNode
<1>7. ASSUME UpdatedNode PROVE Silent \/ Written
  <2>1. CASE n \notin Masked /\ seen.node # "drifted"
    BY <1>1, <1>7, <2>1 DEF UpdatedNode, Looked
  <2>2. CASE n \in Masked \/ seen.node = "drifted"
    <3>1. /\ run'.changed = run.changed \cup {<<n, "node">>} /\ forecast' = forecast
          /\ cloud' = [cloud EXCEPT !.node[n] =
                         IF seen.node = "drifted" THEN "declared" ELSE @]
      BY <1>1, <1>7, <2>2 DEF UpdatedNode, Wrote
    <3>2. NeedsNode(n)
      BY <1>1, <1>7, <2>2 DEF UpdatedNode, SeenInv, NeedsNode
    <3> QED
      BY <1>2, <1>3, <3>1, <3>2 DEF Clouds
  <2> QED
    BY <2>1, <2>2
<1>8. ASSUME ManagedNode PROVE Silent \/ Written
  <2>1. CASE seen.provision # "enroll"
    BY <1>1, <1>8, <2>1 DEF ManagedNode, Looked
  <2>2. CASE seen.provision = "enroll"
    <3>1. /\ run'.changed = run.changed \cup {<<n, "node">>} /\ forecast' = forecast
          /\ cloud.provision[n] = "enroll"
          /\ cloud' = [cloud EXCEPT !.provision[n] = "verifying"]
      BY <1>1, <1>8, <2>2 DEF ManagedNode, Wrote
    <3> QED
      BY <1>2, <1>3, <3>1 DEF Clouds, NeedsNode
  <2> QED
    BY <2>1, <2>2
<1>9. CASE Silent
  <2>1. Told'
    BY <1>9, ToldKept DEF SameCloud
  <2>2. MaskedTold'
    BY <1>5, <1>9, RoleAssumption DEF MaskedTold
  <2> QED
    BY <2>1, <2>2
<1>10. CASE Written
  <2>1. <<n, "node">> \in forecast
    BY <1>10 DEF Told, NodesTold
  <2>2. Told'
    BY <1>10, <2>1, ToldNode
  <2>3. MaskedTold'
    BY <1>5, <1>10, RoleAssumption DEF MaskedTold
  <2> QED
    BY <2>2, <2>3
<1> QED
  BY <1>6, <1>7, <1>8, <1>9, <1>10

\* The steps on the ports of the node at hand.
LEMMA RealPorts ==
  ASSUME RoleTypeOK, AtInv, StandsInv, ~run.check, SeenInv, Told, MaskedTold,
         NEW m \in Macs, DidPort(m)
  PROVE  Told' /\ MaskedTold'
<1> USE DEF NodeStages
<1>1. PICK n \in Nodes : n = run.at
  BY DEF AtInv, DidPort
<1>2. cloud \in Clouds
  BY DEF RoleTypeOK
<1>3. /\ cloud.owner \in [Macs -> Owners]
      /\ cloud.network \in [Macs -> {"drifted", "declared"}]
  BY <1>2, CloudFields
<1>4. /\ run'.at = run.at /\ run'.todo = run.todo
      /\ run.stage = "port" /\ run'.stage = "port" /\ m \in run.ports
  BY DEF DidPort, Comes
<1>5. m \in PortsOf[n] /\ Declared(m)
  BY <1>1, <1>4 DEF StandsInv, Declared
<1>6. seen.owner[m] = cloud.owner[m] /\ seen.network[m] = cloud.network[m]
  BY <1>1, <1>4, <1>5 DEF SeenInv
<1>7. \A k \in Nodes : Passed(k)' => Passed(k)
  BY <1>4 DEF Passed, Left, At, NodeLoop
<1>8. CASE Looked(seen)
  <2>1. UNCHANGED cloud /\ run'.changed = run.changed /\ forecast' = forecast
    BY <1>8 DEF Looked
  <2>2. Told'
    BY <2>1, ToldKept DEF SameCloud
  <2>3. MaskedTold'
    BY <1>7, <2>1, RoleAssumption DEF MaskedTold
  <2> QED
    BY <2>2, <2>3
<1>9. CASE ~Looked(seen)
  <2>1. /\ run'.changed = run.changed \cup {<<m, "port">>} /\ forecast' = forecast
        /\ \/ /\ seen.owner[m] = NoOne
              /\ cloud' = [cloud EXCEPT !.owner[m] = run.at,
                                        !.network[m] = "declared"]
           \/ /\ seen.network[m] = "drifted"
              /\ cloud' = [cloud EXCEPT !.network[m] = "declared"]
    BY <1>9 DEF DidPort, Wrote
  <2>2. /\ \A k \in Macs : k # m => /\ cloud'.owner[k] = cloud.owner[k]
                                    /\ cloud'.network[k] = cloud.network[k]
        /\ cloud'.node = cloud.node /\ cloud'.provision = cloud.provision
        /\ cloud'.segment = cloud.segment /\ cloud'.host = cloud.host
        /\ cloud'.maintenance = cloud.maintenance
        /\ cloud'.workbook = cloud.workbook
    <3>1. CASE cloud' = [cloud EXCEPT !.owner[m] = run.at,
                                      !.network[m] = "declared"]
      BY <1>2, <1>3, <3>1 DEF Clouds
    <3>2. CASE cloud' = [cloud EXCEPT !.network[m] = "declared"]
      BY <1>2, <1>3, <3>2 DEF Clouds
    <3> QED
      BY <2>1, <3>1, <3>2
  <2>3. NeedsPort(m)
    BY <1>6, <2>1 DEF NeedsPort
  <2>4. <<m, "port">> \in forecast
    BY <1>5, <2>3 DEF Told, PortsTold
  <2>5. Told'
    BY <2>1, <2>2, <2>4, ToldPort
  <2>6. MaskedTold'
    BY <1>7, <2>1, <2>2, RoleAssumption DEF MaskedTold
  <2> QED
    BY <2>5, <2>6
<1> QED
  BY <1>8, <1>9
\* The steps after the loop, in a run that follows a check run.
LEMMA RealLater ==
  ASSUME RoleTypeOK, ~run.check, ProgressInv, Told, MaskedTold, LaterStep
  PROVE  Told' /\ MaskedTold'
<1>1. cloud \in Clouds
  BY DEF RoleTypeOK
<1>2. /\ run.stage \notin NodeLoop /\ run'.stage \notin NodeLoop
      /\ cloud'.provision = cloud.provision
  <2>1. /\ run.stage \in AfterNodes /\ run'.stage \in AfterNodes \cup {"idle"}
    BY DEF LaterStep, ListedSegment, DidSegment, ListedHosts, DidHost, DoneHosts,
           Populated, ListedWorkbook, DidWorkbook, Summarised, Comes,
           AfterNodes, AfterSegment, AfterHosts, AfterPopulate
  <2> QED
    BY <2>1, LoopStages, LaterWrites
<1>3. ASSUME run.changed \subseteq run'.changed
      PROVE  MaskedTold'
  <2>1. \A n \in Nodes : Passed(n)
    BY <1>2, LoopStages DEF Passed, Left, At
  <2> QED
    BY <1>2, <1>3, <2>1, RoleAssumption DEF MaskedTold
<1>4. LaterInv
  BY DEF ProgressInv
<1>5. CASE ListedSegment \/ ListedHosts \/ DoneHosts \/ Populated
           \/ ListedWorkbook \/ Summarised
  <2>1. run'.changed = run.changed /\ forecast' = forecast
    BY <1>5 DEF ListedSegment, ListedHosts, DoneHosts, Populated, ListedWorkbook,
                Summarised, Looked
  <2>2. SameCloud
    <3>1. CASE Populated
      BY <1>1, <3>1 DEF Populated, SameCloud, Clouds
    <3>2. CASE ~Populated
      <4>1. UNCHANGED cloud
        BY <1>5, <3>2 DEF ListedSegment, ListedHosts, DoneHosts, ListedWorkbook,
                          Summarised, Looked
      <4> QED
        BY <4>1 DEF SameCloud
    <3> QED
      BY <3>1, <3>2
  <2> QED
    BY <1>3, <2>1, <2>2, ToldKept
<1>6. CASE DidSegment
  <2>1. seen.segment = cloud.segment
    BY <1>4, <1>6 DEF DidSegment, LaterInv
  <2>2. CASE Looked(NoSnapshot)
    BY <1>3, <2>2, ToldKept DEF Looked, SameCloud
  <2>3. CASE ~Looked(NoSnapshot)
    <3>1. /\ run'.changed = run.changed \cup {<<"segment", "segment">>}
          /\ forecast' = forecast /\ seen.segment # "declared"
          /\ cloud' = [cloud EXCEPT !.segment = "declared"]
      BY <1>6, <2>3 DEF DidSegment, Wrote
    <3>2. /\ cloud'.node = cloud.node /\ cloud'.provision = cloud.provision
          /\ cloud'.owner = cloud.owner /\ cloud'.network = cloud.network
          /\ cloud'.host = cloud.host /\ cloud'.maintenance = cloud.maintenance
          /\ cloud'.workbook = cloud.workbook
      BY <1>1, <3>1 DEF Clouds
    <3>3. <<"segment", "segment">> \in forecast
      BY <2>1, <3>1 DEF Told, SegmentTold, NeedsSegment
    <3>4. Told'
      BY <3>1, <3>2, <3>3, ToldOthers
    <3> QED
      BY <1>3, <3>1, <3>4
  <2> QED
    BY <2>2, <2>3
<1>7. CASE DidWorkbook
  <2>1. seen.workbook = cloud.workbook
    BY <1>4, <1>7 DEF DidWorkbook, LaterInv
  <2>2. CASE Looked(NoSnapshot)
    BY <1>3, <2>2, ToldKept DEF Looked, SameCloud
  <2>3. CASE ~Looked(NoSnapshot)
    <3>1. /\ run'.changed = run.changed \cup {<<"workbook", "workbook">>}
          /\ forecast' = forecast /\ seen.workbook # "declared"
          /\ cloud' = [cloud EXCEPT !.workbook = "declared"]
      BY <1>7, <2>3 DEF DidWorkbook, Wrote
    <3>2. /\ cloud'.node = cloud.node /\ cloud'.provision = cloud.provision
          /\ cloud'.owner = cloud.owner /\ cloud'.network = cloud.network
          /\ cloud'.host = cloud.host /\ cloud'.maintenance = cloud.maintenance
          /\ cloud'.segment = cloud.segment
      BY <1>1, <3>1 DEF Clouds
    <3>3. <<"workbook", "workbook">> \in forecast
      BY <2>1, <3>1 DEF Told, WorkbookTold, NeedsWorkbook
    <3>4. Told'
      BY <3>1, <3>2, <3>3, ToldOthers
    <3> QED
      BY <1>3, <3>1, <3>4
  <2> QED
    BY <2>2, <2>3
<1>8. CASE \E n \in Nodes : DidHost(n)
  <2>1. PICK n \in Nodes : DidHost(n)
    BY <1>8
  <2>2. seen.host[n] = cloud.host[n] /\ seen.maintenance[n] = cloud.maintenance[n]
    BY <1>4, <2>1 DEF DidHost, LaterInv
  <2>3. CASE Looked(seen)
    BY <1>3, <2>3, ToldKept DEF Looked, SameCloud
  <2>4. CASE ~Looked(seen)
    <3>1. /\ run'.changed = run.changed \cup {<<n, "host">>}
          /\ forecast' = forecast
          /\ seen.host[n] # "declared" \/ Moved(n)
      BY <2>1, <2>4 DEF DidHost, Wrote
    <3>2. NeedsHost(n)
      <4>1. cloud.maintenance[n] \in BOOLEAN
        BY <1>1, CloudFields
      <4>2. Moved(n) <=> ~(cloud.maintenance[n] <=> n \in Maintained)
        BY <2>2, <4>1 DEF Moved
      <4> QED
        BY <2>2, <3>1, <4>2 DEF NeedsHost, HostReady
    <3>3. <<n, "host">> \in forecast
      BY <3>2 DEF Told, HostsTold
    <3>4. cloud'.workbook = cloud.workbook
      BY <1>1, <2>1, <2>4 DEF DidHost, Wrote, Clouds
    <3>5. Told'
      BY <2>1, <3>1, <3>3, <3>4, HostWritten, ToldHost
    <3> QED
      BY <1>3, <3>1, <3>5
  <2> QED
    BY <2>3, <2>4
<1> QED
  BY <1>5, <1>6, <1>7, <1>8 DEF LaterStep

\* The run that follows a check run starts with everything announced to do.
LEMMA RealStarts ==
  ASSUME StandsInv, CheckInv, Started, forecast' # NoForecast
  PROVE  Told' /\ MaskedTold'
<1>1. /\ run.check /\ forecast' = forecast /\ forecast # NoForecast
      /\ run.stage = "idle" /\ UNCHANGED cloud /\ run'.changed = {}
      /\ run'.stage = "node" /\ run'.todo = Nodes
  BY DEF Started
<1>2. run.result = "ok" /\ forecast = run.changed /\ quiet
  BY <1>1 DEF StandsInv
<1>3. CheckSettled /\ Said
  BY <1>1, <1>2 DEF CheckInv
<1>4. \A n \in Nodes : ~Left(n) /\ ~At(n)
  BY <1>1 DEF Left, At, NodeLoop, NodeStages
<1>5. SameCloud
  BY <1>1 DEF SameCloud
<1>6. /\ \A n \in Nodes : NeedsNode(n)' <=> NeedsNode(n)
      /\ \A m \in Macs : NeedsPort(m)' <=> NeedsPort(m)
      /\ \A n \in Nodes : NeedsHost(n)' <=> NeedsHost(n)
      /\ NeedsSegment' <=> NeedsSegment
      /\ NeedsWorkbook' <=> NeedsWorkbook
  BY <1>5, NeedsKept
<1>7. NodesTold'
  <2>1. \A n \in Nodes : <<n, "node">> \in run.changed <=> NeedsNode(n)
    BY <1>3, <1>4 DEF Said, NodesSaid, NodeSaid
  <2> QED
    BY <1>1, <1>2, <1>6, <2>1 DEF NodesTold
<1>8. PortsTold'
  <2>1. \A m \in Macs : PortSaid(m) <=> NeedsPort(m) /\ Declared(m)
    BY <1>4 DEF PortSaid, PortDealt, Declared
  <2>2. \A m \in Macs :
          <<m, "port">> \in run.changed <=> NeedsPort(m) /\ Declared(m)
    BY <1>3, <2>1 DEF Said, PortsSaid
  <2> QED
    BY <1>1, <1>2, <1>6, <2>2 DEF PortsTold, Declared
<1>9. HostsTold' /\ SegmentTold' /\ WorkbookTold'
  <2>1. /\ \A n \in Nodes : <<n, "host">> \in run.changed <=> NeedsHost(n)
        /\ <<"segment", "segment">> \in run.changed <=> NeedsSegment
        /\ <<"workbook", "workbook">> \in run.changed <=> NeedsWorkbook
    BY <1>1, <1>2, <1>3 DEF Said, HostsSaid, HostSaid, SegmentSaid, WorkbookSaid,
                            Past
  <2> QED
    BY <1>1, <1>2, <1>6, <2>1 DEF HostsTold, SegmentTold, WorkbookTold
<1>10. MaskedTold'
  <2>1. \A n \in Nodes : ~Passed(n)'
    BY <1>1 DEF Passed, Left, NodeLoop
  <2>2. \A n \in Nodes : cloud'.provision[n] # "verifying"
    BY <1>1, <1>3, <1>4 DEF CheckSettled, Settled
  <2> QED
    BY <2>1, <2>2, RoleAssumption DEF MaskedTold
<1> QED
  BY <1>7, <1>8, <1>9, <1>10 DEF Told

\* What the run that follows a check run changes was announced, whatever step
\* comes.
LEMMA RealStep ==
  ASSUME RoleInv, ForecastInv, Next
  PROVE  RealInv'
<1>1. RoleTypeOK /\ AtInv /\ StandsInv /\ CheckInv /\ RealInv
  BY DEF RoleInv, ForecastInv
<1>2. SUFFICES ASSUME forecast' # NoForecast, ~run'.check, run'.result # "failed"
               PROVE  Told' /\ MaskedTold'
  BY DEF RealInv
<1>3. ASSUME forecast # NoForecast, ~run.check, run.result # "failed"
      PROVE  Told /\ MaskedTold /\ ProgressInv
  BY <1>1, <1>3 DEF RealInv, StandsInv, RoleInv
<1>4. CASE NodeStep
  <2>1. ~run.check /\ run.result # "failed"
    BY <1>1, <1>2, <1>4, RunKept, ResultKept
  <2>2. forecast' = forecast
    BY <1>4 DEF NodeStep, ListedNode, Preflighted, CreatedNode, UpdatedNode,
                ManagedNode, AwaitedNode, ListedPorts, DidPort, DoneNode,
                DoneNodes, Wrote, Looked
  <2>3. Told /\ MaskedTold /\ SeenInv
    BY <1>2, <1>3, <2>1, <2>2 DEF ProgressInv
  <2>4. CASE \/ \E n \in Nodes : ListedNode(n)
             \/ Preflighted \/ AwaitedNode \/ ListedPorts \/ DoneNode \/ DoneNodes
    BY <1>1, <2>1, <2>3, <2>4, RealLooks
  <2>5. CASE CreatedNode \/ UpdatedNode \/ ManagedNode
    BY <1>1, <2>1, <2>3, <2>5, RealNodeWrites
  <2>6. CASE \E m \in Macs : DidPort(m)
    BY <1>1, <2>1, <2>3, <2>6, RealPorts
  <2> QED
    BY <1>4, <2>4, <2>5, <2>6, Zenon DEF NodeStep
<1>5. CASE LaterStep
  <2>1. ~run.check /\ run.result # "failed"
    BY <1>1, <1>2, <1>5, RunKept, ResultKept
  <2>2. forecast' = forecast
    BY <1>5, <2>1 DEF LaterStep, ListedSegment, DidSegment, ListedHosts, DidHost,
                DoneHosts, Populated, ListedWorkbook, DidWorkbook, Summarised,
                Wrote, Looked
  <2> QED
    BY <1>1, <1>2, <1>3, <1>5, <2>1, <2>2, RealLater
<1>6. CASE Failed \/ OthersWrote
  BY <1>2, <1>6 DEF Failed, OthersWrote
<1>7. CASE Started
  BY <1>1, <1>2, <1>7, RealStarts
<1>8. CASE \E n \in Nodes : Verified(n)
  <2>1. PICK n \in Nodes : Verified(n)
    BY <1>8
  <2>2. UNCHANGED <<run, forecast>>
    BY <2>1 DEF Verified
  <2>3. Told /\ MaskedTold
    BY <1>2, <1>3, <2>2
  <2>4. cloud \in Clouds
    BY <1>1 DEF RoleTypeOK
  <2>5. PICK p \in {"manageable", "enroll"} :
          cloud' = [cloud EXCEPT !.provision[n] = p]
    BY <2>1 DEF Verified
  <2>6. /\ \A k \in Nodes : k # n => cloud'.provision[k] = cloud.provision[k]
        /\ cloud'.provision[n] # "verifying"
        /\ cloud'.node = cloud.node
        /\ cloud'.owner = cloud.owner /\ cloud'.network = cloud.network
        /\ cloud'.segment = cloud.segment /\ cloud'.host = cloud.host
        /\ cloud'.maintenance = cloud.maintenance
        /\ cloud'.workbook = cloud.workbook
    BY <2>4, <2>5, CloudFields DEF Clouds
  <2>7. <<n, "node">> \in run.changed
    BY <2>1, <2>3 DEF Verified, MaskedTold
  <2>8. <<n, "node">> \in forecast /\ run'.changed = run.changed \cup {<<n, "node">>}
    BY <2>2, <2>3, <2>7 DEF Told, NodesTold
  <2>9. Told'
    BY <2>2, <2>3, <2>6, <2>8, ToldNode
  <2>10. \A k \in Nodes : Passed(k)' => Passed(k)
    BY <2>2 DEF Passed, Left, At
  <2>11. MaskedTold'
    BY <2>2, <2>3, <2>6, <2>10, RoleAssumption DEF MaskedTold
  <2> QED
    BY <2>9, <2>11
<1> QED
  BY <1>1, <1>4, <1>5, <1>6, <1>7, <1>8, StepsMean, Zenon
\* A run that follows a check run and comes to its summary has changed what was
\* announced: what needed no change was left alone, and nothing needs one now.
LEMMA RealEnds ==
  ASSUME RoleInv, StandsInv, RealInv,
         forecast # NoForecast, ~run.check, run.stage = "validate"
  PROVE  forecast = run.changed
<1>1. RoleTypeOK /\ quiet /\ ProgressInv /\ run.result # "failed"
  BY DEF RoleInv, StandsInv, AfterNodes, AfterSegment, AfterHosts, AfterPopulate
<1>2. Told /\ MaskedTold
  BY <1>1 DEF RealInv
<1>3. /\ \A n \in Nodes : NodeReady(n) /\ HostReady(n)
      /\ cloud.segment = "declared" /\ cloud.workbook = "declared"
  BY <1>1 DEF ProgressInv, LaterInv, Past, AfterNodes, AfterSegment, AfterHosts,
              AfterPopulate
<1>4. SameNodes(run.changed, forecast)
  <2>1. \A n \in Nodes : Passed(n)
    BY DEF Passed, Left, At, NodeLoop, NodeStages
  <2>2. \A n \in Nodes : NeedsNode(n) => <<n, "node">> \in run.changed
    BY <1>2, <1>3, <2>1 DEF NeedsNode, NodeReady, MaskedTold
  <2> QED
    BY <1>2, <2>2 DEF Told, NodesTold, SameNodes
<1>5. SamePorts(run.changed, forecast)
  <2>1. \A m \in Macs : ~(NeedsPort(m) /\ Declared(m))
    BY <1>3, RoleAssumption DEF NeedsPort, Declared, NodeReady
  <2> QED
    BY <1>2, <2>1 DEF Told, PortsTold, SamePorts
<1>6. /\ SameHosts(run.changed, forecast) /\ SameSegment(run.changed, forecast)
      /\ SameWorkbook(run.changed, forecast)
  BY <1>2, <1>3 DEF Told, HostsTold, SegmentTold, WorkbookTold, NeedsHost,
                    NeedsSegment, NeedsWorkbook, SameHosts, SameSegment,
                    SameWorkbook
<1>7. run.changed \in SUBSET Items /\ forecast \in SUBSET Items
  BY <1>1 DEF RoleTypeOK, StandsInv
<1> QED
  BY <1>4, <1>5, <1>6, <1>7, ItemsEqual

\* A forecast stands, whatever step comes.
LEMMA StandsStep ==
  ASSUME RoleInv, ForecastInv, Next
  PROVE  StandsInv'
<1>1. /\ RoleTypeOK /\ RoleTypeOK' /\ AtInv /\ StandsInv /\ RealInv
  BY StepsMean DEF RoleInv, ForecastInv
<1>2. run.changed \subseteq Items
  BY <1>1 DEF RoleTypeOK
<1>3. CASE NodeStep
  <2>1. forecast' = forecast /\ quiet' = quiet
    BY <1>3 DEF NodeStep, ListedNode, Preflighted, CreatedNode, UpdatedNode,
                ManagedNode, AwaitedNode, ListedPorts, DidPort, DoneNode,
                DoneNodes, Wrote, Looked
  <2>2. run'.stage \in NodeLoop \cup {"segment"}
    BY <1>1, <1>3, NodeStepLeaves
  <2>3. run'.stage \in AfterNodes => run'.result # "failed"
    <3>1. CASE DoneNodes
      BY <3>1 DEF DoneNodes, Comes
    <3>2. CASE ~DoneNodes
      <4>1. run'.stage \in NodeLoop
        BY <1>3, <3>2 DEF NodeStep, ListedNode, Preflighted, CreatedNode,
                          UpdatedNode, ManagedNode, AwaitedNode, ListedPorts,
                          DidPort, DoneNode, Comes, NodeLoop, NodeStages
      <4> QED
        BY <4>1, LoopStages
    <3> QED
      BY <3>1, <3>2
  <2>4. /\ run'.stage \in NodeStages => run'.at \notin run'.todo
        /\ run'.stage = "port" => run'.ports \subseteq PortsOf[run'.at]
    <3>1. CASE \E n \in Nodes : ListedNode(n)
      BY <3>1 DEF ListedNode, Comes
    <3>2. CASE Preflighted \/ CreatedNode \/ UpdatedNode \/ ManagedNode
               \/ AwaitedNode
      <4>1. /\ run.stage \in NodeStages /\ run'.stage # "port"
            /\ run'.todo = run.todo
            /\ run'.at = run.at \/ run'.stage = "node"
        BY <3>2 DEF Preflighted, CreatedNode, UpdatedNode, ManagedNode,
                    AwaitedNode, Comes, NodeStages
      <4> QED
        BY <1>1, <4>1 DEF StandsInv, NodeStages
    <3>3. CASE ListedPorts \/ \E m \in Macs : DidPort(m)
      <4>1. /\ run.stage \in NodeStages
            /\ run'.at = run.at /\ run'.todo = run.todo
            /\ run'.ports = PortsOf[run.at]
               \/ (run.stage = "port" /\ run'.ports \subseteq run.ports)
        BY <3>3 DEF ListedPorts, DidPort, Comes, NodeStages
      <4> QED
        BY <1>1, <4>1 DEF StandsInv
    <3>4. CASE DoneNode \/ DoneNodes
      BY <3>4 DEF DoneNode, DoneNodes, Comes, NodeStages
    <3> QED
      BY <1>3, <3>1, <3>2, <3>3, <3>4 DEF NodeStep
  <2>5. run'.stage # "idle"
    BY <2>2 DEF NodeLoop, NodeStages
  <2> QED
    BY <1>1, <2>1, <2>3, <2>4, <2>5 DEF StandsInv
<1>4. CASE LaterStep
  <2>1. /\ run.stage \in AfterNodes /\ run'.stage \in AfterNodes \cup {"idle"}
        /\ run'.result = run.result \/ run'.result = "ok"
        /\ quiet' = quiet
        /\ run'.stage = "idle" => Summarised
    BY <1>4 DEF LaterStep, ListedSegment, DidSegment, ListedHosts, DidHost,
                DoneHosts, Populated, ListedWorkbook, DidWorkbook, Summarised,
                Comes, Wrote, Looked, AfterNodes, AfterSegment, AfterHosts,
                AfterPopulate
  <2>2. run'.stage \notin NodeStages /\ run'.stage # "port"
    BY <2>1, LoopStages DEF NodeStages
  <2>3. run'.stage \in AfterNodes => run'.result # "failed"
    BY <1>1, <2>1 DEF StandsInv
  <2>4. CASE Summarised
    <3>1. /\ run'.changed = run.changed /\ run'.result = "ok"
          /\ run.stage = "validate"
          /\ forecast' = IF run.check /\ quiet THEN run.changed ELSE forecast
      BY <2>4 DEF Summarised
    <3>2. forecast' # NoForecast => quiet /\ forecast' = run.changed
      BY <1>1, <3>1, RealEnds DEF StandsInv
    <3> QED
      BY <1>2, <2>1, <2>2, <2>3, <3>1, <3>2 DEF StandsInv
  <2>5. CASE ~Summarised
    <3>1. forecast' = forecast
      BY <1>4, <2>5 DEF LaterStep, ListedSegment, DidSegment, ListedHosts, DidHost,
                DoneHosts, Populated, ListedWorkbook, DidWorkbook, Wrote, Looked
    <3> QED
      BY <1>1, <2>1, <2>2, <2>3, <2>5, <3>1 DEF StandsInv
  <2> QED
    BY <2>4, <2>5
<1>5. CASE Failed
  <2>1. /\ run'.stage \in {"node", "idle"}
        /\ quiet' = quiet
        /\ run'.stage = "node" => forecast' = forecast
        /\ run'.stage = "idle" => forecast' = NoForecast
    BY <1>5 DEF Failed
  <2>2. run'.stage \notin NodeStages /\ run'.stage # "port"
        /\ run'.stage \notin AfterNodes
    BY <2>1 DEF NodeStages, AfterNodes, AfterSegment, AfterHosts, AfterPopulate
  <2> QED
    BY <1>1, <2>1, <2>2 DEF StandsInv
<1>6. CASE Started
  <2>1. /\ run'.stage = "node" /\ quiet'
        /\ forecast' = forecast \/ forecast' = NoForecast
    BY <1>6 DEF Started
  <2>2. run'.stage \notin NodeStages /\ run'.stage \notin AfterNodes
    BY <2>1 DEF NodeStages, AfterNodes, AfterSegment, AfterHosts, AfterPopulate
  <2> QED
    BY <1>1, <2>1, <2>2 DEF StandsInv
<1>7. CASE (\E n \in Nodes : Verified(n)) \/ OthersWrote
  <2>1. /\ UNCHANGED run
        /\ \/ UNCHANGED <<quiet, forecast>>
           \/ forecast' = NoForecast
    BY <1>7 DEF Verified, OthersWrote
  <2> QED
    BY <1>1, <2>1 DEF StandsInv
<1> QED
  BY <1>1, <1>3, <1>4, <1>5, <1>6, <1>7, StepsMean, Zenon

-----------------------------------------------------------------------------
(***************************************************************************)
(* The forecast.                                                           *)
(***************************************************************************)

\* The role starts without a forecast.
LEMMA ForecastInit ==
  ASSUME Init
  PROVE  ForecastInv
<1>1. /\ run.stage = "idle" /\ run.result = "none" /\ ~run.check
      /\ forecast = NoForecast
      /\ \A n \in Nodes : cloud.host[n] = "absent"
  BY DEF Init, Idle, Fresh
<1> QED
  BY <1>1 DEF ForecastInv, StandsInv, SegmentInv, CheckInv, RealInv, NodeStages,
              AfterNodes, AfterSegment, AfterHosts, AfterPopulate

\* The invariant of the forecast is inductive, on top of that of the run.
LEMMA ForecastStep ==
  ASSUME RoleInv, ForecastInv, [Next]_vars
  PROVE  ForecastInv'
<1>1. CASE Next
  BY <1>1, StandsStep, SegmentStep, CheckStep, RealStep DEF ForecastInv
<1>2. CASE UNCHANGED vars
  BY <1>2 DEF vars, ForecastInv, StandsInv, SegmentInv, CheckInv, RealInv,
       CheckNode, CheckSettled, CheckLater, Said, NodesSaid, PortsSaid, HostsSaid,
       SegmentSaid, WorkbookSaid, NodeSaid, PortSaid, PortDealt, HostSaid, Settled,
       Left, At, Past, NeedsNode, NeedsPort, NeedsHost, NeedsSegment, NeedsWorkbook,
       HostReady, Told, NodesTold, PortsTold, HostsTold, SegmentTold, WorkbookTold,
       Declared, MaskedTold, Passed
<1> QED
  BY <1>1, <1>2

\* A check run announces exactly the nodes, ports, hosts, segment and workbook
\* that the run after it changes, unless somebody else writes in between or one of
\* the two runs fails.
THEOREM CheckRunForecasts == Spec => []ForecastHolds
<1>1. Init => ForecastInv
  BY ForecastInit
<1>2. RoleInv /\ ForecastInv /\ [Next]_vars => ForecastInv'
  BY ForecastStep
<1>3. ForecastInv => ForecastHolds
  BY DEF ForecastInv, StandsInv, ForecastHolds, Succeeded
<1> QED
  BY <1>1, <1>2, <1>3, RoleInvariant, PTL DEF Spec
=============================================================================
