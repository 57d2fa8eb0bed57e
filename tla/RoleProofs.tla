------------------------------ MODULE RoleProofs ------------------------------
(***************************************************************************)
(* Proofs about the powerops role, for any declared nodes and ports, any   *)
(* number of runs and any pattern of failures, interruptions and foreign   *)
(* changes.                                                                *)
(***************************************************************************)
EXTENDS PowerOpsRole, TLAPS

-----------------------------------------------------------------------------
(***************************************************************************)
(* Types.                                                                  *)
(***************************************************************************)

Runs == [stage : Stages, at : Nodes \cup {NoOne}, todo : SUBSET Nodes,
         ports : SUBSET Macs, check : BOOLEAN, changed : SUBSET Items,
         result : {"none", "ok", "failed"}]

\* A run that goes to another stage is a run.
LEMMA GoToTypes ==
  ASSUME run \in Runs, NEW s \in Stages
  PROVE  GoTo(s) \in Runs
BY DEF GoTo, Runs

\* The fields of the record of the services.
LEMMA CloudFields ==
  ASSUME cloud \in Clouds
  PROVE  /\ cloud.node \in [Nodes -> Records]
         /\ cloud.provision \in [Nodes -> Provision]
         /\ cloud.owner \in [Macs -> Owners]
         /\ cloud.network \in [Macs -> {"drifted", "declared"}]
         /\ cloud.segment \in Records \cup {"foreign"}
         /\ cloud.host \in [Nodes -> Records]
         /\ cloud.maintenance \in [Nodes -> BOOLEAN]
         /\ cloud.workbook \in Records
         /\ cloud.actions \in BOOLEAN
BY DEF Clouds

\* What the reconcilers read are snapshots.
LEMMA SnapshotTypes ==
  /\ \A r \in Records : [segment |-> r] \in Snapshots
  /\ \A r \in Records : [workbook |-> r] \in Snapshots
  /\ \A h \in [Nodes -> Records], k \in [Nodes -> BOOLEAN] :
       [host |-> h, maintenance |-> k] \in Snapshots
  /\ \A n \in Nodes : \A o \in [PortsOf[n] -> Owners],
                        w \in [PortsOf[n] -> {"drifted", "declared"}] :
       [owner |-> o, network |-> w] \in Snapshots
<1>1. \A r \in Records : [segment |-> r] \in [segment : Records]
  OBVIOUS
<1>2. \A r \in Records : [workbook |-> r] \in [workbook : Records]
  OBVIOUS
<1>3. ASSUME NEW h \in [Nodes -> Records], NEW k \in [Nodes -> BOOLEAN]
      PROVE  [host |-> h, maintenance |-> k]
               \in [host : [Nodes -> Records], maintenance : [Nodes -> BOOLEAN]]
  OBVIOUS
<1>4. ASSUME NEW n \in Nodes, NEW o \in [PortsOf[n] -> Owners],
             NEW w \in [PortsOf[n] -> {"drifted", "declared"}]
      PROVE  [owner |-> o, network |-> w]
               \in [owner : [PortsOf[n] -> Owners],
                    network : [PortsOf[n] -> {"drifted", "declared"}]]
  OBVIOUS
<1>5. /\ [segment : Records] \subseteq Snapshots
      /\ [workbook : Records] \subseteq Snapshots
      /\ [host : [Nodes -> Records], maintenance : [Nodes -> BOOLEAN]]
           \subseteq Snapshots
  BY Zenon DEF Snapshots
<1>6. ASSUME NEW n \in Nodes
      PROVE  [owner : [PortsOf[n] -> Owners],
              network : [PortsOf[n] -> {"drifted", "declared"}]]
               \subseteq Snapshots
  BY Zenon DEF Snapshots
<1>7. \A r \in Records : [segment |-> r] \in Snapshots
  BY <1>1, <1>5, Zenon
<1>8. \A r \in Records : [workbook |-> r] \in Snapshots
  BY <1>2, <1>5, Zenon
<1>9. \A h \in [Nodes -> Records], k \in [Nodes -> BOOLEAN] :
        [host |-> h, maintenance |-> k] \in Snapshots
  BY <1>3, <1>5, Zenon
<1>10. ASSUME NEW n \in Nodes, NEW o \in [PortsOf[n] -> Owners],
              NEW w \in [PortsOf[n] -> {"drifted", "declared"}]
       PROVE  [owner |-> o, network |-> w] \in Snapshots
  BY <1>4, <1>6, Zenon
<1> QED
  BY <1>7, <1>8, <1>9, <1>10, Zenon

\* A step of a run that changes nothing keeps the types.
LEMMA ProceedsTypes ==
  ASSUME RoleTypeOK, NEW next \in Runs, Proceeds(next)
  PROVE  RoleTypeOK'
BY DEF RoleTypeOK, Proceeds, OnlyRun, Runs

\* So does a read.
LEMMA ReadsTypes ==
  ASSUME RoleTypeOK, NEW next \in Runs, NEW snapshot \in Snapshots,
         Reads(next, snapshot)
  PROVE  RoleTypeOK'
BY DEF RoleTypeOK, Reads, OnlyRun, Runs

\* So does a node that fails.
LEMMA NodeFailsTypes ==
  ASSUME RoleTypeOK, NodeFails
  PROVE  RoleTypeOK'
<1>1. [run EXCEPT !.stage = "node", !.at = NoOne, !.ports = {},
                  !.result = "failed"] \in Runs
  BY DEF RoleTypeOK, Runs, Stages
<1>2. NoSnapshot \in Snapshots
  BY DEF Snapshots
<1> QED
  BY <1>1, <1>2, ReadsTypes DEF NodeFails

\* So does the end of the role.
LEMMA EndsTypes ==
  ASSUME RoleTypeOK, NEW r \in {"ok", "failed"}, Ends(r)
  PROVE  /\ run' \in Runs
         /\ seen' \in Snapshots
         /\ forecast' \subseteq Items \cup NoForecast
<1>1. run' \in Runs
  BY DEF RoleTypeOK, Ends, Idle, Runs, Stages
<1>2. seen' \in Snapshots
  BY DEF Ends, Snapshots
<1>3. forecast' \subseteq Items \cup NoForecast
  BY DEF RoleTypeOK, Ends
<1> QED
  BY <1>1, <1>2, <1>3

\* So does a task that fails.
LEMMA FailsTypes ==
  ASSUME RoleTypeOK, Fails
  PROVE  RoleTypeOK'
<1>1. CASE run.stage \in NodeStages
  BY <1>1, NodeFailsTypes DEF Fails
<1>2. CASE run.stage \notin NodeStages
  <2>1. Ends("failed") /\ UNCHANGED <<cloud, quiet, off, trouble>>
    BY <1>2 DEF Fails
  <2> QED
    BY <2>1, EndsTypes DEF RoleTypeOK, Runs
<1> QED
  BY <1>1, <1>2

\* So does a write, whether it is sent, announced or refused.
LEMMA WritesTypes ==
  ASSUME RoleTypeOK, NEW next \in Runs, NEW answer \in Snapshots,
         NEW item \in Items, NEW accepted, NEW after \in Clouds,
         Writes(next, answer, item, accepted, after)
  PROVE  RoleTypeOK'
<1>1. CASE /\ run' = [next EXCEPT !.changed = @ \cup {item}]
           /\ seen' = answer
           /\ cloud' = IF run.check THEN cloud ELSE after
           /\ UNCHANGED <<quiet, forecast, off, trouble>>
  <2>1. run' \in Runs
    BY <1>1 DEF Runs
  <2> QED
    BY <1>1, <2>1 DEF RoleTypeOK, Runs
<1> QED
  BY <1>1, FailsTypes DEF Writes

\* The steps of powerops_ironic_node keep the types.
LEMMA NodeStepTypes ==
  ASSUME RoleTypeOK,
         \/ \E n \in Nodes : ListNodes(n)
         \/ PreflightPortOwnership \/ CreateNode \/ UpdateNode \/ ManageNode
         \/ AwaitManageable \/ ListPorts \/ (\E m \in Macs : PutPort(m))
         \/ NodeDone \/ NodesDone,
         run.stage \in NodeStages => run.at \in Nodes
  PROVE  RoleTypeOK'
<1>1. run \in Runs /\ cloud \in Clouds /\ seen \in Snapshots
  BY DEF RoleTypeOK, Runs
<1>2. NoSnapshot \in Snapshots
  BY DEF Snapshots
<1>3. ASSUME NEW s \in Stages PROVE GoTo(s) \in Runs
  BY <1>1, <1>3, GoToTypes
<1>4. \A n \in Nodes : <<n, "node">> \in Items
  BY DEF Items
<1>5. ASSUME NEW n \in Nodes, ListNodes(n) PROVE RoleTypeOK'
  <2>1. [run EXCEPT !.stage = "preflight", !.at = n, !.todo = @ \ {n}] \in Runs
    BY <1>1 DEF Runs, Stages, NodeStages
  <2>2. [node |-> cloud.node[n], provision |-> cloud.provision[n]] \in Snapshots
    BY <1>1, CloudFields DEF Snapshots
  <2> QED
    BY <1>5, <2>1, <2>2, ReadsTypes DEF ListNodes
<1>6. CASE PreflightPortOwnership
  <2>1. run.at \in Nodes
    BY <1>6 DEF PreflightPortOwnership, NodeStages
  <2>2. Announced(run.at) \subseteq Items
    BY <2>1, RoleAssumption DEF Announced, Items
  <2>3. [run EXCEPT !.stage = "node", !.at = NoOne,
                    !.changed = @ \cup Announced(run.at)] \in Runs
    BY <1>1, <2>2 DEF Runs, Stages
  <2>4. GoTo("create") \in Runs /\ GoTo("update") \in Runs
    BY <1>3 DEF Stages, NodeStages
  <2> QED
    BY <1>2, <1>6, <2>3, <2>4, ReadsTypes, ProceedsTypes, NodeFailsTypes
       DEF PreflightPortOwnership
<1>7. CASE CreateNode
  <2> DEFINE n == run.at
             after == [cloud EXCEPT !.node[n] = "declared",
                                    !.provision[n] = Created]
             answer == [node |-> "declared", provision |-> Created]
  <2>1. n \in Nodes
    BY <1>7 DEF CreateNode, NodeStages
  <2>2. after \in Clouds
    BY <1>1, <2>1 DEF Clouds, Created, Records, Provision
  <2>3. answer \in Snapshots
    BY DEF Snapshots, Created, Records, Provision
  <2>4. GoTo("update") \in Runs
    BY <1>3 DEF Stages, NodeStages
  <2>5. Writes(GoTo("update"), answer, <<n, "node">>,
               cloud.node[n] = "absent", after)
    BY <1>7 DEF CreateNode
  <2> HIDE DEF after, answer, n
  <2> QED
    BY <1>4, <2>1, <2>2, <2>3, <2>4, <2>5, WritesTypes
<1>8. CASE UpdateNode
  <2> DEFINE n == run.at
             after == [cloud EXCEPT !.node[n] =
                         IF seen.node = "drifted" THEN "declared" ELSE @]
  <2>1. n \in Nodes
    BY <1>8 DEF UpdateNode, NodeStages
  <2>2. after \in Clouds
    BY <1>1, <2>1 DEF Clouds, Records
  <2>3. GoTo("manage") \in Runs
    BY <1>3 DEF Stages, NodeStages
  <2>4. \/ NodeFails
        \/ Writes(GoTo("manage"), seen, <<n, "node">>,
                  cloud.node[n] # "absent", after)
        \/ Proceeds(GoTo("manage"))
    BY <1>8 DEF UpdateNode
  <2> HIDE DEF after, n
  <2> QED
    BY <1>1, <1>4, <2>1, <2>2, <2>3, <2>4, WritesTypes, ProceedsTypes,
       NodeFailsTypes
<1>9. CASE ManageNode
  <2> DEFINE n == run.at
             after == [cloud EXCEPT !.provision[n] = "verifying"]
             next == GoTo(IF run.check THEN "ports" ELSE "verify")
  <2>1. n \in Nodes
    BY <1>9 DEF ManageNode, NodeStages
  <2>2. after \in Clouds
    BY <1>1, <2>1 DEF Clouds, Provision
  <2>3. next \in Runs /\ GoTo("ports") \in Runs
    BY <1>3 DEF Stages, NodeStages
  <2>4. \/ Writes(next, seen, <<n, "node">>, cloud.provision[n] = "enroll",
                  after)
        \/ Proceeds(GoTo("ports"))
    BY <1>9 DEF ManageNode
  <2> HIDE DEF after, n, next
  <2> QED
    BY <1>1, <1>4, <2>1, <2>2, <2>3, <2>4, WritesTypes, ProceedsTypes
<1>10. CASE AwaitManageable
  <2>1. GoTo("ports") \in Runs
    BY <1>3 DEF Stages, NodeStages
  <2> QED
    BY <1>10, <2>1, ProceedsTypes, NodeFailsTypes DEF AwaitManageable
<1>11. CASE ListPorts
  <2>1. run.at \in Nodes /\ PortsOf[run.at] \subseteq Macs
    BY <1>11, RoleAssumption DEF ListPorts, NodeStages
  <2>2. [run EXCEPT !.stage = "port", !.ports = PortsOf[run.at]] \in Runs
    BY <1>1, <2>1 DEF Runs, Stages, NodeStages
  <2>3. [owner |-> [m \in PortsOf[run.at] |-> cloud.owner[m]],
         network |-> [m \in PortsOf[run.at] |-> cloud.network[m]]] \in Snapshots
    <3>1. /\ [m \in PortsOf[run.at] |-> cloud.owner[m]]
               \in [PortsOf[run.at] -> Owners]
          /\ [m \in PortsOf[run.at] |-> cloud.network[m]]
               \in [PortsOf[run.at] -> {"drifted", "declared"}]
      BY <1>1, <2>1, CloudFields
    <3> QED
      BY <2>1, <3>1, SnapshotTypes
  <2> QED
    BY <1>11, <2>2, <2>3, ReadsTypes DEF ListPorts
<1>12. ASSUME NEW m \in Macs, PutPort(m) PROVE RoleTypeOK'
  <2> DEFINE n == run.at
             next == [run EXCEPT !.ports = @ \ {m}]
             taken == [cloud EXCEPT !.owner[m] = n, !.network[m] = "declared"]
             fixed == [cloud EXCEPT !.network[m] = "declared"]
  <2>1. n \in Nodes
    BY <1>12 DEF PutPort, NodeStages
  <2>2. next \in Runs
    BY <1>1 DEF Runs
  <2>3. taken \in Clouds /\ fixed \in Clouds
    BY <1>1, <2>1 DEF Clouds, Owners
  <2>4. <<m, "port">> \in Items
    BY DEF Items
  <2>5. \/ Writes(next, seen, <<m, "port">>,
                  cloud.owner[m] = NoOne /\ cloud.node[n] # "absent", taken)
        \/ NodeFails
        \/ Writes(next, seen, <<m, "port">>, cloud.owner[m] = n, fixed)
        \/ Proceeds(next)
    BY <1>12 DEF PutPort
  <2> HIDE DEF n, next, taken, fixed
  <2> QED
    BY <1>1, <2>2, <2>3, <2>4, <2>5, WritesTypes, ProceedsTypes, NodeFailsTypes
<1>13. CASE NodeDone
  <2>1. [run EXCEPT !.stage = "node", !.at = NoOne] \in Runs
    BY <1>1 DEF Runs, Stages
  <2> QED
    BY <1>2, <1>13, <2>1, ReadsTypes DEF NodeDone
<1>14. CASE NodesDone
  <2>1. GoTo("segment") \in Runs
    BY <1>3 DEF Stages
  <2> QED
    BY <1>14, <2>1, ProceedsTypes, FailsTypes DEF NodesDone
<1> QED
  BY <1>5, <1>6, <1>7, <1>8, <1>9, <1>10, <1>11, <1>12, <1>13, <1>14

\* The steps of powerops_masakari_segment and of the workbook keep the types.
LEMMA LaterStepTypes ==
  ASSUME RoleTypeOK,
         \/ ListSegments \/ PutSegment \/ ListHosts
         \/ \E n \in Nodes : PutHost(n)
         \/ HostsDone \/ Populate \/ ListWorkbooks \/ PutWorkbook \/ Summarise
  PROVE  RoleTypeOK'
<1>1. run \in Runs /\ cloud \in Clouds /\ seen \in Snapshots
  BY DEF RoleTypeOK, Runs
<1>2. NoSnapshot \in Snapshots
  BY DEF Snapshots
<1>3. ASSUME NEW s \in Stages PROVE GoTo(s) \in Runs
  BY <1>1, <1>3, GoToTypes
<1>4. CASE ListSegments
  <2>1. [run EXCEPT !.stage = "populate",
                    !.changed = @ \cup {<<"segment", "segment">>}
                                  \cup (Nodes \X {"host"})] \in Runs
    BY <1>1 DEF Runs, Stages, Items
  <2>2. GoTo("putSegment") \in Runs
    BY <1>3 DEF Stages
  <2>3. cloud.segment # "foreign" => [segment |-> cloud.segment] \in Snapshots
    BY <1>1, CloudFields, SnapshotTypes
  <2> QED
    BY <1>4, <2>1, <2>2, <2>3, FailsTypes, ProceedsTypes, ReadsTypes
       DEF ListSegments
<1>5. CASE PutSegment
  <2> DEFINE item == <<"segment", "segment">>
             after == [cloud EXCEPT !.segment = "declared"]
  <2>1. item \in Items /\ after \in Clouds
    BY <1>1 DEF Items, Clouds, Records
  <2>2. GoTo("hosts") \in Runs
    BY <1>3 DEF Stages
  <2>3. \/ \E a : Writes(GoTo("hosts"), NoSnapshot, item, a, after)
        \/ Reads(GoTo("hosts"), NoSnapshot)
    BY <1>5 DEF PutSegment
  <2> HIDE DEF item, after
  <2> QED
    BY <1>2, <2>1, <2>2, <2>3, WritesTypes, ReadsTypes
<1>6. CASE ListHosts
  <2>1. [run EXCEPT !.stage = "host", !.todo = Nodes] \in Runs
    BY <1>1 DEF Runs, Stages
  <2>2. [host |-> cloud.host, maintenance |-> cloud.maintenance] \in Snapshots
    BY <1>1, CloudFields, SnapshotTypes
  <2> QED
    BY <1>6, <2>1, <2>2, ReadsTypes DEF ListHosts
<1>7. ASSUME NEW n \in Nodes, PutHost(n) PROVE RoleTypeOK'
  <2> DEFINE declared == n \in Maintained
             next == [run EXCEPT !.todo = @ \ {n}]
             made == [cloud EXCEPT !.host[n] = "declared",
                                   !.maintenance[n] = declared]
             fixed == [cloud EXCEPT
                         !.host[n] = IF seen.host[n] = "drifted" THEN "declared"
                                     ELSE @,
                         !.maintenance[n] = IF Moved(n) THEN declared ELSE @]
  <2>1. next \in Runs
    BY <1>1 DEF Runs
  <2>2. declared \in BOOLEAN /\ Moved(n) \in BOOLEAN
    BY DEF Moved
  <2>3. made \in Clouds /\ fixed \in Clouds
    <3> HIDE DEF declared
    <3>1. made \in Clouds
      BY <1>1, <2>2 DEF Clouds, Records
    <3>2. fixed \in Clouds
      BY <1>1, <2>2 DEF Clouds, Records
    <3> QED
      BY <3>1, <3>2
  <2>4. <<n, "host">> \in Items
    BY DEF Items
  <2>5. \/ Writes(next, seen, <<n, "host">>, cloud.host[n] = "absent", made)
        \/ Writes(next, seen, <<n, "host">>, cloud.host[n] # "absent", fixed)
        \/ Proceeds(next)
    BY <1>7 DEF PutHost
  <2> HIDE DEF next, made, fixed
  <2> QED
    BY <1>1, <2>1, <2>3, <2>4, <2>5, WritesTypes, ProceedsTypes
<1>8. CASE HostsDone
  <2>1. GoTo("populate") \in Runs
    BY <1>3 DEF Stages
  <2> QED
    BY <1>2, <1>8, <2>1, ReadsTypes DEF HostsDone
<1>9. CASE Populate
  <2>1. GoTo("workbook") \in Runs
    BY <1>3 DEF Stages
  <2>2. cloud' \in Clouds
    BY <1>1, <1>9 DEF Populate, Clouds
  <2> QED
    BY <1>9, <2>1, <2>2 DEF Populate, RoleTypeOK, Runs
<1>10. CASE ListWorkbooks
  <2>1. GoTo("putWorkbook") \in Runs
    BY <1>3 DEF Stages
  <2>2. [workbook |-> cloud.workbook] \in Snapshots
    BY <1>1, CloudFields, SnapshotTypes
  <2> QED
    BY <1>10, <2>1, <2>2, FailsTypes, ReadsTypes DEF ListWorkbooks
<1>11. CASE PutWorkbook
  <2> DEFINE item == <<"workbook", "workbook">>
             after == [cloud EXCEPT !.workbook = "declared"]
  <2>1. item \in Items /\ after \in Clouds
    BY <1>1 DEF Items, Clouds, Records
  <2>2. GoTo("validate") \in Runs
    BY <1>3 DEF Stages
  <2>3. \/ \E a : Writes(GoTo("validate"), NoSnapshot, item, a, after)
        \/ Reads(GoTo("validate"), NoSnapshot)
    BY <1>11 DEF PutWorkbook
  <2> HIDE DEF item, after
  <2> QED
    BY <1>2, <2>1, <2>2, <2>3, WritesTypes, ReadsTypes
<1>12. CASE Summarise
  <2>1. Ends("ok") /\ UNCHANGED <<cloud, quiet, off, trouble>>
    BY <1>12 DEF Summarise
  <2> QED
    BY <2>1, EndsTypes DEF RoleTypeOK, Runs
<1> QED
  BY <1>4, <1>5, <1>6, <1>7, <1>8, <1>9, <1>10, <1>11, <1>12

\* While a node is reconciled the run knows which one, and between two nodes
\* it has none.
AtInv ==
  /\ run.stage \in NodeStages => run.at \in Nodes
  /\ run.stage = "node" => run.at = NoOne

\* A run ends in the middle of a module: the loop over the nodes goes on, any
\* other task ends the play.
Failed ==
  /\ run'.check = run.check /\ run'.result = "failed"
  /\ \/ /\ run'.stage = "node" /\ run'.at = NoOne /\ run.stage # "idle"
        /\ UNCHANGED forecast
     \/ run'.stage = "idle" /\ forecast' = NoForecast
  /\ UNCHANGED <<cloud, quiet, off>>

\* The ways to fail.
LEMMA FailedSteps ==
  ASSUME RoleTypeOK, (NodeFails /\ run.stage # "idle") \/ Fails
  PROVE  Failed
<1>1. run \in Runs
  BY DEF RoleTypeOK, Runs
<1>2. CASE NodeFails /\ run.stage # "idle"
  BY <1>1, <1>2 DEF NodeFails, Reads, OnlyRun, Failed, Runs
<1>3. CASE Fails /\ run.stage \notin NodeStages
  BY <1>1, <1>3 DEF Fails, Ends, Idle, Failed, Runs
<1>4. CASE Fails /\ run.stage \in NodeStages
  BY <1>2, <1>4 DEF Fails, NodeStages
<1> QED
  BY <1>2, <1>3, <1>4

\* A run comes to stage s, with node a, and with t and p left to do.
Comes(s, a, t, p) ==
  /\ run'.stage = s /\ run'.at = a /\ run'.todo = t /\ run'.ports = p
  /\ run'.check = run.check /\ run'.result = run.result

\* A write of item that did what it was for.
Wrote(item, answer, accepted, after) ==
  /\ run'.changed = run.changed \cup {item}
  /\ seen' = answer
  /\ \/ run.check /\ UNCHANGED cloud
     \/ ~run.check /\ accepted /\ cloud' = after
  /\ UNCHANGED <<quiet, off, forecast>>

\* A step that wrote nothing.
Looked(snapshot) ==
  /\ run'.changed = run.changed
  /\ seen' = snapshot
  /\ UNCHANGED <<cloud, quiet, off, forecast>>

\* A write to the next stage is announced by a check run, or is accepted, or
\* fails.
LEMMA WritesGoTo ==
  ASSUME RoleTypeOK, NEW s \in Stages, NEW answer, NEW item, NEW accepted,
         NEW after, Writes(GoTo(s), answer, item, accepted, after)
  PROVE  \/ /\ Comes(s, run.at, run.todo, run.ports)
            /\ Wrote(item, answer, accepted, after)
         \/ Failed
<1>1. CASE Fails
  BY <1>1, FailedSteps
<1>2. CASE /\ run.check \/ accepted
           /\ run' = [GoTo(s) EXCEPT !.changed = @ \cup {item}]
           /\ seen' = answer
           /\ cloud' = IF run.check THEN cloud ELSE after
           /\ UNCHANGED <<quiet, forecast, off, trouble>>
  <2>1. run \in Runs
    BY DEF RoleTypeOK, Runs
  <2>2. Comes(s, run.at, run.todo, run.ports)
    BY <1>2, <2>1 DEF Comes, Runs, GoTo
  <2>3. Wrote(item, answer, accepted, after)
    BY <1>2, <2>1 DEF Wrote, Runs, GoTo
  <2> QED
    BY <2>2, <2>3
<1> QED
  BY <1>1, <1>2 DEF Writes

\* A step to the next stage without a write.
LEMMA LooksGoTo ==
  ASSUME RoleTypeOK, NEW s \in Stages
  PROVE  /\ Proceeds(GoTo(s)) =>
              Comes(s, run.at, run.todo, run.ports) /\ Looked(seen)
         /\ \A snapshot : Reads(GoTo(s), snapshot) =>
              Comes(s, run.at, run.todo, run.ports) /\ Looked(snapshot)
<1>1. run \in Runs
  BY DEF RoleTypeOK, Runs
<1> QED
  BY <1>1 DEF Proceeds, Reads, OnlyRun, GoTo, Comes, Looked, Runs

-----------------------------------------------------------------------------
(***************************************************************************)
(* What each step of a run does.                                           *)
(***************************************************************************)

\* powerops_ironic_node.
ListedNode(n) ==
  /\ run.stage = "node" /\ n \in run.todo
  /\ Comes("preflight", n, run.todo \ {n}, run.ports)
  /\ Looked([node |-> cloud.node[n], provision |-> cloud.provision[n]])

Preflighted ==
  /\ run.stage = "preflight"
  /\ \/ /\ run.check
        /\ ~PortConflict(run.at, TRUE) /\ seen.node = "absent"
        /\ Comes("node", NoOne, run.todo, run.ports)
        /\ run'.changed = run.changed \cup Announced(run.at)
        /\ seen' = NoSnapshot
        /\ UNCHANGED <<cloud, quiet, off, forecast>>
     \/ /\ ~run.check
        /\ ~PortConflict(run.at, TRUE) /\ seen.node = "absent"
        /\ Comes("create", run.at, run.todo, run.ports) /\ Looked(seen)
     \/ /\ ~PortConflict(run.at, FALSE) /\ seen.node # "absent"
        /\ Comes("update", run.at, run.todo, run.ports) /\ Looked(seen)

CreatedNode ==
  /\ run.stage = "create"
  /\ Comes("update", run.at, run.todo, run.ports)
  /\ Wrote(<<run.at, "node">>, [node |-> "declared", provision |-> "enroll"],
           cloud.node[run.at] = "absent",
           [cloud EXCEPT !.node[run.at] = "declared",
                         !.provision[run.at] = "enroll"])

UpdatedNode ==
  /\ run.stage = "update"
  /\ seen.provision \in {"enroll", "manageable"}
  /\ Comes("manage", run.at, run.todo, run.ports)
  /\ \/ /\ run.at \in Masked \/ seen.node = "drifted"
        /\ Wrote(<<run.at, "node">>, seen, cloud.node[run.at] # "absent",
                 [cloud EXCEPT !.node[run.at] =
                    IF seen.node = "drifted" THEN "declared" ELSE @])
     \/ run.at \notin Masked /\ seen.node # "drifted" /\ Looked(seen)

ManagedNode ==
  /\ run.stage = "manage"
  /\ \/ /\ seen.provision = "enroll"
        /\ Comes(IF run.check THEN "ports" ELSE "verify", run.at, run.todo,
                 run.ports)
        /\ Wrote(<<run.at, "node">>, seen, cloud.provision[run.at] = "enroll",
                 [cloud EXCEPT !.provision[run.at] = "verifying"])
     \/ /\ seen.provision # "enroll"
        /\ Comes("ports", run.at, run.todo, run.ports) /\ Looked(seen)

AwaitedNode ==
  /\ run.stage = "verify" /\ cloud.provision[run.at] = "manageable"
  /\ Comes("ports", run.at, run.todo, run.ports) /\ Looked(seen)

ListedPorts ==
  /\ run.stage = "ports"
  /\ Comes("port", run.at, run.todo, PortsOf[run.at])
  /\ Looked([owner |-> [m \in PortsOf[run.at] |-> cloud.owner[m]],
             network |-> [m \in PortsOf[run.at] |-> cloud.network[m]]])

DidPort(m) ==
  /\ run.stage = "port" /\ m \in run.ports
  /\ Comes("port", run.at, run.todo, run.ports \ {m})
  /\ \/ /\ seen.owner[m] = NoOne
        /\ Wrote(<<m, "port">>, seen,
                 cloud.owner[m] = NoOne /\ cloud.node[run.at] # "absent",
                 [cloud EXCEPT !.owner[m] = run.at, !.network[m] = "declared"])
     \/ /\ seen.owner[m] = run.at /\ seen.network[m] = "drifted"
        /\ Wrote(<<m, "port">>, seen, cloud.owner[m] = run.at,
                 [cloud EXCEPT !.network[m] = "declared"])
     \/ /\ seen.owner[m] = run.at /\ seen.network[m] = "declared"
        /\ Looked(seen)

DoneNode ==
  /\ run.stage = "port" /\ run.ports = {}
  /\ Comes("node", NoOne, run.todo, run.ports) /\ Looked(NoSnapshot)

DoneNodes ==
  /\ run.stage = "node" /\ run.todo = {} /\ run.result # "failed"
  /\ Comes("segment", run.at, run.todo, run.ports) /\ Looked(seen)

\* Every step of powerops_ironic_node that does not fail is one of these.
LEMMA NodeStepsMean ==
  ASSUME RoleTypeOK,
         \/ \E n \in Nodes : ListNodes(n)
         \/ PreflightPortOwnership \/ CreateNode \/ UpdateNode \/ ManageNode
         \/ AwaitManageable \/ ListPorts \/ (\E m \in Macs : PutPort(m))
         \/ NodeDone \/ NodesDone
  PROVE  \/ Failed
         \/ \E n \in Nodes : ListedNode(n)
         \/ Preflighted \/ CreatedNode \/ UpdatedNode \/ ManagedNode
         \/ AwaitedNode \/ ListedPorts \/ (\E m \in Macs : DidPort(m))
         \/ DoneNode \/ DoneNodes
<1>1. run \in Runs
  BY DEF RoleTypeOK, Runs
<1>2. NodeStages \subseteq Stages /\ "segment" \in Stages /\ "node" \in Stages
  BY DEF Stages
<1>3. ASSUME NEW n \in Nodes, ListNodes(n) PROVE ListedNode(n)
  BY <1>1, <1>3 DEF ListNodes, ListedNode, Reads, OnlyRun, Comes, Looked, Runs
<1>4. CASE PreflightPortOwnership
  <2>1. run.stage = "preflight"
    BY <1>4 DEF PreflightPortOwnership
  <2>2. CASE NodeFails
    BY <2>1, <2>2, FailedSteps
  <2>3. CASE /\ ~PortConflict(run.at, TRUE) /\ seen.node = "absent" /\ run.check
             /\ Reads([run EXCEPT !.stage = "node", !.at = NoOne,
                                  !.changed = @ \cup Announced(run.at)],
                      NoSnapshot)
    BY <1>1, <2>1, <2>3 DEF Preflighted, Reads, OnlyRun, Comes, Looked, Runs
  <2>4. CASE /\ ~PortConflict(run.at, TRUE) /\ seen.node = "absent" /\ ~run.check
             /\ Proceeds(GoTo("create"))
    <3>1. "create" \in Stages
      BY <1>2 DEF NodeStages
    <3> QED
      BY <2>1, <2>4, <3>1, LooksGoTo DEF Preflighted
  <2>5. CASE /\ ~PortConflict(run.at, FALSE) /\ seen.node # "absent"
             /\ Proceeds(GoTo("update"))
    <3>1. "update" \in Stages
      BY <1>2 DEF NodeStages
    <3> QED
      BY <2>1, <2>5, <3>1, LooksGoTo DEF Preflighted
  <2>6. \/ NodeFails
        \/ /\ ~PortConflict(run.at, TRUE) /\ seen.node = "absent" /\ run.check
           /\ Reads([run EXCEPT !.stage = "node", !.at = NoOne,
                                !.changed = @ \cup Announced(run.at)],
                    NoSnapshot)
        \/ /\ ~PortConflict(run.at, TRUE) /\ seen.node = "absent" /\ ~run.check
           /\ Proceeds(GoTo("create"))
        \/ /\ ~PortConflict(run.at, FALSE) /\ seen.node # "absent"
           /\ Proceeds(GoTo("update"))
    <3>1. CASE seen.node = "absent"
      <4>1. (seen.node = "absent") = TRUE
        BY <3>1
      <4> QED
        BY <1>4, <3>1, <4>1 DEF PreflightPortOwnership
    <3>2. CASE seen.node # "absent"
      <4>1. (seen.node = "absent") = FALSE
        BY <3>2
      <4> QED
        BY <1>4, <3>2, <4>1 DEF PreflightPortOwnership
    <3> QED
      BY <3>1, <3>2
  <2> QED
    BY <2>2, <2>3, <2>4, <2>5, <2>6
<1>5. CASE CreateNode
  <2>1. "update" \in Stages
    BY <1>2 DEF NodeStages
  <2> QED
    BY <1>5, <2>1, WritesGoTo DEF CreateNode, CreatedNode, Created
<1>6. CASE UpdateNode
  <2>1. "manage" \in Stages
    BY <1>2 DEF NodeStages
  <2>2. run.stage = "update" /\ (NodeFails => Failed)
    BY <1>6, FailedSteps DEF UpdateNode
  <2> QED
    BY <1>6, <2>1, <2>2, WritesGoTo, LooksGoTo DEF UpdateNode, UpdatedNode,
                                                   Touches
<1>7. CASE ManageNode
  <2>1. "ports" \in Stages /\ "verify" \in Stages
    BY <1>2 DEF NodeStages
  <2> QED
    BY <1>7, <2>1, WritesGoTo, LooksGoTo DEF ManageNode, ManagedNode
<1>8. CASE AwaitManageable
  <2>1. "ports" \in Stages
    BY <1>2 DEF NodeStages
  <2>2. run.stage = "verify" /\ (NodeFails => Failed)
    BY <1>8, FailedSteps DEF AwaitManageable
  <2> QED
    BY <1>8, <2>1, <2>2, LooksGoTo DEF AwaitManageable, AwaitedNode
<1>9. CASE ListPorts
  BY <1>1, <1>9 DEF ListPorts, ListedPorts, Reads, OnlyRun, Comes, Looked, Runs
<1>10. ASSUME NEW m \in Macs, PutPort(m) PROVE DidPort(m) \/ Failed
  <2> DEFINE next == [run EXCEPT !.ports = @ \ {m}]
  <2>1. run.stage = "port" /\ m \in run.ports /\ (NodeFails => Failed)
    BY <1>10, FailedSteps DEF PutPort
  <2>2. ASSUME NEW accepted, NEW after,
               Writes(next, seen, <<m, "port">>, accepted, after)
        PROVE  \/ /\ Comes("port", run.at, run.todo, run.ports \ {m})
                  /\ Wrote(<<m, "port">>, seen, accepted, after)
               \/ Failed
    <3>1. CASE Fails
      BY <3>1, FailedSteps
    <3>2. CASE /\ run.check \/ accepted
               /\ run' = [next EXCEPT !.changed = @ \cup {<<m, "port">>}]
               /\ seen' = seen
               /\ cloud' = IF run.check THEN cloud ELSE after
               /\ UNCHANGED <<quiet, forecast, off, trouble>>
      <4>1. Comes("port", run.at, run.todo, run.ports \ {m})
        BY <1>1, <2>1, <3>2 DEF Comes, Runs
      <4>2. Wrote(<<m, "port">>, seen, accepted, after)
        BY <1>1, <3>2 DEF Wrote, Runs
      <4> QED
        BY <4>1, <4>2
    <3> QED
      BY <2>2, <3>1, <3>2 DEF Writes
  <2>3. Proceeds(next) => /\ Comes("port", run.at, run.todo, run.ports \ {m})
                          /\ Looked(seen)
    BY <1>1, <2>1 DEF Proceeds, OnlyRun, Comes, Looked, Runs
  <2>4. \/ /\ seen.owner[m] = NoOne
           /\ Writes(next, seen, <<m, "port">>,
                     cloud.owner[m] = NoOne /\ cloud.node[run.at] # "absent",
                     [cloud EXCEPT !.owner[m] = run.at,
                                   !.network[m] = "declared"])
        \/ NodeFails
        \/ /\ seen.owner[m] = run.at /\ seen.network[m] = "drifted"
           /\ Writes(next, seen, <<m, "port">>, cloud.owner[m] = run.at,
                     [cloud EXCEPT !.network[m] = "declared"])
        \/ /\ seen.owner[m] = run.at /\ seen.network[m] = "declared"
           /\ Proceeds(next)
    BY <1>10, Zenon DEF PutPort
  <2> HIDE DEF next
  <2> QED
    BY <2>1, <2>2, <2>3, <2>4 DEF DidPort
<1>11. CASE NodeDone
  BY <1>1, <1>11 DEF NodeDone, DoneNode, Reads, OnlyRun, Comes, Looked, Runs
<1>12. CASE NodesDone
  BY <1>2, <1>12, FailedSteps, LooksGoTo DEF NodesDone, DoneNodes
<1> QED
  BY <1>3, <1>4, <1>5, <1>6, <1>7, <1>8, <1>9, <1>10, <1>11, <1>12

\* powerops_masakari_segment.
ListedSegment ==
  /\ run.stage = "segment" /\ cloud.segment # "foreign"
  /\ \/ /\ cloud.segment = "absent" /\ run.check
        /\ Comes("populate", run.at, run.todo, run.ports)
        /\ run'.changed = run.changed \cup {<<"segment", "segment">>}
                                      \cup (Nodes \X {"host"})
        /\ UNCHANGED <<cloud, seen, quiet, off, forecast>>
     \/ /\ ~(cloud.segment = "absent" /\ run.check)
        /\ Comes("putSegment", run.at, run.todo, run.ports)
        /\ Looked([segment |-> cloud.segment])

DidSegment ==
  /\ run.stage = "putSegment"
  /\ Comes("hosts", run.at, run.todo, run.ports)
  /\ \/ \E accepted :
          /\ seen.segment # "declared"
          /\ Wrote(<<"segment", "segment">>, NoSnapshot, accepted,
                   [cloud EXCEPT !.segment = "declared"])
     \/ seen.segment = "declared" /\ Looked(NoSnapshot)

ListedHosts ==
  /\ run.stage = "hosts"
  /\ Comes("host", run.at, Nodes, run.ports)
  /\ Looked([host |-> cloud.host, maintenance |-> cloud.maintenance])

DidHost(n) ==
  /\ run.stage = "host" /\ n \in run.todo
  /\ Comes("host", run.at, run.todo \ {n}, run.ports)
  /\ \/ /\ seen.host[n] = "absent"
        /\ Wrote(<<n, "host">>, seen, cloud.host[n] = "absent",
                 [cloud EXCEPT !.host[n] = "declared",
                               !.maintenance[n] = n \in Maintained])
     \/ /\ seen.host[n] = "drifted" \/ (seen.host[n] = "declared" /\ Moved(n))
        /\ Wrote(<<n, "host">>, seen, cloud.host[n] # "absent",
                 [cloud EXCEPT
                    !.host[n] = IF seen.host[n] = "drifted" THEN "declared" ELSE @,
                    !.maintenance[n] = IF Moved(n) THEN n \in Maintained ELSE @])
     \/ seen.host[n] = "declared" /\ ~Moved(n) /\ Looked(seen)

DoneHosts ==
  /\ run.stage = "host" /\ run.todo = {}
  /\ Comes("populate", run.at, run.todo, run.ports) /\ Looked(NoSnapshot)

\* The workbook.
Populated ==
  /\ run.stage = "populate"
  /\ Comes("workbook", run.at, run.todo, run.ports)
  /\ run'.changed = run.changed
  /\ cloud' = [cloud EXCEPT !.actions = @ \/ ~run.check]
  /\ UNCHANGED <<seen, quiet, off, forecast>>

ListedWorkbook ==
  /\ run.stage = "workbook" /\ cloud.actions
  /\ Comes("putWorkbook", run.at, run.todo, run.ports)
  /\ Looked([workbook |-> cloud.workbook])

DidWorkbook ==
  /\ run.stage = "putWorkbook"
  /\ Comes("validate", run.at, run.todo, run.ports)
  /\ \/ \E accepted :
          /\ seen.workbook # "declared"
          /\ Wrote(<<"workbook", "workbook">>, NoSnapshot, accepted,
                   [cloud EXCEPT !.workbook = "declared"])
     \/ seen.workbook = "declared" /\ Looked(NoSnapshot)

Summarised ==
  /\ run.stage = "validate"
  /\ run'.stage = "idle" /\ run'.at = NoOne /\ run'.check = run.check
  /\ run'.changed = run.changed /\ run'.result = "ok"
  /\ forecast' = IF run.check /\ quiet THEN run.changed ELSE forecast
  /\ UNCHANGED <<cloud, quiet, off>>

\* Every later step that does not fail is one of these.
LEMMA LaterStepsMean ==
  ASSUME RoleTypeOK,
         \/ ListSegments \/ PutSegment \/ ListHosts
         \/ \E n \in Nodes : PutHost(n)
         \/ HostsDone \/ Populate \/ ListWorkbooks \/ PutWorkbook \/ Summarise
  PROVE  \/ Failed
         \/ ListedSegment \/ DidSegment \/ ListedHosts
         \/ \E n \in Nodes : DidHost(n)
         \/ DoneHosts \/ Populated \/ ListedWorkbook \/ DidWorkbook
         \/ Summarised
<1>1. run \in Runs
  BY DEF RoleTypeOK, Runs
<1>2. {"putSegment", "hosts", "populate", "workbook", "putWorkbook", "validate"}
        \subseteq Stages
  BY DEF Stages
<1>3. CASE ListSegments
  <2>1. CASE Fails
    BY <2>1, FailedSteps
  <2>2. CASE /\ cloud.segment = "absent" /\ run.check
             /\ Proceeds([run EXCEPT !.stage = "populate",
                            !.changed = @ \cup {<<"segment", "segment">>}
                                          \cup (Nodes \X {"host"})])
    BY <1>1, <1>3, <2>2 DEF ListSegments, ListedSegment, Proceeds, OnlyRun, Comes,
                           Runs
  <2>3. CASE /\ cloud.segment # "foreign"
             /\ ~(cloud.segment = "absent" /\ run.check)
             /\ Reads(GoTo("putSegment"), [segment |-> cloud.segment])
    <3>1. run.stage = "segment"
      BY <1>3 DEF ListSegments
    <3>2. /\ Comes("putSegment", run.at, run.todo, run.ports)
          /\ Looked([segment |-> cloud.segment])
      BY <1>2, <2>3, LooksGoTo
    <3> QED
      BY <2>3, <3>1, <3>2 DEF ListedSegment
  <2> QED
    BY <1>3, <2>1, <2>2, <2>3 DEF ListSegments
<1>4. CASE PutSegment
  <2> DEFINE after == [cloud EXCEPT !.segment = "declared"]
  <2>1. run.stage = "putSegment"
    BY <1>4 DEF PutSegment
  <2>2. ASSUME NEW a, seen.segment # "declared",
               Writes(GoTo("hosts"), NoSnapshot, <<"segment", "segment">>, a,
                      after)
        PROVE  Failed \/ DidSegment
    BY <1>2, <2>1, <2>2, WritesGoTo DEF DidSegment
  <2>3. CASE seen.segment = "declared" /\ Reads(GoTo("hosts"), NoSnapshot)
    BY <1>2, <2>1, <2>3, LooksGoTo DEF DidSegment
  <2> QED
    BY <1>4, <2>2, <2>3 DEF PutSegment
<1>5. CASE ListHosts
  BY <1>1, <1>5 DEF ListHosts, ListedHosts, Reads, OnlyRun, Comes, Looked, Runs
<1>6. ASSUME NEW n \in Nodes, PutHost(n) PROVE DidHost(n) \/ Failed
  <2> DEFINE next == [run EXCEPT !.todo = @ \ {n}]
             made == [cloud EXCEPT !.host[n] = "declared",
                                   !.maintenance[n] = n \in Maintained]
             fixed == [cloud EXCEPT
                         !.host[n] = IF seen.host[n] = "drifted" THEN "declared"
                                     ELSE @,
                         !.maintenance[n] = IF Moved(n) THEN n \in Maintained
                                            ELSE @]
  <2>1. run.stage = "host" /\ n \in run.todo
    BY <1>6 DEF PutHost
  <2>2. ASSUME NEW accepted, NEW after,
               Writes(next, seen, <<n, "host">>, accepted, after)
        PROVE  \/ /\ Comes("host", run.at, run.todo \ {n}, run.ports)
                  /\ Wrote(<<n, "host">>, seen, accepted, after)
               \/ Failed
    <3>1. CASE Fails
      BY <3>1, FailedSteps
    <3>2. CASE /\ run.check \/ accepted
               /\ run' = [next EXCEPT !.changed = @ \cup {<<n, "host">>}]
               /\ seen' = seen
               /\ cloud' = IF run.check THEN cloud ELSE after
               /\ UNCHANGED <<quiet, forecast, off, trouble>>
      <4>1. Comes("host", run.at, run.todo \ {n}, run.ports)
        BY <1>1, <2>1, <3>2 DEF Comes, Runs
      <4>2. Wrote(<<n, "host">>, seen, accepted, after)
        BY <1>1, <3>2 DEF Wrote, Runs
      <4> QED
        BY <4>1, <4>2
    <3> QED
      BY <2>2, <3>1, <3>2 DEF Writes
  <2>3. Proceeds(next) => /\ Comes("host", run.at, run.todo \ {n}, run.ports)
                          /\ Looked(seen)
    BY <1>1, <2>1 DEF Proceeds, OnlyRun, Comes, Looked, Runs
  <2>4. \/ /\ seen.host[n] = "absent"
           /\ Writes(next, seen, <<n, "host">>, cloud.host[n] = "absent", made)
        \/ /\ seen.host[n] = "drifted" \/ (seen.host[n] = "declared" /\ Moved(n))
           /\ Writes(next, seen, <<n, "host">>, cloud.host[n] # "absent", fixed)
        \/ /\ seen.host[n] = "declared" /\ ~Moved(n)
           /\ Proceeds(next)
    BY <1>6 DEF PutHost
  <2>5. DidHost(n) <=>
          /\ Comes("host", run.at, run.todo \ {n}, run.ports)
          /\ \/ /\ seen.host[n] = "absent"
                /\ Wrote(<<n, "host">>, seen, cloud.host[n] = "absent", made)
             \/ /\ \/ seen.host[n] = "drifted"
                   \/ (seen.host[n] = "declared" /\ Moved(n))
                /\ Wrote(<<n, "host">>, seen, cloud.host[n] # "absent", fixed)
             \/ seen.host[n] = "declared" /\ ~Moved(n) /\ Looked(seen)
    BY <2>1 DEF DidHost
  <2> HIDE DEF next, made, fixed
  <2> QED
    BY <2>2, <2>3, <2>4, <2>5
<1>7. CASE HostsDone
  BY <1>2, <1>7, LooksGoTo DEF HostsDone, DoneHosts
<1>8. CASE Populate
  BY <1>1, <1>8 DEF Populate, Populated, GoTo, Comes, Runs
<1>9. CASE ListWorkbooks
  <2>1. CASE Fails
    BY <2>1, FailedSteps
  <2>2. CASE cloud.actions /\ Reads(GoTo("putWorkbook"),
                                    [workbook |-> cloud.workbook])
    <3>1. run.stage = "workbook"
      BY <1>9 DEF ListWorkbooks
    <3>2. /\ Comes("putWorkbook", run.at, run.todo, run.ports)
          /\ Looked([workbook |-> cloud.workbook])
      BY <1>2, <2>2, LooksGoTo
    <3> QED
      BY <2>2, <3>1, <3>2 DEF ListedWorkbook
  <2> QED
    BY <1>9, <2>1, <2>2 DEF ListWorkbooks
<1>10. CASE PutWorkbook
  <2> DEFINE after == [cloud EXCEPT !.workbook = "declared"]
  <2>1. run.stage = "putWorkbook"
    BY <1>10 DEF PutWorkbook
  <2>2. ASSUME NEW a, seen.workbook # "declared",
               Writes(GoTo("validate"), NoSnapshot, <<"workbook", "workbook">>,
                      a, after)
        PROVE  Failed \/ DidWorkbook
    BY <1>2, <2>1, <2>2, WritesGoTo DEF DidWorkbook
  <2>3. CASE seen.workbook = "declared" /\ Reads(GoTo("validate"), NoSnapshot)
    BY <1>2, <2>1, <2>3, LooksGoTo DEF DidWorkbook
  <2> QED
    BY <1>10, <2>2, <2>3 DEF PutWorkbook
<1>11. CASE Summarise
  BY <1>1, <1>11 DEF Summarise, Summarised, Ends, Idle, Runs
<1> QED
  BY <1>3, <1>4, <1>5, <1>6, <1>7, <1>8, <1>9, <1>10, <1>11

\* Start and what happens around a run.
Started ==
  /\ run.stage = "idle"
  /\ run'.stage = "node" /\ run'.at = NoOne /\ run'.todo = Nodes
  /\ run'.check \in BOOLEAN /\ run'.changed = {} /\ run'.result = "none"
  /\ quiet' = TRUE
  /\ forecast' = IF run.check THEN forecast ELSE NoForecast
  /\ UNCHANGED <<cloud, seen, off>>

Verified(n) ==
  /\ cloud.provision[n] = "verifying"
  /\ \E p \in {"manageable", "enroll"} :
       cloud' = [cloud EXCEPT !.provision[n] = p]
  /\ UNCHANGED <<run, seen, quiet, forecast, off>>

\* Others write only to what is there.
OthersWrote ==
  /\ quiet' = FALSE /\ forecast' = NoForecast
  /\ UNCHANGED <<run, seen>>
  /\ \A n \in Nodes :
       /\ cloud.node[n] = "absent" =>
            /\ cloud'.node[n] = "absent"
            /\ cloud'.provision[n] = cloud.provision[n]
       /\ cloud'.node[n] = "absent" =>
            cloud.node[n] = "absent" \/ cloud'.provision[n] = "none"
       /\ cloud.host[n] = "absent" => cloud'.host[n] = "absent"
  /\ cloud'.segment = "absent" => cloud.segment = "absent"

\* What others write is of the types of the services.
LEMMA DisturbedTypes ==
  ASSUME RoleTypeOK, NEW after \in Clouds, Disturbed(after), off' \subseteq Nodes
  PROVE  RoleTypeOK'
<1>1. trouble' \in 0..MaxTrouble
  BY RoleAssumption DEF Disturbed, Goes, RoleTypeOK
<1> QED
  BY <1>1 DEF Disturbed, RoleTypeOK

\* Steps of others keep the types.
LEMMA OthersMean ==
  ASSUME RoleTypeOK,
         Meddle \/ \E n \in Nodes : PlannedPowerOff(n) \/ PowerOnAndReturn(n)
  PROVE  RoleTypeOK' /\ OthersWrote
<1>1. cloud \in Clouds
  BY DEF RoleTypeOK
<1>2. off \subseteq Nodes
  BY DEF RoleTypeOK
<1>3. CASE \E n \in Nodes : PlannedPowerOff(n) \/ PowerOnAndReturn(n)
  <2>1. PICK n \in Nodes, b \in BOOLEAN :
          /\ Disturbed([cloud EXCEPT !.maintenance[n] = b])
          /\ off' \subseteq Nodes
    BY <1>2, <1>3 DEF PlannedPowerOff, PowerOnAndReturn
  <2>2. [cloud EXCEPT !.maintenance[n] = b] \in Clouds
    BY <1>1 DEF Clouds
  <2> QED
    BY <1>1, <2>1, <2>2, DisturbedTypes DEF Disturbed, OthersWrote, Clouds
<1>4. CASE Meddle
  <2>1. off' \subseteq Nodes
    BY <1>2, <1>4 DEF Meddle
  <2>2. ASSUME NEW n \in Nodes, cloud.node[n] # "absent",
               \/ Disturbed([cloud EXCEPT !.node[n] = "drifted"])
               \/ Disturbed([cloud EXCEPT !.provision[n] = "available"])
        PROVE  RoleTypeOK' /\ OthersWrote
    <3>1. CASE Disturbed([cloud EXCEPT !.node[n] = "drifted"])
      <4>1. [cloud EXCEPT !.node[n] = "drifted"] \in Clouds
        BY <1>1 DEF Clouds, Records
      <4>2. RoleTypeOK'
        BY <2>1, <3>1, <4>1, DisturbedTypes
      <4> QED
        BY <1>1, <2>2, <3>1, <4>2 DEF Disturbed, OthersWrote, Clouds
    <3>2. CASE Disturbed([cloud EXCEPT !.provision[n] = "available"])
      <4>1. [cloud EXCEPT !.provision[n] = "available"] \in Clouds
        BY <1>1 DEF Clouds, Provision
      <4>2. RoleTypeOK'
        BY <2>1, <3>2, <4>1, DisturbedTypes
      <4> QED
        BY <1>1, <2>2, <3>2, <4>2 DEF Disturbed, OthersWrote, Clouds
    <3> QED
      BY <2>2, <3>1, <3>2
  <2>3. ASSUME NEW n \in Nodes, cloud.node[n] # "absent",
               Disturbed([cloud EXCEPT
                  !.node[n] = "absent", !.provision[n] = "none",
                  !.owner = [m \in Macs |-> IF @[m] = n THEN NoOne ELSE @[m]]])
        PROVE  RoleTypeOK' /\ OthersWrote
    <3>1. [cloud EXCEPT
             !.node[n] = "absent", !.provision[n] = "none",
             !.owner = [m \in Macs |-> IF @[m] = n THEN NoOne ELSE @[m]]]
            \in Clouds
      BY <1>1 DEF Clouds, Records, Provision, Owners
    <3> QED
      BY <1>1, <2>1, <2>3, <3>1, DisturbedTypes
         DEF Disturbed, OthersWrote, Clouds
  <2>4. ASSUME NEW n \in Nodes, NEW r \in {"drifted", "absent"},
               cloud.host[n] # "absent",
               Disturbed([cloud EXCEPT !.host[n] = r])
        PROVE  RoleTypeOK' /\ OthersWrote
    <3>1. [cloud EXCEPT !.host[n] = r] \in Clouds
      BY <1>1 DEF Clouds, Records
    <3>2. RoleTypeOK'
      BY <2>1, <2>4, <3>1, DisturbedTypes
    <3> QED
      BY <1>1, <2>4, <3>2 DEF Disturbed, OthersWrote, Clouds
  <2>5. ASSUME NEW m \in Macs,
               \/ Disturbed([cloud EXCEPT !.owner[m] = Stranger])
               \/ Disturbed([cloud EXCEPT !.network[m] = "drifted"])
               \/ Disturbed([cloud EXCEPT !.owner[m] = NoOne])
        PROVE  RoleTypeOK' /\ OthersWrote
    <3>1. ASSUME NEW o \in {Stranger, NoOne},
                 Disturbed([cloud EXCEPT !.owner[m] = o])
          PROVE  RoleTypeOK' /\ OthersWrote
      <4>1. [cloud EXCEPT !.owner[m] = o] \in Clouds
        BY <1>1 DEF Clouds, Owners
      <4>2. RoleTypeOK'
        BY <2>1, <3>1, <4>1, DisturbedTypes
      <4> QED
        BY <1>1, <3>1, <4>2 DEF Disturbed, OthersWrote, Clouds
    <3>2. CASE Disturbed([cloud EXCEPT !.network[m] = "drifted"])
      <4>1. [cloud EXCEPT !.network[m] = "drifted"] \in Clouds
        BY <1>1 DEF Clouds
      <4>2. RoleTypeOK'
        BY <2>1, <3>2, <4>1, DisturbedTypes
      <4> QED
        BY <1>1, <3>2, <4>2 DEF Disturbed, OthersWrote, Clouds
    <3> QED
      BY <2>5, <3>1, <3>2
  <2>6. ASSUME NEW t \in {"drifted", "foreign"},
               Disturbed([cloud EXCEPT !.segment = t])
        PROVE  RoleTypeOK' /\ OthersWrote
    <3>1. [cloud EXCEPT !.segment = t] \in Clouds
      BY <1>1 DEF Clouds, Records
    <3> QED
      BY <1>1, <2>1, <2>6, <3>1, DisturbedTypes
         DEF Disturbed, OthersWrote, Clouds
  <2>7. CASE Disturbed([cloud EXCEPT !.workbook = "drifted"])
    <3>1. [cloud EXCEPT !.workbook = "drifted"] \in Clouds
      BY <1>1 DEF Clouds, Records
    <3> QED
      BY <1>1, <2>1, <2>7, <3>1, DisturbedTypes
         DEF Disturbed, OthersWrote, Clouds
  <2> QED
    BY <1>4, <2>2, <2>3, <2>4, <2>5, <2>6, <2>7 DEF Meddle
<1> QED
  BY <1>3, <1>4

\* So do the steps of Ironic, and those that start, fail or break off a run.
LEMMA AroundMeans ==
  ASSUME RoleTypeOK,
         \/ \E check \in BOOLEAN : Start(check)
         \/ \E n \in Nodes : VerificationSucceeds(n) \/ VerificationFails(n)
         \/ CallFails \/ Interrupt
  PROVE  /\ RoleTypeOK'
         /\ Started \/ Failed \/ \E n \in Nodes : Verified(n)
<1>1. run \in Runs /\ cloud \in Clouds
  BY DEF RoleTypeOK, Runs
<1>2. ASSUME NEW check \in BOOLEAN, Start(check) PROVE RoleTypeOK' /\ Started
  <2>1. run' \in Runs
    BY <1>2 DEF Start, Idle, Runs, Stages
  <2>2. Started
    BY <1>2 DEF Start, Idle, Started
  <2>3. forecast' \subseteq Items \cup NoForecast
    BY <1>2 DEF Start, RoleTypeOK
  <2> QED
    BY <1>2, <2>1, <2>2, <2>3 DEF Start, RoleTypeOK, Runs
<1>3. ASSUME NEW n \in Nodes, VerificationSucceeds(n) \/ VerificationFails(n)
      PROVE  RoleTypeOK' /\ Verified(n)
  <2>1. Verified(n)
    BY <1>3 DEF VerificationSucceeds, VerificationFails, Verified
  <2>2. cloud' \in Clouds
    BY <1>1, <2>1 DEF Verified, Clouds, Provision
  <2>3. trouble' \in 0..MaxTrouble
    BY <1>3, RoleAssumption DEF VerificationSucceeds, VerificationFails, Goes,
                                RoleTypeOK
  <2> QED
    BY <2>1, <2>2, <2>3 DEF Verified, RoleTypeOK
<1>4. Goes => trouble' \in 0..MaxTrouble
  BY RoleAssumption DEF Goes, RoleTypeOK
<1>5. ASSUME Ends("failed"), Goes, UNCHANGED <<cloud, quiet, off>>,
             run.stage # "idle"
      PROVE  RoleTypeOK' /\ Failed
  <2>1. RoleTypeOK'
    BY <1>4, <1>5, EndsTypes DEF RoleTypeOK, Runs
  <2> QED
    BY <1>1, <1>5, <2>1 DEF Failed, Ends, Idle, Runs
<1>6. CASE Interrupt
  BY <1>5, <1>6 DEF Interrupt
<1>7. CASE CallFails /\ run.stage \in NodeStages
  <2>1. /\ run' = [run EXCEPT !.stage = "node", !.at = NoOne, !.ports = {},
                              !.result = "failed"]
        /\ seen' = NoSnapshot
        /\ Goes
        /\ UNCHANGED <<forecast, cloud, quiet, off>>
        /\ run.stage # "idle"
    BY <1>7 DEF CallFails
  <2>2. run' \in Runs /\ seen' \in Snapshots
    BY <1>1, <2>1 DEF Runs, Stages, Snapshots
  <2>3. RoleTypeOK'
    BY <1>4, <2>1, <2>2 DEF RoleTypeOK, Runs
  <2> QED
    BY <1>1, <2>1, <2>3 DEF Failed, Runs
<1>8. CASE CallFails /\ run.stage \notin NodeStages
  BY <1>5, <1>8 DEF CallFails
<1> QED
  BY <1>2, <1>3, <1>6, <1>7, <1>8

\* A step of a run.
NodeStep ==
  \/ \E n \in Nodes : ListedNode(n)
  \/ Preflighted \/ CreatedNode \/ UpdatedNode \/ ManagedNode
  \/ AwaitedNode \/ ListedPorts \/ (\E m \in Macs : DidPort(m))
  \/ DoneNode \/ DoneNodes

LaterStep ==
  \/ ListedSegment \/ DidSegment \/ ListedHosts
  \/ \E n \in Nodes : DidHost(n)
  \/ DoneHosts \/ Populated \/ ListedWorkbook \/ DidWorkbook \/ Summarised

\* All steps of the specification, with what they do.
LEMMA StepsMean ==
  ASSUME RoleTypeOK, AtInv, Next
  PROVE  /\ RoleTypeOK'
         /\ \/ NodeStep \/ LaterStep \/ Failed
            \/ Started \/ (\E n \in Nodes : Verified(n)) \/ OthersWrote
<1>1. CASE RunSteps
  <2>1. CASE \/ \E n \in Nodes : ListNodes(n)
             \/ PreflightPortOwnership \/ CreateNode \/ UpdateNode \/ ManageNode
             \/ AwaitManageable \/ ListPorts \/ (\E m \in Macs : PutPort(m))
             \/ NodeDone \/ NodesDone
    BY <2>1, NodeStepTypes, NodeStepsMean DEF AtInv, NodeStep
  <2>2. CASE \/ ListSegments \/ PutSegment \/ ListHosts
             \/ \E n \in Nodes : PutHost(n)
             \/ HostsDone \/ Populate \/ ListWorkbooks \/ PutWorkbook
             \/ Summarise
    BY <2>2, LaterStepTypes, LaterStepsMean DEF LaterStep
  <2> QED
    BY <1>1, <2>1, <2>2 DEF RunSteps
<1>2. CASE Meddle \/ \E n \in Nodes : PlannedPowerOff(n) \/ PowerOnAndReturn(n)
  BY <1>2, OthersMean
<1>3. CASE \/ \E check \in BOOLEAN : Start(check)
           \/ \E n \in Nodes : VerificationSucceeds(n) \/ VerificationFails(n)
           \/ CallFails \/ Interrupt
  BY <1>3, AroundMeans
<1> QED
  BY <1>1, <1>2, <1>3 DEF Next

\* Every step keeps the knowledge of the node at hand.
LEMMA AtStep ==
  ASSUME RoleTypeOK, AtInv, Next
  PROVE  AtInv'
<1> USE DEF NodeStages
<1>1. CASE NodeStep
  <2>1. ASSUME NEW n \in Nodes, ListedNode(n) PROVE AtInv'
    BY <2>1 DEF ListedNode, Comes, AtInv
  <2>2. CASE Preflighted
    BY <2>2 DEF Preflighted, Comes, AtInv
  <2>3. CASE CreatedNode \/ UpdatedNode \/ AwaitedNode \/ ListedPorts
    BY <2>3 DEF CreatedNode, UpdatedNode, AwaitedNode, ListedPorts, Comes, AtInv
  <2>4. CASE ManagedNode
    BY <2>4 DEF ManagedNode, Comes, AtInv
  <2>5. ASSUME NEW m \in Macs, DidPort(m) PROVE AtInv'
    BY <2>5 DEF DidPort, Comes, AtInv
  <2>6. CASE DoneNode \/ DoneNodes
    BY <2>6 DEF DoneNode, DoneNodes, Comes, AtInv
  <2> QED
    BY <1>1, <2>1, <2>2, <2>3, <2>4, <2>5, <2>6 DEF NodeStep
<1>2. CASE LaterStep
  BY <1>2 DEF LaterStep, ListedSegment, DidSegment, ListedHosts, DidHost,
       DoneHosts, Populated, ListedWorkbook, DidWorkbook, Summarised, Comes, AtInv
<1>3. CASE Failed \/ Started \/ (\E n \in Nodes : Verified(n)) \/ OthersWrote
  BY <1>3 DEF Failed, Started, Verified, OthersWrote, AtInv
<1> QED
  BY <1>1, <1>2, <1>3, StepsMean

\* The role starts well typed.
LEMMA RoleInit ==
  ASSUME Init
  PROVE  RoleTypeOK /\ AtInv
<1>1. cloud \in Clouds
  BY DEF Init, Fresh, Clouds, Records, Provision, Owners
<1>2. run \in Runs
  BY DEF Init, Idle, Runs, Stages
<1>3. seen \in Snapshots
  BY DEF Init, Snapshots
<1>4. AtInv
  BY DEF Init, Idle, AtInv, NodeStages
<1>5. trouble \in 0..MaxTrouble
  BY RoleAssumption DEF Init
<1> QED
  BY <1>1, <1>2, <1>3, <1>4, <1>5 DEF Init, RoleTypeOK, Runs

\* Every state of the role is well typed: the reconcilers write only records
\* that the services know, and while a node is reconciled the run knows which.
THEOREM RoleTypeCorrect == Spec => [](RoleTypeOK /\ AtInv)
<1>1. Init => RoleTypeOK /\ AtInv
  BY RoleInit
<1>2. RoleTypeOK /\ AtInv /\ [Next]_vars => RoleTypeOK' /\ AtInv'
  <2>1. RoleTypeOK /\ AtInv /\ Next => RoleTypeOK' /\ AtInv'
    BY StepsMean, AtStep
  <2>2. RoleTypeOK /\ AtInv /\ UNCHANGED vars => RoleTypeOK' /\ AtInv'
    BY DEF vars, RoleTypeOK, AtInv
  <2> QED
    BY <2>1, <2>2
<1> QED
  BY <1>1, <1>2, PTL DEF Spec
-----------------------------------------------------------------------------
(***************************************************************************)
(* What an undisturbed run has done so far.                                *)
(***************************************************************************)

AfterPopulate == {"workbook", "putWorkbook", "validate"}
AfterHosts == AfterPopulate \cup {"populate"}
AfterSegment == AfterHosts \cup {"hosts", "host"}
AfterNodes == AfterSegment \cup {"segment", "putSegment"}
NodeLoop == NodeStages \cup {"node"}

\* The run is in one of the stages S, or has come through all of them.
Past(S) == run.stage \in S \/ (run.stage = "idle" /\ run.result = "ok")

\* A node that is not registered has no provision state.
AbsentInv ==
  \A n \in Nodes : cloud.node[n] = "absent" => cloud.provision[n] = "none"

\* What the module has read of the node at hand still holds where it matters,
\* and what it has done to the node is done.
SeenInv ==
  LET n == run.at IN
  /\ run.stage \in {"preflight", "update"} =>
       /\ seen.node = cloud.node[n]
       /\ seen.provision \in {"enroll", "manageable"}
            => cloud.provision[n] = seen.provision
  /\ run.stage = "update" => seen.node # "absent"
  /\ run.stage = "create" => \A m \in PortsOf[n] : cloud.owner[m] = NoOne
  /\ run.stage \in {"manage", "verify", "ports", "port"} =>
       cloud.node[n] = "declared"
  /\ run.stage = "manage" => /\ seen.provision \in {"enroll", "manageable"}
                             /\ cloud.provision[n] = seen.provision
  /\ run.stage \in {"ports", "port"} => cloud.provision[n] = "manageable"
  /\ run.stage = "port" =>
       \A m \in PortsOf[n] :
         IF m \in run.ports
         THEN seen.owner[m] = cloud.owner[m] /\ seen.network[m] = cloud.network[m]
         ELSE cloud.owner[m] = n /\ cloud.network[m] = "declared"

\* The nodes that the loop has dealt with are ready, unless one has failed.
LoopInv ==
  run.stage \in NodeLoop /\ run.result # "failed" =>
    \A n \in Nodes \ run.todo : n # run.at => NodeReady(n)

\* After the loop: what has been reconciled is as declared, and what has been
\* read is still true.
LaterInv ==
  /\ Past(AfterNodes) => \A n \in Nodes : NodeReady(n)
  /\ run.stage = "putSegment" => seen.segment = cloud.segment
  /\ Past(AfterSegment) => cloud.segment = "declared"
  /\ run.stage = "host" =>
       \A n \in Nodes :
         IF n \in run.todo
         THEN /\ seen.host[n] = cloud.host[n]
              /\ seen.maintenance[n] = cloud.maintenance[n]
         ELSE HostReady(n)
  /\ Past(AfterHosts) => \A n \in Nodes : HostReady(n)
  /\ Past(AfterPopulate) => cloud.actions
  /\ run.stage = "putWorkbook" => seen.workbook = cloud.workbook
  /\ Past({"validate"}) => cloud.workbook = "declared"

\* The invariant of a run that writes and that nobody has disturbed.
ProgressInv == SeenInv /\ LoopInv /\ LaterInv

RoleInv ==
  /\ RoleTypeOK /\ AtInv /\ AbsentInv
  /\ quiet /\ ~run.check => ProgressInv

\* Where a part of the invariant says nothing.
LEMMA SaysNothing ==
  /\ run'.stage \notin NodeStages => SeenInv'
  /\ run'.stage \notin NodeLoop \/ run'.result = "failed" => LoopInv'
  /\ run'.stage \in NodeLoop \/ (run'.stage = "idle" /\ run'.result # "ok")
       => LaterInv'
<1>1. run'.stage \notin NodeStages => SeenInv'
  BY DEF SeenInv, NodeStages
<1>2. run'.stage \notin NodeLoop \/ run'.result = "failed" => LoopInv'
  BY DEF LoopInv
<1>3. run'.stage \in NodeLoop \/ (run'.stage = "idle" /\ run'.result # "ok")
        => LaterInv'
  BY DEF LaterInv, NodeLoop, NodeStages, Past, AfterNodes, AfterSegment,
         AfterHosts, AfterPopulate
<1> QED
  BY <1>1, <1>2, <1>3

\* The stages in which a node is at hand are stages of the loop.
LEMMA LoopStages ==
  /\ NodeLoop = {"preflight", "create", "update", "manage", "verify", "ports",
                 "port", "node"}
  /\ NodeStages \subseteq NodeLoop
  /\ AfterNodes \cap NodeLoop = {} /\ "idle" \notin NodeLoop
BY DEF NodeLoop, NodeStages, AfterNodes, AfterSegment, AfterHosts, AfterPopulate

\* A step that deals with the node at hand keeps what is true of the others.
LEMMA LoopKept ==
  ASSUME LoopInv, run.stage \in NodeLoop,
         run'.at = run.at, run'.todo = run.todo, run'.result = run.result,
         \A n \in Nodes : n # run.at /\ NodeReady(n) => NodeReady(n)'
  PROVE  LoopInv'
BY DEF LoopInv

\* Readiness depends on the records of the services only.
LEMMA ReadyKept ==
  ASSUME UNCHANGED cloud
  PROVE  /\ \A n \in Nodes : NodeReady(n)' <=> NodeReady(n)
         /\ \A n \in Nodes : HostReady(n)' <=> HostReady(n)
BY DEF NodeReady, HostReady

\* A run that fails, or starts, claims nothing.
LEMMA NoClaim ==
  ASSUME Failed \/ Started
  PROVE  ProgressInv'
<1>1. run'.stage \notin NodeStages
  BY DEF Failed, Started, NodeStages
<1>2. run'.stage \notin NodeLoop \/ run'.result = "failed" \/ Started
  BY DEF Failed
<1>3. Started => LoopInv'
  BY DEF Started, LoopInv
<1>4. run'.stage \in NodeLoop \/ (run'.stage = "idle" /\ run'.result # "ok")
  BY DEF Failed, Started, NodeLoop
<1> QED
  BY <1>1, <1>2, <1>3, <1>4, SaysNothing DEF ProgressInv

\* The steps up to the creation of the node at hand.
LEMMA FirstNodeSteps ==
  ASSUME RoleTypeOK, AtInv, ProgressInv, ~run.check,
         (\E n \in Nodes : ListedNode(n)) \/ Preflighted \/ CreatedNode
  PROVE  ProgressInv'
<1>1. cloud \in Clouds
  BY DEF RoleTypeOK
<1>2. ASSUME NEW n \in Nodes, ListedNode(n) PROVE ProgressInv'
  <2>1. /\ run.at = NoOne /\ run.at # n
        /\ run'.stage = "preflight" /\ run'.at = n /\ run'.todo = run.todo \ {n}
        /\ run'.result = run.result
        /\ seen' = [node |-> cloud.node[n], provision |-> cloud.provision[n]]
        /\ cloud' = cloud
    BY <1>2, RoleAssumption DEF ListedNode, Comes, Looked, AtInv
  <2>2. SeenInv'
    BY <2>1 DEF SeenInv
  <2>3. LoopInv'
    <3>1. \A k \in Nodes : NodeReady(k)' <=> NodeReady(k)
      BY <2>1, ReadyKept
    <3>2. run.stage \in NodeLoop
      BY <1>2, LoopStages DEF ListedNode
    <3> QED
      BY <2>1, <3>1, <3>2, RoleAssumption DEF LoopInv, ProgressInv
  <2>4. LaterInv'
    BY <2>1, SaysNothing, LoopStages
  <2> QED
    BY <2>2, <2>3, <2>4 DEF ProgressInv
<1>3. CASE Preflighted
  <2>1. /\ run.stage = "preflight"
        /\ run'.at = run.at /\ run'.todo = run.todo /\ run'.result = run.result
        /\ seen' = seen /\ cloud' = cloud
        /\ \/ run'.stage = "create" /\ ~PortConflict(run.at, TRUE)
           \/ run'.stage = "update" /\ seen.node # "absent"
    BY <1>3 DEF Preflighted, Comes, Looked
  <2>2. SeenInv'
    <3>1. CASE run'.stage = "create"
      <4>1. \A m \in PortsOf[run.at] : cloud.owner[m] = NoOne
        BY <2>1, <3>1 DEF PortConflict
      <4> QED
        BY <2>1, <3>1, <4>1 DEF SeenInv
    <3>2. CASE run'.stage = "update"
      BY <2>1, <3>2 DEF SeenInv, ProgressInv
    <3> QED
      BY <2>1, <3>1, <3>2
  <2>3. LoopInv'
    BY <2>1, LoopKept, LoopStages, ReadyKept DEF ProgressInv
  <2>4. LaterInv'
    BY <2>1, SaysNothing, LoopStages
  <2> QED
    BY <2>2, <2>3, <2>4 DEF ProgressInv
<1>4. CASE CreatedNode
  <2>1. run.at \in Nodes
    BY <1>4 DEF CreatedNode, AtInv, NodeStages
  <2>2. /\ run.stage = "create" /\ run'.stage = "update"
        /\ run'.at = run.at /\ run'.todo = run.todo /\ run'.result = run.result
        /\ seen' = [node |-> "declared", provision |-> "enroll"]
        /\ cloud' = [cloud EXCEPT !.node[run.at] = "declared",
                                  !.provision[run.at] = "enroll"]
    BY <1>4 DEF CreatedNode, Comes, Wrote
  <2>3. /\ cloud'.node = [cloud.node EXCEPT ![run.at] = "declared"]
        /\ cloud'.provision = [cloud.provision EXCEPT ![run.at] = "enroll"]
        /\ cloud'.owner = cloud.owner /\ cloud'.network = cloud.network
    BY <1>1, <2>2 DEF Clouds
  <2>4. SeenInv'
    BY <1>1, <2>1, <2>2, <2>3, CloudFields DEF SeenInv
  <2>5. \A n \in Nodes : n # run.at /\ NodeReady(n) => NodeReady(n)'
    BY <1>1, <2>1, <2>3, CloudFields DEF NodeReady
  <2>6. LoopInv'
    BY <2>2, <2>5, LoopKept, LoopStages DEF ProgressInv
  <2>7. LaterInv'
    BY <2>2, SaysNothing, LoopStages
  <2> QED
    BY <2>4, <2>6, <2>7 DEF ProgressInv
<1> QED
  BY <1>2, <1>3, <1>4

\* The steps that bring the node at hand to manageable.
LEMMA ProvisionSteps ==
  ASSUME RoleTypeOK, AtInv, AbsentInv, ProgressInv, ~run.check,
         UpdatedNode \/ ManagedNode \/ AwaitedNode
  PROVE  ProgressInv'
<1>1. cloud \in Clouds
  BY DEF RoleTypeOK
<1>2. run.at \in Nodes
  BY DEF UpdatedNode, ManagedNode, AwaitedNode, AtInv, NodeStages
<1>3. /\ run.stage \in {"update", "manage", "verify"}
      /\ run'.stage \in {"manage", "verify", "ports"}
      /\ run'.at = run.at /\ run'.todo = run.todo /\ run'.result = run.result
      /\ seen' = seen
  BY DEF UpdatedNode, ManagedNode, AwaitedNode, Comes, Wrote, Looked
<1>4. ASSUME \A n \in Nodes : n # run.at /\ NodeReady(n) => NodeReady(n)'
      PROVE  LoopInv' /\ LaterInv'
  <2>1. LoopInv'
    BY <1>3, <1>4, LoopKept, LoopStages DEF ProgressInv
  <2>2. LaterInv'
    BY <1>3, SaysNothing, LoopStages
  <2> QED
    BY <2>1, <2>2
<1>5. CASE UpdatedNode
  <2>1. /\ run.stage = "update" /\ run'.stage = "manage"
        /\ seen.provision \in {"enroll", "manageable"}
        /\ seen.node = cloud.node[run.at] /\ seen.node # "absent"
        /\ cloud.provision[run.at] = seen.provision
    BY <1>5 DEF UpdatedNode, Comes, ProgressInv, SeenInv
  <2>2. /\ cloud'.provision = cloud.provision
        /\ cloud'.owner = cloud.owner /\ cloud'.network = cloud.network
        /\ \A n \in Nodes : n # run.at => cloud'.node[n] = cloud.node[n]
        /\ cloud'.node[run.at] = "declared"
    <3>1. CASE run.at \notin Masked /\ seen.node # "drifted" /\ Looked(seen)
      <4>1. cloud' = cloud
        BY <3>1 DEF Looked
      <4> QED
        BY <1>1, <1>2, <2>1, <3>1, <4>1, CloudFields DEF Records
    <3>2. CASE cloud' = [cloud EXCEPT !.node[run.at] =
                           IF seen.node = "drifted" THEN "declared" ELSE @]
      <4>1. cloud'.node = [cloud.node EXCEPT ![run.at] =
                             IF seen.node = "drifted" THEN "declared" ELSE @]
        BY <1>1, <3>2 DEF Clouds
      <4>2. cloud'.node[run.at] = "declared"
        BY <1>1, <1>2, <2>1, <4>1, CloudFields DEF Records
      <4> QED
        BY <1>1, <1>2, <3>2, <4>1, <4>2, CloudFields DEF Clouds
    <3> QED
      BY <1>5, <3>1, <3>2 DEF UpdatedNode, Wrote
  <2>3. SeenInv'
    BY <1>3, <2>1, <2>2 DEF SeenInv
  <2>4. \A n \in Nodes : n # run.at /\ NodeReady(n) => NodeReady(n)'
    BY <2>2 DEF NodeReady
  <2> QED
    BY <1>4, <2>3, <2>4 DEF ProgressInv
<1>6. CASE ManagedNode
  <2>1. /\ run.stage = "manage" /\ cloud.node[run.at] = "declared"
        /\ seen.provision \in {"enroll", "manageable"}
        /\ cloud.provision[run.at] = seen.provision
    BY <1>6 DEF ManagedNode, ProgressInv, SeenInv
  <2>2. CASE seen.provision = "enroll"
    <3>1. /\ run'.stage = "verify"
          /\ cloud' = [cloud EXCEPT !.provision[run.at] = "verifying"]
      BY <1>6, <2>2 DEF ManagedNode, Comes, Wrote
    <3>2. /\ cloud'.provision = [cloud.provision EXCEPT ![run.at] = "verifying"]
          /\ cloud'.node = cloud.node
          /\ cloud'.owner = cloud.owner /\ cloud'.network = cloud.network
      BY <1>1, <3>1 DEF Clouds
    <3>3. SeenInv'
      BY <1>3, <2>1, <3>1, <3>2 DEF SeenInv
    <3>4. \A n \in Nodes : n # run.at /\ NodeReady(n) => NodeReady(n)'
      BY <1>1, <1>2, <3>2, CloudFields DEF NodeReady
    <3> QED
      BY <1>4, <3>3, <3>4 DEF ProgressInv
  <2>3. CASE seen.provision = "manageable"
    <3>1. run'.stage = "ports" /\ cloud' = cloud
      BY <1>6, <2>3 DEF ManagedNode, Comes, Looked
    <3>2. SeenInv'
      BY <1>3, <2>1, <2>3, <3>1 DEF SeenInv
    <3> QED
      BY <1>4, <3>1, <3>2, ReadyKept DEF ProgressInv
  <2> QED
    BY <2>1, <2>2, <2>3
<1>7. CASE AwaitedNode
  <2>1. /\ run.stage = "verify" /\ run'.stage = "ports" /\ cloud' = cloud
        /\ cloud.provision[run.at] = "manageable"
        /\ cloud.node[run.at] = "declared"
    BY <1>7 DEF AwaitedNode, Comes, Looked, ProgressInv, SeenInv
  <2>2. SeenInv'
    BY <1>3, <2>1 DEF SeenInv
  <2> QED
    BY <1>4, <2>1, <2>2, ReadyKept DEF ProgressInv
<1> QED
  BY <1>5, <1>6, <1>7

\* The steps that give the node at hand its ports, and those that end the loop.
LEMMA PortSteps ==
  ASSUME RoleTypeOK, AtInv, ProgressInv, ~run.check,
         ListedPorts \/ (\E m \in Macs : DidPort(m)) \/ DoneNode \/ DoneNodes
  PROVE  ProgressInv'
<1>1. cloud \in Clouds
  BY DEF RoleTypeOK
<1>2. CASE ListedPorts
  <2>1. /\ run.at \in Nodes
        /\ run.stage = "ports" /\ run'.stage = "port"
        /\ run'.at = run.at /\ run'.todo = run.todo /\ run'.result = run.result
        /\ run'.ports = PortsOf[run.at] /\ cloud' = cloud
        /\ seen' = [owner |-> [m \in PortsOf[run.at] |-> cloud.owner[m]],
                    network |-> [m \in PortsOf[run.at] |-> cloud.network[m]]]
    BY <1>2 DEF ListedPorts, Comes, Looked, AtInv, NodeStages
  <2>2. /\ cloud.node[run.at] = "declared"
        /\ cloud.provision[run.at] = "manageable"
    BY <2>1 DEF ProgressInv, SeenInv
  <2>3. \A m \in PortsOf[run.at] : /\ seen'.owner[m] = cloud.owner[m]
                                   /\ seen'.network[m] = cloud.network[m]
    BY <2>1
  <2>4. SeenInv'
    BY <2>1, <2>2, <2>3 DEF SeenInv
  <2>5. LoopInv'
    BY <2>1, LoopKept, LoopStages, ReadyKept DEF ProgressInv
  <2>6. LaterInv'
    BY <2>1, SaysNothing, LoopStages
  <2> QED
    BY <2>4, <2>5, <2>6 DEF ProgressInv
<1>3. ASSUME NEW m \in Macs, DidPort(m) PROVE ProgressInv'
  <2>1. /\ run.at \in Nodes /\ m \in run.ports
        /\ run.stage = "port" /\ run'.stage = "port"
        /\ run'.at = run.at /\ run'.todo = run.todo /\ run'.result = run.result
        /\ run'.ports = run.ports \ {m} /\ seen' = seen
    BY <1>3 DEF DidPort, Comes, Wrote, Looked, AtInv, NodeStages
  <2>2. /\ cloud.node[run.at] = "declared"
        /\ cloud.provision[run.at] = "manageable"
        /\ \A k \in PortsOf[run.at] :
             IF k \in run.ports
             THEN /\ seen.owner[k] = cloud.owner[k]
                  /\ seen.network[k] = cloud.network[k]
             ELSE cloud.owner[k] = run.at /\ cloud.network[k] = "declared"
    BY <2>1 DEF ProgressInv, SeenInv
  <2>3. /\ cloud'.node = cloud.node /\ cloud'.provision = cloud.provision
        /\ \A k \in Macs : k # m => /\ cloud'.owner[k] = cloud.owner[k]
                                    /\ cloud'.network[k] = cloud.network[k]
        /\ m \in PortsOf[run.at] => cloud'.owner[m] = run.at
                                    /\ cloud'.network[m] = "declared"
        /\ \/ cloud' = cloud
           \/ cloud.owner[m] \in {NoOne, run.at}
    <3>1. CASE /\ cloud.owner[m] = NoOne
               /\ cloud' = [cloud EXCEPT !.owner[m] = run.at,
                                         !.network[m] = "declared"]
      BY <1>1, <3>1 DEF Clouds
    <3>2. CASE /\ cloud.owner[m] = run.at
               /\ cloud' = [cloud EXCEPT !.network[m] = "declared"]
      BY <1>1, <3>2 DEF Clouds
    <3>3. CASE /\ seen.owner[m] = run.at /\ seen.network[m] = "declared"
               /\ cloud' = cloud
      BY <2>1, <2>2, <3>3
    <3> QED
      BY <1>3, <3>1, <3>2, <3>3 DEF DidPort, Wrote, Looked
  <2>4. PortsOf[run.at] \subseteq Macs
    BY <2>1, RoleAssumption
  <2>5. SeenInv'
    <3>1. ASSUME NEW k \in PortsOf[run.at]
          PROVE  IF k \in run.ports \ {m}
                 THEN /\ seen.owner[k] = cloud'.owner[k]
                      /\ seen.network[k] = cloud'.network[k]
                 ELSE cloud'.owner[k] = run.at /\ cloud'.network[k] = "declared"
      BY <2>2, <2>3, <2>4
    <3> QED
      BY <2>1, <2>2, <2>3, <3>1 DEF SeenInv
  <2>6. ASSUME NEW n \in Nodes, n # run.at, NodeReady(n) PROVE NodeReady(n)'
    <3>1. CASE cloud' = cloud
      BY <2>6, <3>1, ReadyKept
    <3>2. CASE cloud.owner[m] \in {NoOne, run.at}
      <4>1. m \notin PortsOf[n]
        BY <2>6, <3>2, RoleAssumption DEF NodeReady
      <4>2. PortsOf[n] \subseteq Macs
        BY RoleAssumption
      <4> QED
        BY <2>3, <2>6, <4>1, <4>2 DEF NodeReady
    <3> QED
      BY <2>3, <3>1, <3>2
  <2>7. LoopInv'
    BY <2>1, <2>6, LoopKept, LoopStages DEF ProgressInv
  <2>8. LaterInv'
    BY <2>1, SaysNothing, LoopStages
  <2> QED
    BY <2>5, <2>7, <2>8 DEF ProgressInv
<1>4. CASE DoneNode
  <2>1. /\ run.at \in Nodes /\ run.ports = {}
        /\ run.stage = "port" /\ run'.stage = "node"
        /\ run'.at = NoOne /\ run'.todo = run.todo /\ run'.result = run.result
        /\ cloud' = cloud
    BY <1>4 DEF DoneNode, Comes, Looked, AtInv, NodeStages
  <2>2. NodeReady(run.at)
    BY <2>1 DEF ProgressInv, SeenInv, NodeReady
  <2>3. LoopInv'
    <3>1. run.stage \in NodeLoop
      BY <2>1, LoopStages
    <3>2. run.result # "failed" => \A n \in Nodes \ run.todo : NodeReady(n)
      BY <2>2, <3>1 DEF ProgressInv, LoopInv
    <3> QED
      BY <2>1, <3>2, ReadyKept DEF LoopInv
  <2>4. SeenInv' /\ LaterInv'
    BY <2>1, SaysNothing, LoopStages DEF NodeStages
  <2> QED
    BY <2>3, <2>4 DEF ProgressInv
<1>5. CASE DoneNodes
  <2>1. /\ run.at = NoOne /\ run.todo = {} /\ run.result # "failed"
        /\ run.stage = "node" /\ run'.stage = "segment" /\ cloud' = cloud
    BY <1>5 DEF DoneNodes, Comes, Looked, AtInv
  <2>2. run.stage \in NodeLoop
    BY <2>1, LoopStages
  <2>3. \A n \in Nodes : NodeReady(n)
    BY <2>1, <2>2, RoleAssumption DEF ProgressInv, LoopInv
  <2>4. \A n \in Nodes : NodeReady(n)'
    BY <2>1, <2>3, ReadyKept
  <2>5. LaterInv'
    BY <2>1, <2>4 DEF LaterInv, Past, AfterSegment, AfterHosts, AfterPopulate
  <2>6. SeenInv' /\ LoopInv'
    BY <2>1, SaysNothing, LoopStages DEF NodeStages
  <2> QED
    BY <2>5, <2>6 DEF ProgressInv
<1> QED
  BY <1>2, <1>3, <1>4, <1>5

\* After the loop only the last part of the invariant says anything.
LEMMA LaterOnly ==
  ASSUME run'.stage \in AfterNodes \cup {"idle"}, LaterInv'
  PROVE  ProgressInv'
BY SaysNothing, LoopStages DEF ProgressInv

\* The steps on the segment, and the read of its hosts.
LEMMA SegmentSteps ==
  ASSUME RoleTypeOK, ProgressInv, ~run.check,
         ListedSegment \/ DidSegment \/ ListedHosts
  PROVE  ProgressInv'
<1> USE DEF Past, AfterPopulate, AfterHosts, AfterSegment, AfterNodes
<1>1. cloud \in Clouds
  BY DEF RoleTypeOK
<1>2. CASE ListedSegment
  <2>1. /\ run.stage = "segment" /\ run'.stage = "putSegment" /\ cloud' = cloud
        /\ seen' = [segment |-> cloud.segment]
    BY <1>2 DEF ListedSegment, Comes, Looked
  <2>2. \A n \in Nodes : NodeReady(n)'
    BY <2>1, ReadyKept DEF ProgressInv, LaterInv
  <2>3. LaterInv'
    BY <2>1, <2>2 DEF LaterInv
  <2> QED
    BY <2>1, <2>3, LaterOnly
<1>3. CASE DidSegment
  <2>1. run.stage = "putSegment" /\ run'.stage = "hosts"
    BY <1>3 DEF DidSegment, Comes
  <2>2. /\ cloud'.segment = "declared"
        /\ cloud'.node = cloud.node /\ cloud'.provision = cloud.provision
        /\ cloud'.owner = cloud.owner /\ cloud'.network = cloud.network
    <3>1. CASE cloud' = [cloud EXCEPT !.segment = "declared"]
      BY <1>1, <3>1 DEF Clouds
    <3>2. CASE seen.segment = "declared" /\ cloud' = cloud
      BY <2>1, <3>2 DEF ProgressInv, LaterInv
    <3> QED
      BY <1>3, <3>1, <3>2 DEF DidSegment, Wrote, Looked
  <2>3. \A n \in Nodes : NodeReady(n)'
    BY <2>1, <2>2 DEF ProgressInv, LaterInv, NodeReady
  <2>4. LaterInv'
    BY <2>1, <2>2, <2>3 DEF LaterInv
  <2> QED
    BY <2>1, <2>4, LaterOnly
<1>4. CASE ListedHosts
  <2>1. /\ run.stage = "hosts" /\ run'.stage = "host" /\ cloud' = cloud
        /\ run'.todo = Nodes
        /\ seen' = [host |-> cloud.host, maintenance |-> cloud.maintenance]
    BY <1>4 DEF ListedHosts, Comes, Looked
  <2>2. \A n \in Nodes : NodeReady(n)'
    BY <2>1, ReadyKept DEF ProgressInv, LaterInv
  <2>3. cloud'.segment = "declared"
    BY <2>1 DEF ProgressInv, LaterInv
  <2>4. \A n \in Nodes : /\ seen'.host[n] = cloud'.host[n]
                         /\ seen'.maintenance[n] = cloud'.maintenance[n]
    BY <2>1
  <2>5. LaterInv'
    BY <2>1, <2>2, <2>3, <2>4 DEF LaterInv
  <2> QED
    BY <2>1, <2>5, LaterOnly
<1> QED
  BY <1>2, <1>3, <1>4

\* What a step on host n does to the records.
LEMMA HostWritten ==
  ASSUME RoleTypeOK, ProgressInv, ~run.check, NEW n \in Nodes, DidHost(n)
  PROVE  /\ cloud'.node = cloud.node /\ cloud'.provision = cloud.provision
         /\ cloud'.owner = cloud.owner /\ cloud'.network = cloud.network
         /\ cloud'.segment = cloud.segment
         /\ \A k \in Nodes : k # n =>
              /\ cloud'.host[k] = cloud.host[k]
              /\ cloud'.maintenance[k] = cloud.maintenance[k]
         /\ HostReady(n)'
<1>1. cloud \in Clouds
  BY DEF RoleTypeOK
<1>2. run.stage = "host" /\ n \in run.todo
  BY DEF DidHost
<1>3. /\ seen.host[n] = cloud.host[n]
      /\ seen.maintenance[n] = cloud.maintenance[n]
  BY <1>2 DEF ProgressInv, LaterInv
<1>4. cloud.maintenance[n] \in BOOLEAN /\ cloud.host[n] \in Records
  BY <1>1, CloudFields
<1>5. CASE cloud' = [cloud EXCEPT !.host[n] = "declared",
                                  !.maintenance[n] = n \in Maintained]
  BY <1>1, <1>5 DEF Clouds, HostReady
<1>6. CASE /\ seen.host[n] = "drifted" \/ (seen.host[n] = "declared" /\ Moved(n))
           /\ cloud' = [cloud EXCEPT
                !.host[n] = IF seen.host[n] = "drifted" THEN "declared" ELSE @,
                !.maintenance[n] = IF Moved(n) THEN n \in Maintained ELSE @]
  <2> DEFINE h == IF seen.host[n] = "drifted" THEN "declared" ELSE cloud.host[n]
             k == IF Moved(n) THEN n \in Maintained ELSE cloud.maintenance[n]
  <2>1. cloud' = [cloud EXCEPT !.host[n] = h, !.maintenance[n] = k]
    BY <1>1, <1>6 DEF Clouds
  <2>2. h = "declared"
    BY <1>3, <1>6
  <2>3. k <=> n \in Maintained
    BY <1>3, <1>4 DEF Moved
  <2> HIDE DEF h, k
  <2>4. /\ cloud'.host = [cloud.host EXCEPT ![n] = h]
        /\ cloud'.maintenance = [cloud.maintenance EXCEPT ![n] = k]
        /\ cloud'.node = cloud.node /\ cloud'.provision = cloud.provision
        /\ cloud'.owner = cloud.owner /\ cloud'.network = cloud.network
        /\ cloud'.segment = cloud.segment
    BY <1>1, <2>1 DEF Clouds
  <2> QED
    BY <1>1, <2>2, <2>3, <2>4, CloudFields DEF HostReady
<1>7. CASE seen.host[n] = "declared" /\ ~Moved(n) /\ cloud' = cloud
  <2>1. cloud.maintenance[n] = (n \in Maintained)
    BY <1>3, <1>7 DEF Moved
  <2>2. HostReady(n)
    BY <1>3, <1>7, <2>1 DEF HostReady
  <2> QED
    BY <1>7, <2>2, ReadyKept
<1> QED
  BY <1>5, <1>6, <1>7 DEF DidHost, Wrote, Looked

\* The steps on the hosts.
LEMMA HostSteps ==
  ASSUME RoleTypeOK, ProgressInv, ~run.check,
         (\E n \in Nodes : DidHost(n)) \/ DoneHosts
  PROVE  ProgressInv'
<1> USE DEF Past, AfterPopulate, AfterHosts, AfterSegment, AfterNodes
<1>1. ASSUME NEW n \in Nodes, DidHost(n) PROVE ProgressInv'
  <2>1. /\ run.stage = "host" /\ run'.stage = "host"
        /\ run'.todo = run.todo \ {n} /\ seen' = seen
    BY <1>1 DEF DidHost, Comes, Wrote, Looked
  <2>2. /\ cloud'.node = cloud.node /\ cloud'.provision = cloud.provision
        /\ cloud'.owner = cloud.owner /\ cloud'.network = cloud.network
        /\ cloud'.segment = cloud.segment
        /\ \A k \in Nodes : k # n =>
             /\ cloud'.host[k] = cloud.host[k]
             /\ cloud'.maintenance[k] = cloud.maintenance[k]
        /\ HostReady(n)'
    BY <1>1, HostWritten
  <2>3. \A k \in Nodes : NodeReady(k)'
    BY <2>1, <2>2 DEF ProgressInv, LaterInv, NodeReady
  <2>4. cloud'.segment = "declared"
    BY <2>1, <2>2 DEF ProgressInv, LaterInv
  <2>5. ASSUME NEW k \in Nodes
        PROVE  IF k \in run'.todo
               THEN /\ seen'.host[k] = cloud'.host[k]
                    /\ seen'.maintenance[k] = cloud'.maintenance[k]
               ELSE HostReady(k)'
    <3>1. CASE k = n
      BY <2>1, <2>2, <3>1
    <3>2. CASE k # n /\ k \in run.todo
      BY <2>1, <2>2, <3>2 DEF ProgressInv, LaterInv
    <3>3. CASE k # n /\ k \notin run.todo
      <4>1. HostReady(k)
        BY <2>1, <3>3 DEF ProgressInv, LaterInv
      <4>2. HostReady(k)'
        BY <2>2, <3>3, <4>1 DEF HostReady
      <4> QED
        BY <2>1, <3>3, <4>2
    <3> QED
      BY <3>1, <3>2, <3>3
  <2>6. LaterInv'
    BY <2>1, <2>3, <2>4, <2>5 DEF LaterInv
  <2> QED
    BY <2>1, <2>6, LaterOnly
<1>2. CASE DoneHosts
  <2>1. /\ run.stage = "host" /\ run'.stage = "populate" /\ run.todo = {}
        /\ cloud' = cloud
    BY <1>2 DEF DoneHosts, Comes, Looked
  <2>2. \A n \in Nodes : NodeReady(n) /\ HostReady(n)
    BY <2>1 DEF ProgressInv, LaterInv
  <2>3. \A n \in Nodes : NodeReady(n)' /\ HostReady(n)'
    BY <2>1, <2>2, ReadyKept
  <2>4. cloud'.segment = "declared"
    BY <2>1 DEF ProgressInv, LaterInv
  <2>5. LaterInv'
    BY <2>1, <2>3, <2>4 DEF LaterInv
  <2> QED
    BY <2>1, <2>5, LaterOnly
<1> QED
  BY <1>1, <1>2

\* The steps on the workbook, and the summary.
LEMMA WorkbookSteps ==
  ASSUME RoleTypeOK, ProgressInv, ~run.check,
         Populated \/ ListedWorkbook \/ DidWorkbook \/ Summarised
  PROVE  ProgressInv'
<1> USE DEF Past, AfterPopulate, AfterHosts, AfterSegment, AfterNodes
<1>1. cloud \in Clouds
  BY DEF RoleTypeOK
<1>2. run.stage \in {"populate", "workbook", "putWorkbook", "validate"}
  BY DEF Populated, ListedWorkbook, DidWorkbook, Summarised
<1>3. /\ \A n \in Nodes : NodeReady(n) /\ HostReady(n)
      /\ cloud.segment = "declared"
  BY <1>2 DEF ProgressInv, LaterInv
<1>4. /\ cloud'.node = cloud.node /\ cloud'.provision = cloud.provision
      /\ cloud'.owner = cloud.owner /\ cloud'.network = cloud.network
      /\ cloud'.segment = cloud.segment /\ cloud'.host = cloud.host
      /\ cloud'.maintenance = cloud.maintenance
      /\ Populated => cloud'.actions
      /\ ~Populated => cloud'.actions = cloud.actions
  <2>1. CASE Populated
    BY <1>1, <2>1 DEF Populated, Clouds
  <2>2. CASE cloud' = [cloud EXCEPT !.workbook = "declared"] /\ ~Populated
    BY <1>1, <2>2 DEF Clouds
  <2>3. CASE cloud' = cloud /\ ~Populated
    BY <2>3
  <2> QED
    BY <2>1, <2>2, <2>3 DEF ListedWorkbook, DidWorkbook, Summarised, Wrote, Looked
<1>5. /\ \A n \in Nodes : NodeReady(n)' /\ HostReady(n)'
      /\ cloud'.segment = "declared"
  BY <1>3, <1>4 DEF NodeReady, HostReady
<1>6. CASE Populated
  <2>1. run'.stage = "workbook"
    BY <1>6 DEF Populated, Comes
  <2>2. LaterInv'
    BY <1>4, <1>5, <1>6, <2>1 DEF LaterInv
  <2> QED
    BY <2>1, <2>2, LaterOnly
<1>7. CASE ~Populated
  <2>1. run.stage \in AfterPopulate
    BY <1>7 DEF ListedWorkbook, DidWorkbook, Summarised
  <2>2. cloud'.actions
    BY <1>4, <1>7, <2>1 DEF ProgressInv, LaterInv
  <2>3. CASE ListedWorkbook
    <3>1. /\ run'.stage = "putWorkbook" /\ cloud' = cloud
          /\ seen' = [workbook |-> cloud.workbook]
      BY <2>3 DEF ListedWorkbook, Comes, Looked
    <3>2. LaterInv'
      BY <1>5, <2>2, <3>1 DEF LaterInv
    <3> QED
      BY <3>1, <3>2, LaterOnly
  <2>4. CASE DidWorkbook
    <3>1. run.stage = "putWorkbook" /\ run'.stage = "validate"
      BY <2>4 DEF DidWorkbook, Comes
    <3>2. cloud'.workbook = "declared"
      <4>1. CASE cloud' = [cloud EXCEPT !.workbook = "declared"]
        BY <1>1, <4>1 DEF Clouds
      <4>2. CASE seen.workbook = "declared" /\ cloud' = cloud
        BY <3>1, <4>2 DEF ProgressInv, LaterInv
      <4> QED
        BY <2>4, <4>1, <4>2 DEF DidWorkbook, Wrote, Looked
    <3>3. LaterInv'
      BY <1>5, <2>2, <3>1, <3>2 DEF LaterInv
    <3> QED
      BY <3>1, <3>3, LaterOnly
  <2>5. CASE Summarised
    <3>1. run.stage = "validate" /\ run'.stage = "idle" /\ cloud' = cloud
      BY <2>5 DEF Summarised
    <3>2. cloud'.workbook = "declared"
      BY <3>1 DEF ProgressInv, LaterInv
    <3>3. LaterInv'
      BY <1>5, <2>2, <3>1, <3>2 DEF LaterInv
    <3> QED
      BY <3>1, <3>3, LaterOnly
  <2> QED
    BY <1>7, <2>3, <2>4, <2>5
<1> QED
  BY <1>6, <1>7

\* Ironic may end a verification at any time.
LEMMA VerifiedStep ==
  ASSUME RoleTypeOK, AtInv, ProgressInv, NEW n \in Nodes, Verified(n)
  PROVE  ProgressInv'
<1>1. cloud \in Clouds
  BY DEF RoleTypeOK
<1>2. cloud.provision[n] = "verifying" /\ run' = run /\ seen' = seen
  BY DEF Verified
<1>3. /\ cloud'.node = cloud.node /\ cloud'.owner = cloud.owner
      /\ cloud'.network = cloud.network /\ cloud'.segment = cloud.segment
      /\ cloud'.host = cloud.host /\ cloud'.maintenance = cloud.maintenance
      /\ cloud'.workbook = cloud.workbook /\ cloud'.actions = cloud.actions
      /\ \A k \in Nodes : k # n => cloud'.provision[k] = cloud.provision[k]
  BY <1>1 DEF Verified, Clouds
<1>4. \A k \in Nodes : /\ NodeReady(k) => NodeReady(k)'
                       /\ HostReady(k) => HostReady(k)'
  BY <1>2, <1>3 DEF NodeReady, HostReady
<1>5. SeenInv'
  <2>1. CASE run.stage \in NodeStages
    BY <1>2, <1>3, <2>1 DEF SeenInv, ProgressInv, AtInv, NodeStages
  <2>2. CASE run.stage \notin NodeStages
    BY <1>2, <2>2, SaysNothing
  <2> QED
    BY <2>1, <2>2
<1>6. LoopInv'
  BY <1>2, <1>4 DEF LoopInv, ProgressInv
<1>7. LaterInv'
  BY <1>2, <1>3, <1>4 DEF LaterInv, ProgressInv, Past
<1> QED
  BY <1>5, <1>6, <1>7 DEF ProgressInv

\* Which records a step on a node writes: those of the node at hand, and only
\* after the check that they depend on.
LEMMA NodeWrites ==
  ASSUME RoleTypeOK, AtInv, NodeStep
  PROVE  /\ \A n \in Nodes :
              cloud'.node[n] # cloud.node[n] =>
                /\ ~run.check /\ run.at = n /\ cloud'.node[n] = "declared"
                /\ \/ run.stage = "create" /\ cloud.node[n] = "absent"
                   \/ /\ run.stage = "update" /\ cloud.node[n] # "absent"
                      /\ seen.provision \in {"enroll", "manageable"}
         /\ \A n \in Nodes :
              cloud'.provision[n] # cloud.provision[n] =>
                cloud'.node[n] = "declared" \/ cloud.provision[n] = "enroll"
         /\ \A m \in Macs :
              cloud'.owner[m] # cloud.owner[m] =>
                /\ ~run.check /\ run.stage = "port" /\ cloud'.owner[m] = run.at
                /\ cloud.owner[m] = NoOne
         /\ cloud'.workbook = cloud.workbook
<1>1. cloud \in Clouds
  BY DEF RoleTypeOK
<1>2. CASE cloud' = cloud
  BY <1>2
<1>3. CASE CreatedNode /\ cloud' # cloud
  <2>1. /\ run.at \in Nodes /\ run.stage = "create" /\ ~run.check
        /\ cloud.node[run.at] = "absent"
        /\ cloud' = [cloud EXCEPT !.node[run.at] = "declared",
                                  !.provision[run.at] = "enroll"]
    BY <1>3 DEF CreatedNode, Wrote, AtInv, NodeStages
  <2> QED
    BY <1>1, <2>1 DEF Clouds
<1>4. CASE UpdatedNode /\ cloud' # cloud
  <2>1. /\ run.at \in Nodes /\ run.stage = "update" /\ ~run.check
        /\ cloud.node[run.at] # "absent"
        /\ seen.provision \in {"enroll", "manageable"}
        /\ cloud' = [cloud EXCEPT !.node[run.at] =
                       IF seen.node = "drifted" THEN "declared" ELSE @]
    BY <1>4 DEF UpdatedNode, Wrote, Looked, AtInv, NodeStages
  <2>2. /\ cloud'.node = [cloud.node EXCEPT ![run.at] =
                            IF seen.node = "drifted" THEN "declared" ELSE @]
        /\ cloud'.provision = cloud.provision /\ cloud'.owner = cloud.owner
        /\ cloud'.workbook = cloud.workbook
    BY <1>1, <2>1 DEF Clouds
  <2> QED
    BY <1>1, <2>1, <2>2, CloudFields
<1>5. CASE ManagedNode /\ cloud' # cloud
  <2>1. /\ run.at \in Nodes /\ cloud.provision[run.at] = "enroll"
        /\ cloud' = [cloud EXCEPT !.provision[run.at] = "verifying"]
    BY <1>5 DEF ManagedNode, Wrote, Looked, AtInv, NodeStages
  <2> QED
    BY <1>1, <2>1 DEF Clouds
<1>6. ASSUME NEW m \in Macs, DidPort(m), cloud' # cloud
      PROVE  /\ cloud'.node = cloud.node /\ cloud'.provision = cloud.provision
             /\ cloud'.workbook = cloud.workbook
             /\ ~run.check /\ run.stage = "port"
             /\ \A k \in Macs :
                  cloud'.owner[k] # cloud.owner[k] =>
                    cloud'.owner[k] = run.at /\ cloud.owner[k] = NoOne
  <2>1. ~run.check /\ run.stage = "port"
    BY <1>6 DEF DidPort, Wrote, Looked
  <2>2. CASE /\ cloud.owner[m] = NoOne
             /\ cloud' = [cloud EXCEPT !.owner[m] = run.at,
                                       !.network[m] = "declared"]
    BY <1>1, <2>1, <2>2 DEF Clouds
  <2>3. CASE cloud' = [cloud EXCEPT !.network[m] = "declared"]
    BY <1>1, <2>1, <2>3 DEF Clouds
  <2> QED
    BY <1>6, <2>2, <2>3 DEF DidPort, Wrote, Looked
<1>7. \/ cloud' = cloud
      \/ CreatedNode \/ UpdatedNode \/ ManagedNode \/ \E m \in Macs : DidPort(m)
  BY DEF NodeStep, ListedNode, Preflighted, AwaitedNode, ListedPorts, DoneNode,
         DoneNodes, Looked
<1> QED
  BY <1>2, <1>3, <1>4, <1>5, <1>6, <1>7

\* The later steps leave the nodes and their ports alone, and write the workbook
\* only in its own task.
LEMMA LaterWrites ==
  ASSUME RoleTypeOK, LaterStep
  PROVE  /\ cloud'.node = cloud.node /\ cloud'.provision = cloud.provision
         /\ cloud'.owner = cloud.owner
         /\ cloud'.workbook # cloud.workbook =>
              ~run.check /\ run.stage = "putWorkbook"
<1>1. cloud \in Clouds
  BY DEF RoleTypeOK
<1>2. CASE cloud' = cloud
  BY <1>2
<1>3. CASE cloud' = [cloud EXCEPT !.segment = "declared"]
  BY <1>1, <1>3 DEF Clouds
<1>4. ASSUME NEW n \in Nodes, DidHost(n), cloud' # cloud
      PROVE  /\ cloud'.node = cloud.node /\ cloud'.provision = cloud.provision
             /\ cloud'.owner = cloud.owner /\ cloud'.workbook = cloud.workbook
  <2>1. CASE cloud' = [cloud EXCEPT !.host[n] = "declared",
                                    !.maintenance[n] = n \in Maintained]
    BY <1>1, <2>1 DEF Clouds
  <2>2. CASE cloud' = [cloud EXCEPT
               !.host[n] = IF seen.host[n] = "drifted" THEN "declared" ELSE @,
               !.maintenance[n] = IF Moved(n) THEN n \in Maintained ELSE @]
    BY <1>1, <2>2 DEF Clouds
  <2> QED
    BY <1>4, <2>1, <2>2 DEF DidHost, Wrote, Looked
<1>5. CASE Populated
  BY <1>1, <1>5 DEF Populated, Clouds
<1>6. CASE DidWorkbook /\ cloud' # cloud
  <2>1. /\ run.stage = "putWorkbook" /\ ~run.check
        /\ cloud' = [cloud EXCEPT !.workbook = "declared"]
    BY <1>6 DEF DidWorkbook, Wrote, Looked
  <2> QED
    BY <1>1, <2>1 DEF Clouds
<1>7. \/ cloud' = cloud
      \/ cloud' = [cloud EXCEPT !.segment = "declared"]
      \/ (\E n \in Nodes : DidHost(n)) \/ Populated \/ DidWorkbook
  BY DEF LaterStep, ListedSegment, DidSegment, ListedHosts, DoneHosts,
         ListedWorkbook, Summarised, Looked, Wrote
<1> QED
  BY <1>2, <1>3, <1>4, <1>5, <1>6, <1>7

\* No step leaves a node with a provision state and without a record.
LEMMA AbsentStep ==
  ASSUME RoleTypeOK, AtInv, AbsentInv, Next
  PROVE  AbsentInv'
<1>1. cloud \in Clouds
  BY DEF RoleTypeOK
<1>2. CASE NodeStep
  <2> SUFFICES ASSUME NEW n \in Nodes, cloud'.node[n] = "absent"
               PROVE  cloud'.provision[n] = "none"
    BY DEF AbsentInv
  <2>1. cloud.node[n] = "absent"
    BY <1>2, NodeWrites
  <2>2. cloud.provision[n] = "none"
    BY <2>1 DEF AbsentInv
  <2> QED
    BY <1>2, <2>2, NodeWrites
<1>3. CASE LaterStep
  BY <1>3, LaterWrites DEF AbsentInv
<1>4. CASE Failed \/ Started
  BY <1>4 DEF Failed, Started, AbsentInv
<1>5. ASSUME NEW n \in Nodes, Verified(n) PROVE AbsentInv'
  <2>1. cloud.node[n] # "absent"
    BY <1>5 DEF Verified, AbsentInv
  <2>2. /\ cloud'.node = cloud.node
        /\ \A k \in Nodes : k # n => cloud'.provision[k] = cloud.provision[k]
    BY <1>1, <1>5 DEF Verified, Clouds
  <2> QED
    BY <2>1, <2>2 DEF AbsentInv
<1>6. CASE OthersWrote
  BY <1>6 DEF OthersWrote, AbsentInv
<1> QED
  BY <1>2, <1>3, <1>4, <1>5, <1>6, StepsMean

\* A step on a node belongs to the run at hand, and so does a later one.
LEMMA RunKept ==
  ASSUME NodeStep \/ LaterStep
  PROVE  run'.check = run.check /\ quiet' = quiet
BY DEF NodeStep, LaterStep, ListedNode, Preflighted, CreatedNode, UpdatedNode,
       ManagedNode, AwaitedNode, ListedPorts, DidPort, DoneNode, DoneNodes,
       ListedSegment, DidSegment, ListedHosts, DidHost, DoneHosts, Populated,
       ListedWorkbook, DidWorkbook, Summarised, Comes, Wrote, Looked

\* The invariant is inductive.
LEMMA RoleInvStep ==
  ASSUME RoleInv, [Next]_vars
  PROVE  RoleInv'
<1>1. CASE UNCHANGED vars
  BY <1>1 DEF vars, RoleInv, RoleTypeOK, AtInv, AbsentInv, ProgressInv, SeenInv,
              LoopInv, LaterInv, Past, NodeReady, HostReady
<1>2. CASE Next
  <2>1. RoleTypeOK /\ AtInv /\ AbsentInv
    BY DEF RoleInv
  <2>2. RoleTypeOK' /\ AtInv' /\ AbsentInv'
    BY <1>2, <2>1, StepsMean, AtStep, AbsentStep
  <2>3. ASSUME quiet', ~run'.check PROVE ProgressInv'
    <3>1. CASE NodeStep
      <4>1. ProgressInv /\ ~run.check
        BY <2>3, <3>1, RunKept DEF RoleInv
      <4> QED
        BY <2>1, <3>1, <4>1, FirstNodeSteps, ProvisionSteps, PortSteps DEF NodeStep
    <3>2. CASE LaterStep
      <4>1. ProgressInv /\ ~run.check
        BY <2>3, <3>2, RunKept DEF RoleInv
      <4> QED
        BY <2>1, <3>2, <4>1, SegmentSteps, HostSteps, WorkbookSteps DEF LaterStep
    <3>3. CASE Failed \/ Started
      BY <3>3, NoClaim
    <3>4. ASSUME NEW n \in Nodes, Verified(n) PROVE ProgressInv'
      <4>1. ProgressInv
        BY <2>3, <3>4 DEF RoleInv, Verified
      <4> QED
        BY <2>1, <3>4, <4>1, VerifiedStep
    <3>5. CASE OthersWrote
      BY <2>3, <3>5 DEF OthersWrote
    <3> QED
      BY <1>2, <2>1, <3>1, <3>2, <3>3, <3>4, <3>5, StepsMean
  <2> QED
    BY <2>2, <2>3 DEF RoleInv
<1> QED
  BY <1>1, <1>2

\* Every reachable state of the role satisfies the invariant.
THEOREM RoleInvariant == Spec => []RoleInv
<1>1. Init => RoleInv
  <2> SUFFICES ASSUME Init PROVE RoleInv
    OBVIOUS
  <2>1. RoleTypeOK /\ AtInv
    BY RoleInit
  <2>2. AbsentInv
    BY DEF Init, Fresh, AbsentInv
  <2>3. ProgressInv
    BY DEF Init, Idle, ProgressInv, SeenInv, LoopInv, LaterInv, Past, NodeLoop,
           NodeStages, AfterNodes, AfterSegment, AfterHosts, AfterPopulate
  <2> QED
    BY <2>1, <2>2, <2>3 DEF RoleInv
<1> QED
  BY <1>1, RoleInvStep, PTL DEF Spec

\* A run of the role that ends without an error, and into which nobody else has
\* written, has brought every declared record into the declared state, whatever
\* earlier runs had left behind.
THEOREM UndisturbedRunConverges == Spec => []RunConverges
<1>1. RoleInv => RunConverges
  BY DEF RoleInv, ProgressInv, LaterInv, Past, RunConverges, Succeeded, Converged
<1> QED
  BY <1>1, RoleInvariant, PTL

\* A node is created only when none of its MACs belongs to another node:
\* _preflight_port_ownership comes first, and its answer still holds.
THEOREM NothingHalfRegistered == Spec => NoHalfRegistration
<1> DEFINE Free == \A n \in Nodes :
                     quiet /\ cloud.node[n] = "absent" /\ cloud'.node[n] # "absent"
                       => \A m \in PortsOf[n] : cloud.owner[m] = NoOne
<1>1. RoleInv /\ [Next]_vars => [Free]_vars
  <2> SUFFICES ASSUME RoleInv, Next, NEW n \in Nodes, quiet,
                      cloud.node[n] = "absent", cloud'.node[n] # "absent"
               PROVE  \A m \in PortsOf[n] : cloud.owner[m] = NoOne
    OBVIOUS
  <2>1. RoleTypeOK /\ AtInv
    BY DEF RoleInv
  <2>2. cloud \in Clouds
    BY <2>1 DEF RoleTypeOK
  <2>3. ~LaterStep /\ ~Failed /\ ~Started /\ ~OthersWrote
    BY <2>1, LaterWrites DEF Failed, Started, OthersWrote
  <2>4. ~ \E k \in Nodes : Verified(k)
    BY <2>2 DEF Verified, Clouds
  <2>5. NodeStep
    BY <2>1, <2>3, <2>4, StepsMean
  <2>6. ~run.check /\ run.at = n /\ run.stage = "create"
    BY <2>1, <2>5, NodeWrites
  <2> QED
    BY <2>6 DEF RoleInv, ProgressInv, SeenInv
<1> QED
  BY <1>1, RoleInvariant, PTL DEF Spec, NoHalfRegistration

\* The workbook is written only when every node and host that it looks up is in
\* place and its actions are known to Mistral.
THEOREM WorkbookWrittenLast == Spec => WorkbookComesLast
<1> DEFINE Last == quiet /\ quiet' /\ cloud'.workbook # cloud.workbook
                     => cloud.actions /\ \A n \in Nodes : NodeReady(n) /\ HostReady(n)
<1>1. RoleInv /\ [Next]_vars => [Last]_vars
  <2> SUFFICES ASSUME RoleInv, Next, quiet, quiet',
                      cloud'.workbook # cloud.workbook
               PROVE  cloud.actions /\ \A n \in Nodes : NodeReady(n) /\ HostReady(n)
    OBVIOUS
  <2>1. RoleTypeOK /\ AtInv
    BY DEF RoleInv
  <2>2. cloud \in Clouds
    BY <2>1 DEF RoleTypeOK
  <2>3. ~NodeStep /\ ~Failed /\ ~Started /\ ~OthersWrote
    BY <2>1, NodeWrites DEF Failed, Started, OthersWrote
  <2>4. ~ \E k \in Nodes : Verified(k)
    BY <2>2 DEF Verified, Clouds
  <2>5. LaterStep
    BY <2>1, <2>3, <2>4, StepsMean
  <2>6. ~run.check /\ run.stage = "putWorkbook"
    BY <2>1, <2>5, LaterWrites
  <2>7. run.stage \in AfterNodes /\ run.stage \in AfterHosts
        /\ run.stage \in AfterPopulate
    BY <2>6 DEF AfterNodes, AfterSegment, AfterHosts, AfterPopulate
  <2> QED
    BY <2>6, <2>7 DEF RoleInv, ProgressInv, LaterInv, Past
<1> QED
  BY <1>1, RoleInvariant, PTL DEF Spec, WorkbookComesLast

\* Undisturbed, the role changes a node's attributes in enroll and manageable
\* only, gives ports to manageable nodes only, and never takes a port or a node
\* away.
THEOREM ForbiddenUntouched == Spec => ForbiddenStateUntouched
<1> DEFINE Touch ==
      quiet /\ quiet' =>
        /\ \A n \in Nodes :
             cloud'.node[n] # cloud.node[n] =>
               /\ cloud'.node[n] = "declared"
               /\ cloud.provision[n] \in {"none", "enroll", "manageable"}
        /\ \A m \in Macs :
             cloud'.owner[m] # cloud.owner[m] =>
               /\ cloud.owner[m] = NoOne
               /\ cloud.provision[cloud'.owner[m]] = "manageable"
<1>1. RoleInv /\ [Next]_vars => [Touch]_vars
  <2> SUFFICES ASSUME RoleInv, Next, quiet, quiet'
               PROVE  Touch
    OBVIOUS
  <2>1. RoleTypeOK /\ AtInv /\ AbsentInv
    BY DEF RoleInv
  <2>2. cloud \in Clouds
    BY <2>1 DEF RoleTypeOK
  <2>3. CASE NodeStep
    <3>1. ASSUME NEW n \in Nodes, cloud'.node[n] # cloud.node[n]
          PROVE  /\ cloud'.node[n] = "declared"
                 /\ cloud.provision[n] \in {"none", "enroll", "manageable"}
      <4>1. /\ ~run.check /\ run.at = n /\ cloud'.node[n] = "declared"
            /\ \/ run.stage = "create" /\ cloud.node[n] = "absent"
               \/ /\ run.stage = "update" /\ cloud.node[n] # "absent"
                  /\ seen.provision \in {"enroll", "manageable"}
        BY <2>1, <2>3, <3>1, NodeWrites
      <4>2. cloud.node[n] = "absent" => cloud.provision[n] = "none"
        BY <2>1 DEF AbsentInv
      <4>3. run.stage = "update" => cloud.provision[n] = seen.provision
        BY <4>1 DEF RoleInv, ProgressInv, SeenInv
      <4> QED
        BY <4>1, <4>2, <4>3
    <3>2. ASSUME NEW m \in Macs, cloud'.owner[m] # cloud.owner[m]
          PROVE  /\ cloud.owner[m] = NoOne
                 /\ cloud.provision[cloud'.owner[m]] = "manageable"
      <4>1. /\ ~run.check /\ run.stage = "port" /\ cloud'.owner[m] = run.at
            /\ cloud.owner[m] = NoOne
        BY <2>1, <2>3, <3>2, NodeWrites
      <4>2. cloud.provision[run.at] = "manageable"
        BY <4>1 DEF RoleInv, ProgressInv, SeenInv
      <4> QED
        BY <4>1, <4>2
    <3> QED
      BY <3>1, <3>2
  <2>4. CASE LaterStep \/ Failed \/ Started \/ \E k \in Nodes : Verified(k)
    <3>1. cloud'.node = cloud.node /\ cloud'.owner = cloud.owner
      BY <2>1, <2>2, <2>4, LaterWrites DEF Failed, Started, Verified, Clouds
    <3> QED
      BY <3>1
  <2>5. CASE OthersWrote
    BY <2>5 DEF OthersWrote
  <2> QED
    BY <2>1, <2>3, <2>4, <2>5, StepsMean
<1> QED
  BY <1>1, RoleInvariant, PTL DEF Spec, ForbiddenStateUntouched
=============================================================================
