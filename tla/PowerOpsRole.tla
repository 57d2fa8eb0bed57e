----------------------------- MODULE PowerOpsRole -----------------------------
(***************************************************************************)
(* The powerops role of a deploy or reconfigure.  A run reconciles, in     *)
(* this order, the declared Ironic nodes with their ports, the Masakari    *)
(* segment with its hosts, and the Mistral workbook.  Each reconciler      *)
(* reads what is there and then writes what differs from what it has read, *)
(* so another API user can come in between; each call can fail; a run may  *)
(* be interrupted anywhere and be started again.                           *)
(*                                                                         *)
(* A record is absent, drifted (an attribute differs from the declared     *)
(* one) or declared.  The names of Ironic, Masakari and Mistral are unique *)
(* on the server side, so a create of something that exists is refused.    *)
(* Drift on top of drift is not told apart from drift.                     *)
(***************************************************************************)
EXTENDS FiniteSets, Naturals

CONSTANTS Nodes,        \* powerops_role_nodes
          Macs,
          PortsOf,      \* the MACs that a node declares
          Maintained,   \* the nodes that declare masakari_on_maintenance
          Masked,       \* the nodes whose BMC password Ironic shows as ******
          NoOne,
          Stranger,     \* an Ironic node that the role does not declare
          MaxTrouble    \* failed calls, interruptions and foreign changes

ASSUME RoleAssumption ==
  /\ NoOne \notin Nodes /\ Stranger \notin Nodes /\ NoOne # Stranger
  /\ PortsOf \in [Nodes -> SUBSET Macs]
  /\ Maintained \subseteq Nodes
  /\ Masked \subseteq Nodes
  /\ MaxTrouble \in Nat

VARIABLES cloud,     \* the records in Ironic, Masakari and Mistral
          run,       \* the run of the role: the latest one when idle
          seen,      \* what the running module has read
          quiet,     \* nobody else has written since the run was started
          forecast,  \* what a check run announced, until something intervenes
          off,       \* the hosts that planned_power_off has switched off
          trouble

vars == <<cloud, run, seen, quiet, forecast, off, trouble>>

Records == {"absent", "drifted", "declared"}
Provision == {"none", "enroll", "verifying", "manageable", "available"}
Owners == Nodes \cup {NoOne, Stranger}
NodeStages == {"preflight", "create", "update", "manage", "verify",
               "ports", "port"}
Stages == NodeStages \cup
          {"idle", "node", "segment", "putSegment", "hosts", "host",
           "populate", "workbook", "putWorkbook", "validate"}
Items == (Nodes \X {"node", "host"}) \cup (Macs \X {"port"})
         \cup {<<"segment", "segment">>, <<"workbook", "workbook">>}
NoSnapshot == [of |-> "nothing"]
NoForecast == {<<"none", "none">>}

Clouds == [node : [Nodes -> Records], provision : [Nodes -> Provision],
           owner : [Macs -> Owners], network : [Macs -> {"drifted", "declared"}],
           segment : Records \cup {"foreign"},
           host : [Nodes -> Records], maintenance : [Nodes -> BOOLEAN],
           workbook : Records, actions : BOOLEAN]

Fresh ==
  [node |-> [n \in Nodes |-> "absent"], provision |-> [n \in Nodes |-> "none"],
   owner |-> [m \in Macs |-> NoOne], network |-> [m \in Macs |-> "declared"],
   segment |-> "absent",
   host |-> [n \in Nodes |-> "absent"], maintenance |-> [n \in Nodes |-> FALSE],
   workbook |-> "absent", actions |-> FALSE]

Idle == [stage |-> "idle", at |-> NoOne, todo |-> {}, ports |-> {},
         check |-> FALSE, changed |-> {}, result |-> "none"]

Init == /\ cloud = Fresh
        /\ run = Idle
        /\ seen = NoSnapshot
        /\ quiet = TRUE
        /\ forecast = NoForecast
        /\ off = {}
        /\ trouble = 0

-----------------------------------------------------------------------------
(* The steps of a run.                                                     *)

OnlyRun == UNCHANGED <<cloud, quiet, forecast, off, trouble>>

\* The module goes on without a write.
Proceeds(next) == run' = next /\ UNCHANGED seen /\ OnlyRun

\* The module has read something.
Reads(next, snapshot) == run' = next /\ seen' = snapshot /\ OnlyRun

\* The role ends.  A check run that succeeds undisturbed leaves a forecast, to be
\* compared with the run that follows it.
Ends(result) ==
  /\ run' = [Idle EXCEPT !.check = run.check, !.changed = run.changed,
                         !.result = result]
  /\ seen' = NoSnapshot
  /\ forecast' = IF result = "failed" THEN NoForecast
                 ELSE IF run.check /\ quiet THEN run.changed ELSE forecast

\* A module of the loop over the nodes fails: Ansible goes on with the other
\* items, and the task fails when all of them are done.
NodeFails ==
  Reads([run EXCEPT !.stage = "node", !.at = NoOne, !.ports = {},
                    !.result = "failed"], NoSnapshot)

\* Any other task fails: the play stops.
Fails ==
  IF run.stage \in NodeStages THEN NodeFails
  ELSE Ends("failed") /\ UNCHANGED <<cloud, quiet, off, trouble>>

\* A write of item, reported as changed.  Nothing is sent in check mode.  The
\* server refuses it when what the module has read is out of date.
Writes(next, answer, item, accepted, after) ==
  \/ /\ run.check \/ accepted
     /\ run' = [next EXCEPT !.changed = @ \cup {item}]
     /\ seen' = answer
     /\ cloud' = IF run.check THEN cloud ELSE after
     /\ UNCHANGED <<quiet, forecast, off, trouble>>
  \/ ~ run.check /\ ~ accepted /\ Fails

GoTo(s) == [run EXCEPT !.stage = s]

Start(check) ==
  /\ run.stage = "idle"
  /\ run' = [Idle EXCEPT !.stage = "node", !.todo = Nodes, !.check = check]
  /\ quiet' = TRUE
  /\ forecast' = IF run.check THEN forecast ELSE NoForecast
  /\ UNCHANGED <<cloud, seen, off, trouble>>

-----------------------------------------------------------------------------
(* powerops_ironic_node, for each declared node in turn.                   *)

ListNodes(n) ==
  /\ run.stage = "node" /\ n \in run.todo
  /\ Reads([run EXCEPT !.stage = "preflight", !.at = n, !.todo = @ \ {n}],
           [node |-> cloud.node[n], provision |-> cloud.provision[n]])

\* _preflight_port_ownership: the declared MACs are free or the node's own.
\* Mutants: only an existing node is looked at; its own ports are a conflict.
ConflictOfKnownNode(n, created) ==
  ~ created /\ \E m \in PortsOf[n] : cloud.owner[m] \notin {NoOne, n}
ConflictWithItself(n, created) ==
  \E m \in PortsOf[n] : cloud.owner[m] # NoOne
PortConflict(n, created) ==
  \E m \in PortsOf[n] :
    cloud.owner[m] \notin {NoOne} \cup (IF created THEN {} ELSE {n})

\* What a check run announces for a node that is to be created.
\* Mutant: without its ports.
AnnouncedWithoutPorts(n) == {<<n, "node">>}
Announced(n) == {<<n, "node">>} \cup (PortsOf[n] \X {"port"})

PreflightPortOwnership ==
  /\ run.stage = "preflight"
  /\ LET n == run.at
         created == seen.node = "absent"
         conflict == PortConflict(n, created) IN
       \/ conflict /\ NodeFails
       \/ /\ ~ conflict /\ created /\ run.check
          /\ Reads([run EXCEPT !.stage = "node", !.at = NoOne,
                               !.changed = @ \cup Announced(n)],
                   NoSnapshot)
       \/ /\ ~ conflict /\ created /\ ~ run.check
          /\ Proceeds(GoTo("create"))
       \/ /\ ~ conflict /\ ~ created
          /\ Proceeds(GoTo("update"))

\* The provision state of a new node.
\* Mutant: the node is created ready for tenants.
CreatedActive == "active"
Created == "enroll"

CreateNode ==
  /\ run.stage = "create"
  /\ LET n == run.at IN
       Writes(GoTo("update"), [node |-> "declared", provision |-> Created],
              <<n, "node">>, cloud.node[n] = "absent",
              [cloud EXCEPT !.node[n] = "declared", !.provision[n] = Created])

\* The provision states in which the role touches a node.
\* Mutant: it does not look.
TouchesAny(state) == TRUE
Touches(state) == state \in {"enroll", "manageable"}

\* The gate on the provision state, then update_node with the attributes that
\* differed when they were read.  A masked password always differs.
UpdateNode ==
  /\ run.stage = "update"
  /\ LET n == run.at
         allowed == Touches(seen.provision)
         updates == n \in Masked \/ seen.node = "drifted" IN
       \/ ~ allowed /\ NodeFails
       \/ /\ allowed /\ updates
          /\ Writes(GoTo("manage"), seen, <<n, "node">>, cloud.node[n] # "absent",
                    [cloud EXCEPT !.node[n] =
                       IF seen.node = "drifted" THEN "declared" ELSE @])
       \/ /\ allowed /\ ~ updates
          /\ Proceeds(GoTo("manage"))

\* set_node_provision_state(manage), which Ironic takes in enroll.
ManageNode ==
  /\ run.stage = "manage"
  /\ LET n == run.at IN
       \/ /\ seen.provision = "enroll"
          /\ Writes(GoTo(IF run.check THEN "ports" ELSE "verify"), seen,
                    <<n, "node">>, cloud.provision[n] = "enroll",
                    [cloud EXCEPT !.provision[n] = "verifying"])
       \/ /\ seen.provision # "enroll"
          /\ Proceeds(GoTo("ports"))

\* wait=True: until Ironic is done with the verification.
AwaitManageable ==
  /\ run.stage = "verify"
  /\ \/ /\ cloud.provision[run.at] = "manageable"
        /\ Proceeds(GoTo("ports"))
     \/ /\ cloud.provision[run.at] \notin {"verifying", "manageable"}
        /\ NodeFails

\* reconcile_ports reads all ports once, and then deals with the declared ones.
ListPorts ==
  /\ run.stage = "ports"
  /\ Reads([run EXCEPT !.stage = "port", !.ports = PortsOf[run.at]],
           [owner |-> [m \in PortsOf[run.at] |-> cloud.owner[m]],
            network |-> [m \in PortsOf[run.at] |-> cloud.network[m]]])

PutPort(m) ==
  /\ run.stage = "port" /\ m \in run.ports
  /\ LET n == run.at
         next == [run EXCEPT !.ports = @ \ {m}] IN
       \/ /\ seen.owner[m] = NoOne
          /\ Writes(next, seen, <<m, "port">>,
                    cloud.owner[m] = NoOne /\ cloud.node[n] # "absent",
                    [cloud EXCEPT !.owner[m] = n, !.network[m] = "declared"])
       \/ seen.owner[m] \notin {NoOne, n} /\ NodeFails
       \/ /\ seen.owner[m] = n /\ seen.network[m] = "drifted"
          /\ Writes(next, seen, <<m, "port">>, cloud.owner[m] = n,
                    [cloud EXCEPT !.network[m] = "declared"])
       \/ /\ seen.owner[m] = n /\ seen.network[m] = "declared"
          /\ Proceeds(next)

NodeDone ==
  /\ run.stage = "port" /\ run.ports = {}
  /\ Reads([run EXCEPT !.stage = "node", !.at = NoOne], NoSnapshot)

\* Mutant: the errors of the loop are ignored.
NodesDoneRegardless ==
  run.stage = "node" /\ run.todo = {} /\ Proceeds(GoTo("segment"))

\* The loop is over: the role goes on if no node has failed.
NodesDone ==
  /\ run.stage = "node" /\ run.todo = {}
  /\ \/ run.result = "failed" /\ Fails
     \/ run.result # "failed" /\ Proceeds(GoTo("segment"))

-----------------------------------------------------------------------------
(* powerops_masakari_segment.                                              *)

ListSegments ==
  /\ run.stage = "segment"
  /\ \/ cloud.segment = "foreign" /\ Fails
     \/ /\ cloud.segment = "absent" /\ run.check
        /\ Proceeds([run EXCEPT !.stage = "populate",
                               !.changed = @ \cup {<<"segment", "segment">>}
                                             \cup (Nodes \X {"host"})])
     \/ /\ cloud.segment # "foreign" /\ ~ (cloud.segment = "absent" /\ run.check)
        /\ Reads(GoTo("putSegment"), [segment |-> cloud.segment])

PutSegment ==
  /\ run.stage = "putSegment"
  /\ LET item == <<"segment", "segment">>
         after == [cloud EXCEPT !.segment = "declared"] IN
       \/ /\ seen.segment = "absent"
          /\ Writes(GoTo("hosts"), NoSnapshot, item, cloud.segment = "absent", after)
       \/ /\ seen.segment = "drifted"
          /\ Writes(GoTo("hosts"), NoSnapshot, item, cloud.segment # "absent", after)
       \/ /\ seen.segment = "declared"
          /\ Reads(GoTo("hosts"), NoSnapshot)

ListHosts ==
  /\ run.stage = "hosts"
  /\ Reads([run EXCEPT !.stage = "host", !.todo = Nodes],
           [host |-> cloud.host, maintenance |-> cloud.maintenance])

\* on_maintenance differs from the declared value.
\* Mutant: it is not compared.
NeverMoved(n) == FALSE
Moved(n) == seen.maintenance[n] # (n \in Maintained)

\* create_host, or update_host with the attributes that differed when they were
\* read, on_maintenance among them.
PutHost(n) ==
  /\ run.stage = "host" /\ n \in run.todo
  /\ LET declared == n \in Maintained
         next == [run EXCEPT !.todo = @ \ {n}] IN
       \/ /\ seen.host[n] = "absent"
          /\ Writes(next, seen, <<n, "host">>, cloud.host[n] = "absent",
                    [cloud EXCEPT !.host[n] = "declared", !.maintenance[n] = declared])
       \/ /\ seen.host[n] = "drifted" \/ (seen.host[n] = "declared" /\ Moved(n))
          /\ Writes(next, seen, <<n, "host">>, cloud.host[n] # "absent",
                    [cloud EXCEPT
                       !.host[n] = IF seen.host[n] = "drifted" THEN "declared" ELSE @,
                       !.maintenance[n] = IF Moved(n) THEN declared ELSE @])
       \/ /\ seen.host[n] = "declared" /\ ~ Moved(n)
          /\ Proceeds(next)

HostsDone ==
  /\ run.stage = "host" /\ run.todo = {}
  /\ Reads(GoTo("populate"), NoSnapshot)

-----------------------------------------------------------------------------
(* mistral-db-manage populate, and powerops_mistral_workbook.              *)

\* A command: Ansible skips it in check mode.
Populate ==
  /\ run.stage = "populate"
  /\ run' = GoTo("workbook")
  /\ cloud' = [cloud EXCEPT !.actions = @ \/ ~ run.check]
  /\ UNCHANGED <<seen, quiet, forecast, off, trouble>>

ListWorkbooks ==
  /\ run.stage = "workbook"
  /\ \/ ~ cloud.actions /\ Fails
     \/ /\ cloud.actions
        /\ Reads(GoTo("putWorkbook"), [workbook |-> cloud.workbook])

PutWorkbook ==
  /\ run.stage = "putWorkbook"
  /\ LET item == <<"workbook", "workbook">>
         after == [cloud EXCEPT !.workbook = "declared"] IN
       \/ /\ seen.workbook = "absent"
          /\ Writes(GoTo("validate"), NoSnapshot, item, cloud.workbook = "absent", after)
       \/ /\ seen.workbook = "drifted"
          /\ Writes(GoTo("validate"), NoSnapshot, item, cloud.workbook # "absent", after)
       \/ /\ seen.workbook = "declared"
          /\ Reads(GoTo("validate"), NoSnapshot)

\* The summary of validate.yml.
Summarise == run.stage = "validate" /\ Ends("ok") /\ UNCHANGED <<cloud, quiet, off, trouble>>

RunSteps ==
  \/ \E n \in Nodes : ListNodes(n) \/ PutHost(n)
  \/ PreflightPortOwnership \/ CreateNode \/ UpdateNode \/ ManageNode
  \/ AwaitManageable \/ ListPorts \/ (\E m \in Macs : PutPort(m))
  \/ NodeDone \/ NodesDone
  \/ ListSegments \/ PutSegment \/ ListHosts \/ HostsDone
  \/ Populate \/ ListWorkbooks \/ PutWorkbook \/ Summarise

-----------------------------------------------------------------------------
(* Everybody else, and what goes wrong.  MaxTrouble bounds it.             *)

Goes == trouble < MaxTrouble /\ trouble' = trouble + 1

\* Ironic ends the verification of a node.
VerificationSucceeds(n) ==
  /\ cloud.provision[n] = "verifying"
  /\ cloud' = [cloud EXCEPT !.provision[n] = "manageable"]
  /\ UNCHANGED <<run, seen, quiet, forecast, off, trouble>>

VerificationFails(n) ==
  /\ cloud.provision[n] = "verifying"
  /\ Goes
  /\ cloud' = [cloud EXCEPT !.provision[n] = "enroll"]
  /\ UNCHANGED <<run, seen, quiet, forecast, off>>

\* A call of the running module raises: a time-out, a lost connection, a lock.
CallFails ==
  /\ run.stage # "idle" /\ Goes
  /\ \/ /\ run.stage \in NodeStages
        /\ run' = [run EXCEPT !.stage = "node", !.at = NoOne, !.ports = {},
                              !.result = "failed"]
        /\ seen' = NoSnapshot
        /\ UNCHANGED forecast
     \/ run.stage \notin NodeStages /\ Ends("failed")
  /\ UNCHANGED <<cloud, quiet, off>>

\* The run is interrupted from outside.
Interrupt ==
  /\ run.stage # "idle" /\ Goes
  /\ Ends("failed")
  /\ UNCHANGED <<cloud, quiet, off>>

Disturbed(after) ==
  /\ Goes
  /\ cloud' = after
  /\ quiet' = FALSE
  /\ forecast' = NoForecast
  /\ UNCHANGED <<run, seen>>

\* Another user of the APIs.
Meddle ==
  /\ \/ \E n \in Nodes :
          \/ /\ cloud.node[n] # "absent"
             /\ \/ Disturbed([cloud EXCEPT !.node[n] = "drifted"])
                \/ Disturbed([cloud EXCEPT !.provision[n] = "available"])
                \/ Disturbed([cloud EXCEPT
                      !.node[n] = "absent", !.provision[n] = "none",
                      !.owner = [m \in Macs |-> IF @[m] = n THEN NoOne ELSE @[m]]])
          \/ /\ cloud.host[n] # "absent"
             /\ \/ Disturbed([cloud EXCEPT !.host[n] = "drifted"])
                \/ Disturbed([cloud EXCEPT !.host[n] = "absent"])
     \/ \E m \in Macs :
          \/ /\ cloud.owner[m] = NoOne
             /\ Disturbed([cloud EXCEPT !.owner[m] = Stranger])
          \/ /\ cloud.owner[m] # NoOne
             /\ \/ Disturbed([cloud EXCEPT !.network[m] = "drifted"])
                \/ Disturbed([cloud EXCEPT !.owner[m] = NoOne])
     \/ \E s \in {"drifted", "foreign"} : Disturbed([cloud EXCEPT !.segment = s])
     \/ Disturbed([cloud EXCEPT !.workbook = "drifted"])
  /\ UNCHANGED off

\* planned_power_off ends with the host on maintenance and switched off.
PlannedPowerOff(n) ==
  /\ cloud.host[n] # "absent" /\ n \notin off
  /\ Disturbed([cloud EXCEPT !.maintenance[n] = TRUE])
  /\ off' = off \cup {n}

\* power_on_and_return ends with the host on, and not on maintenance.
PowerOnAndReturn(n) ==
  /\ cloud.host[n] # "absent" /\ n \in off
  /\ Disturbed([cloud EXCEPT !.maintenance[n] = FALSE])
  /\ off' = off \ {n}

Next ==
  \/ \E check \in BOOLEAN : Start(check)
  \/ RunSteps
  \/ \E n \in Nodes : VerificationSucceeds(n) \/ VerificationFails(n)
  \/ CallFails \/ Interrupt \/ Meddle
  \/ \E n \in Nodes : PlannedPowerOff(n) \/ PowerOnAndReturn(n)

\* A run goes on until it ends, Ironic ends a verification, and the operator
\* runs the role, not in check mode, again and again.
Fairness ==
  /\ WF_vars(RunSteps)
  /\ WF_vars(\E n \in Nodes : VerificationSucceeds(n))
  /\ SF_vars(Start(FALSE))

Spec == Init /\ [][Next]_vars /\ Fairness

-----------------------------------------------------------------------------
(* Properties.                                                             *)

Snapshots ==
  {NoSnapshot}
  \cup [node : Records, provision : Provision]
  \cup (UNION {[owner : [PortsOf[n] -> Owners],
                network : [PortsOf[n] -> {"drifted", "declared"}]] : n \in Nodes})
  \cup [segment : Records] \cup [workbook : Records]
  \cup [host : [Nodes -> Records], maintenance : [Nodes -> BOOLEAN]]

\* The records of the services are ones that the reconcilers know, and a run is
\* in one of its stages with the snapshot that this stage works from.
RoleTypeOK ==
  /\ cloud \in Clouds
  /\ run \in [stage : Stages, at : Nodes \cup {NoOne}, todo : SUBSET Nodes,
              ports : SUBSET Macs, check : BOOLEAN, changed : SUBSET Items,
              result : {"none", "ok", "failed"}]
  /\ seen \in Snapshots
  /\ quiet \in BOOLEAN
  /\ forecast \subseteq Items \cup NoForecast
  /\ off \subseteq Nodes
  /\ trouble \in 0..MaxTrouble

\* Node n is registered as declared, with its ports, and Ironic can drive it.
NodeReady(n) ==
  /\ cloud.node[n] = "declared" /\ cloud.provision[n] = "manageable"
  /\ \A m \in PortsOf[n] : cloud.owner[m] = n /\ cloud.network[m] = "declared"

HostReady(n) ==
  cloud.host[n] = "declared" /\ (cloud.maintenance[n] <=> n \in Maintained)

Converged ==
  /\ \A n \in Nodes : NodeReady(n) /\ HostReady(n)
  /\ cloud.segment = "declared" /\ cloud.workbook = "declared" /\ cloud.actions

Succeeded(check) == run.stage = "idle" /\ run.result = "ok" /\ run.check = check

\* A run of the role that ends without an error, and into which nobody else has
\* written, has brought every declared record into the declared state, whatever
\* earlier runs that failed or were interrupted had left behind.
RunConverges == Succeeded(FALSE) /\ quiet => Converged

\* A check run sends nothing and announces exactly the changes that the next
\* run makes: the nodes, ports, hosts, the segment and the workbook that the
\* modules report as changed (supports_check_mode).
ForecastHolds ==
  Succeeded(FALSE) /\ quiet /\ forecast # NoForecast => run.changed = forecast

\* A node that has to be created is not created while one of its MACs belongs
\* to another node: _preflight_port_ownership comes before create_node, so that
\* a conflict does not leave a node without its ports behind.
NoHalfRegistration ==
  [][\A n \in Nodes :
       quiet /\ cloud.node[n] = "absent" /\ cloud'.node[n] # "absent"
         => \A m \in PortsOf[n] : cloud.owner[m] = NoOne]_vars

\* The workbook, which makes the planned workflows available, is written only
\* when every node and every host that they look up is in place: one node that
\* fails keeps the rest of the role from running.
WorkbookComesLast ==
  [][quiet /\ quiet' /\ cloud'.workbook # cloud.workbook
       => cloud.actions /\ \A n \in Nodes : NodeReady(n) /\ HostReady(n)]_vars

\* Undisturbed, the role changes a node's attributes in enroll and manageable
\* only, gives ports to manageable nodes only, and never takes a port or a node
\* away.
ForbiddenStateUntouched ==
  [][quiet /\ quiet' =>
       /\ \A n \in Nodes :
            cloud'.node[n] # cloud.node[n] =>
              /\ cloud'.node[n] = "declared"
              /\ cloud.provision[n] \in {"none", "enroll", "manageable"}
       /\ \A m \in Macs :
            cloud'.owner[m] # cloud.owner[m] =>
              /\ cloud.owner[m] = NoOne
              /\ cloud.provision[cloud'.owner[m]] = "manageable"]_vars

\* What the role refuses to resolve by itself.
Blocked ==
  \/ cloud.segment = "foreign"
  \/ \E n \in Nodes :
       \/ cloud.provision[n] = "available"
       \/ \E m \in PortsOf[n] : cloud.owner[m] \notin {NoOne, n}

\* However runs failed or were interrupted, and whatever others did meanwhile,
\* running the role again leads to the declared state, unless there is a
\* conflict that it must not resolve: nothing that a run leaves behind is in
\* the way of the next one.
RerunConverges == <>[](Converged \/ Blocked)

\* POWEROPS-INSTALL: after a successful planned_power_off the Masakari host is
\* on maintenance, "the expected state of a host that is switched off".
PoweredOffStaysMaintained ==
  \A n \in off : cloud.host[n] # "absent" => cloud.maintenance[n]
=============================================================================
