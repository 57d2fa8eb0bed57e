-------------------------------- MODULE Cloud ---------------------------------
(***************************************************************************)
(* The OpenStack services around one compute host, as the PowerOps code    *)
(* uses them: the Ironic node, the nova-compute service, the Masakari host *)
(* and the servers.  All of it is external to the repository; the requests *)
(* that the code sends are operators here, and what the services do by     *)
(* themselves are actions.                                                 *)
(***************************************************************************)
EXTENDS PowerDecisions

CONSTANTS
  Servers,        \* the servers that may be on the host
  Mapped,         \* the lookups that find exactly one record of the host
  CallsMayFail    \* API calls may raise, before or after taking effect

Lookups == {"nova", "ironic", "masakari"}

ASSUME MappedAssumption       == Mapped \subseteq Lookups
ASSUME CallsMayFailAssumption == CallsMayFail \in BOOLEAN

VARIABLES
  node,          \* the Ironic node
  nova,          \* the nova-compute service: status and state
  maintenance,   \* the Masakari host's on_maintenance
  servers,       \* what each server is to this host
  late           \* history: servers that came to run since the last time
                 \* the host was found safe for power off

cloud == <<node, nova, maintenance, servers, late>>

\* AWAY: on another host.  SCHEDULED: the scheduler chose this host, which
\* Nova does not yet report.  STOPPING: told to stop, still reported ACTIVE.
ServerStates == {"AWAY", "SCHEDULED", "ACTIVE", "STOPPING", "MIGRATING",
                 "SHUTOFF", "ERROR"}

CloudTypeOK ==
  /\ node \in [power_state : PowerStates,
               target_power_state : PowerTargets \cup {NoTarget},
               last_error : BOOLEAN]
  /\ nova \in [status : {"enabled", "disabled"}, state : {"up", "down"}]
  /\ maintenance \in BOOLEAN
  /\ servers \in [Servers -> ServerStates]
  /\ late \subseteq Servers

\* A host in service.
CloudInit ==
  /\ node = [power_state |-> "power on", target_power_state |-> NoTarget,
             last_error |-> FALSE]
  /\ nova = [status |-> "enabled", state |-> "up"]
  /\ maintenance = FALSE
  /\ servers \in [Servers -> {"AWAY", "ACTIVE"}]
  /\ late = {}

-----------------------------------------------------------------------------
(***************************************************************************)
(* What the code reads and asks for.                                       *)
(***************************************************************************)

\* The answers that a call which takes effect may give.
Replies == IF CallsMayFail THEN {"ok", "error"} ELSE {"ok"}

OnHost == {s \in Servers : servers[s] \notin {"AWAY", "SCHEDULED"}}

StatusOf(s) == IF servers[s] = "STOPPING" THEN "ACTIVE" ELSE servers[s]

\* _servers_on_host, of which the code looks at the statuses.
ServersOnHost == {StatusOf(s) : s \in OnHost}

\* Servers whose guests run on the host.
RunningHere == {s \in Servers : servers[s] \in {"ACTIVE", "STOPPING", "MIGRATING"}}

\* set_node_power_state: Ironic clears last_error and takes the target on; a
\* node that is still busy with another one is locked and refuses.
NodeAccepts == ~Pending(node)
NodeWithTarget(t) ==
  [node EXCEPT !.target_power_state = t, !.last_error = FALSE]

\* live_migrate_server or stop_server for the servers in S.  Nova refuses a
\* server that is not in a state the request starts from.
Commandable(policy) ==
  IF policy = "stop" THEN {s \in OnHost : servers[s] \in {"ACTIVE", "ERROR"}}
                     ELSE {s \in OnHost : servers[s] = "ACTIVE"}

Commanded(policy, S) ==
  [s \in Servers |->
     IF s \notin S THEN servers[s]
     ELSE IF policy = "stop" THEN "STOPPING" ELSE "MIGRATING"]

OutOfService == nova.status = "disabled" /\ maintenance

-----------------------------------------------------------------------------
(***************************************************************************)
(* What the services do by themselves.                                     *)
(***************************************************************************)

\* Ironic carries out the target it took on.
PowerSettles ==
  /\ Pending(node)
  /\ node' = [node EXCEPT
                !.power_state = IF node.target_power_state = "power on"
                                THEN "power on" ELSE "power off",
                !.target_power_state = NoTarget]
  /\ UNCHANGED <<nova, maintenance, servers, late>>

\* Ironic gives a target up and records the error of the BMC.
PowerFails ==
  /\ Pending(node)
  /\ node' = [node EXCEPT !.target_power_state = NoTarget,
                          !.last_error = TRUE]
  /\ UNCHANGED <<nova, maintenance, servers, late>>

\* nova-compute reports up on a host that runs, and down at any time.
NovaReports ==
  /\ nova' = [nova EXCEPT !.state = IF @ = "up" THEN "down" ELSE "up"]
  /\ nova.state = "down" => node.power_state = "power on"
  /\ UNCHANGED <<node, maintenance, servers, late>>

ServerBecomes(s, st) ==
  /\ servers' = [servers EXCEPT ![s] = st]
  /\ late' = IF st = "ACTIVE" THEN late \cup {s} ELSE late
  /\ UNCHANGED <<node, nova, maintenance>>

\* The scheduler only chooses a host whose service is enabled and up, but the
\* server lands there later.
Schedule(s) ==
  /\ servers[s] = "AWAY"
  /\ nova = [status |-> "enabled", state |-> "up"]
  /\ ServerBecomes(s, "SCHEDULED")

Land(s) ==
  /\ servers[s] = "SCHEDULED"
  /\ \/ nova.state = "up" /\ ServerBecomes(s, "ACTIVE")
     \/ ServerBecomes(s, "AWAY")

\* A tenant starts a stopped server, which Nova does on a disabled host too.
TenantStarts(s) ==
  /\ servers[s] = "SHUTOFF"
  /\ nova.state = "up"
  /\ ServerBecomes(s, "ACTIVE")

StopEnds(s) ==
  /\ servers[s] = "STOPPING"
  /\ ServerBecomes(s, "SHUTOFF") \/ ServerBecomes(s, "ERROR")

\* A migration moves the server, is rolled back, or fails.
MigrationEnds(s) ==
  /\ servers[s] = "MIGRATING"
  /\ \/ ServerBecomes(s, "AWAY")
     \/ ServerBecomes(s, "ACTIVE")
     \/ ServerBecomes(s, "ERROR")

CloudStep ==
  \/ PowerSettles
  \/ PowerFails
  \/ NovaReports
  \/ \E s \in Servers :
       Schedule(s) \/ Land(s) \/ TenantStarts(s) \/ StopEnds(s) \/ MigrationEnds(s)
=============================================================================
