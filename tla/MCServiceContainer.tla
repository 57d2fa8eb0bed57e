-------------------------- MODULE MCServiceContainer --------------------------
(***************************************************************************)
(* A service with two versions of its request, which differ in the         *)
(* environment and in the unit, and one-shot work in a container of its own.*)
(***************************************************************************)
EXTENDS ServiceContainer, TLC

Common == [environment |-> "KOLLA_CONFIG_STRATEGY" :> "COPY_ALWAYS",
           restart_policy |-> "unless-stopped", client_timeout |-> 120]

Own == [src |-> "bootstrap", path |-> FALSE, dst |-> "/var/lib/mysql", mode |-> ""]
Logs == [src |-> "kolla_logs", path |-> FALSE, dst |-> "/var/log/kolla", mode |-> ""]

Args == [name |-> "mariadb", cap_add |-> {}, security_opt |-> {}, privileged |-> FALSE,
         image |-> [registry |-> "quay", base |-> "mariadb"], ipc_mode |-> None, pid_mode |-> "",
         cgroupns_mode |-> None, labels |-> <<>>, tmpfs |-> {}, volumes |-> {},
         volumes_from |-> {}, environment |-> <<>>, dimensions |-> <<>>, ulimits |-> {},
         command |-> None, healthcheck |-> None, state |-> "running", detach |-> TRUE,
         remove_on_exit |-> TRUE, ignore_missing |-> FALSE, restart_policy |-> None,
         restart_retries |-> None, graceful_timeout |-> None, client_timeout |-> None]

MCRequests ==
    [always |-> generate_module(Common, Args),
     once |-> generate_module(Common, [Args EXCEPT
                !.environment = "KOLLA_CONFIG_STRATEGY" :> "COPY_ONCE",
                !.graceful_timeout = 60, !.ignore_missing = TRUE]),
     bootstrap |-> generate_module(Common, [Args EXCEPT
                !.name = "bootstrap", !.restart_policy = "oneshot", !.detach = FALSE, !.volumes = {Own, Logs}])]

\* Two versions of the request matter where a container is recreated or
\* stopped; volumes are left to the one-shot container.
Service == {"recreate_or_restart_container", "stop_container"}
Upkeep == {"compare_container", "start_container", "restart_container", "remove_container",
           "pull_image", "remove_image"}
OneShotWork == {"create_volume", "remove_volume", "start_container", "restart_container",
                "stop_and_remove_container", "remove_container", "ensure_image"}

MCCalls == (Service \X {"always", "once"}) \cup (Upkeep \X {"always"})
             \cup (OneShotWork \X {"bootstrap"})

NoLabels == <<>>
=============================================================================
