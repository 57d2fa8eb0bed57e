------------------------------ MODULE TaskBudget ------------------------------
(***************************************************************************)
(* How long one task of the workbook can last, from the PowerOps settings. *)
(* A task sleeps between its polls and waits for the answers of the APIs   *)
(* it calls; only the sleeps are bounded by the settings, so the latency   *)
(* of one call is a parameter of its own.  The unit of every budget is one *)
(* poll interval.                                                          *)
(***************************************************************************)
EXTENDS Naturals, Workbook

CONSTANTS
  DrainTimeout,   \* [powerops] drain_timeout, seconds
  PowerTimeout,   \* [powerops] power_timeout, seconds
  PollInterval,   \* [powerops] poll_interval, seconds
  LockTtl,        \* [powerops] lock_ttl, seconds
  ServerCount,    \* servers on the host when the drain starts
  CallLatencyMs   \* the longest that one API or Redis call takes

CeilDiv(a, b) == (a + b - 1) \div b

\* The number of polls of a bounded wait.
Attempts(timeout, interval) == CeilDiv(timeout, interval) + 1

\* A wait sleeps between two polls, never after the last one.
Sleeps(t) ==
  CASE t = "drain_instances" -> Attempts(DrainTimeout, PollInterval) - 1
    [] t \in {"wait_off", "wait_on", "wait_nova"}
         -> Attempts(PowerTimeout, PollInterval) - 1
    [] OTHER -> 0

\* The calls that one task makes: the list of the Nova services, the list of
\* the Ironic nodes, the Masakari segments and the hosts of one segment, the
\* update that follows, one call for each server, one read for each poll.
Calls(t) ==
  CASE t \in LockTasks                            -> 1
    [] t = "resolve"                              -> 4
    [] t \in {"maintenance_on", "maintenance_off"} -> 3
    [] t \in {"nova_disable", "nova_enable"}      -> 2
    [] t = "drain_instances" -> 1 + ServerCount
                                + Attempts(DrainTimeout, PollInterval)
    [] t = "assert_host_safe"                     -> 1
    [] t \in {"request_off", "request_on"}        -> 2
    [] t \in {"wait_off", "wait_on"} -> 1 + Attempts(PowerTimeout, PollInterval)
    [] t = "wait_nova"               -> Attempts(PowerTimeout, PollInterval)
    [] t = "verify_host_return"                   -> 4
    [] t = "fail_safe_host"                       -> 5
    [] OTHER                                      -> 0

TaskTime(t) ==
  Sleeps(t) + CeilDiv(Calls(t) * CallLatencyMs, 1000 * PollInterval)

LeaseTime == LockTtl \div PollInterval
=============================================================================
