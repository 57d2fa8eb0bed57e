--------------------------- MODULE MCHostLeaseSlow ----------------------------
(***************************************************************************)
(* HostLease with API calls slow enough for a wait to outlast the lease.   *)
(***************************************************************************)
EXTENDS TaskBudget, HostLease

MCBudget == [t \in Tasks |-> TaskTime(t)]
=============================================================================
