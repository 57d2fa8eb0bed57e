----------------------------- MODULE MCHostLease ------------------------------
(***************************************************************************)
(* HostLease with the budgets that follow from the PowerOps settings.      *)
(***************************************************************************)
EXTENDS TaskBudget, HostLease

MCBudget == [t \in Tasks |-> TaskTime(t)]

\* The condition of the theorem on mutual exclusion holds for the settings
\* that are explored here.
ASSUME CheckedSettingsFit == LeaseFits

\* It also holds for the defaults of [powerops], which are too fine to
\* explore, with calls that take up to one and a half seconds.
Default == INSTANCE TaskBudget
             WITH DrainTimeout <- 600, PowerTimeout <- 180, PollInterval <- 5,
                  LockTtl <- 900, ServerCount <- 2, CallLatencyMs <- 1500

DefaultBudget == [t \in Tasks |-> Default!TaskTime(t)]

DefaultLease == INSTANCE HostLease
                  WITH TTL <- Default!LeaseTime, Budget <- DefaultBudget

ASSUME DefaultSettingsFit == DefaultLease!LeaseFits
=============================================================================
