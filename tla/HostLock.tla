------------------------------- MODULE HostLock -------------------------------
(***************************************************************************)
(* What the host operation lock promises to the planned workflows: the     *)
(* lock has one owner at a time, only the owner acts on the host, and the  *)
(* lock changes hands only when nobody acts.  How that comes about (a      *)
(* Redis key with a time to live, scripts that compare the owner, the      *)
(* order of the tasks) is left to HostLease and MistralPowerOps, which     *)
(* implement this module.                                                  *)
(***************************************************************************)

CONSTANTS
  Execs,     \* those who may own the lock
  NoOne,     \* the owner of a free lock
  MayLapse   \* the lock may be lost while its owner acts

VARIABLES
  owner,     \* who owns the lock
  acting     \* those who act on the host under the lock

Init == owner = NoOne /\ acting = {}

\* A free lock is taken, to act at once or later.
Acquire(e) ==
  /\ owner = NoOne
  /\ owner' = e
  /\ acting' \in {{}, {e}}

\* The owner starts to act.
Enter(e) ==
  /\ owner = e
  /\ acting' = {e}
  /\ UNCHANGED owner

\* The owner stops acting, by itself or in a crash.
Leave ==
  /\ acting' = {}
  /\ UNCHANGED owner

\* The owner gives the lock back, or its time to live ends, when nobody acts.
GiveBack ==
  /\ acting = {}
  /\ owner' = NoOne
  /\ UNCHANGED acting

\* The lock is lost, and whoever acts goes on without its protection.
Lapse ==
  /\ MayLapse
  /\ owner' = NoOne
  /\ acting' = {}

Next == (\E e \in Execs : Acquire(e) \/ Enter(e)) \/ Leave \/ GiveBack \/ Lapse

Spec == Init /\ [][Next]_<<owner, acting>>
=============================================================================
