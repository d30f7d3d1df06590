--------------------------- MODULE UpgradeOutcome ---------------------------
(***************************************************************************)
(* What an upgrade leaves of the pools, as far as the cluster resource     *)
(* can tell: how many machines, of which versions.  ClusterResource takes  *)
(* these outcomes for its steps; ClusterUpgrade, which has the machines    *)
(* one by one, is checked to have no others.                               *)
(*                                                                         *)
(* u describes the attempt: whether the pools are scale sets, whether it   *)
(* has masters to replace, and how many pages the list of a scale set's    *)
(* VMs has.  A pool has size machines where the api_model says count, and  *)
(* is behind if some are of another version.                               *)
(***************************************************************************)
EXTENDS Integers, FiniteSets

Larger(a, b)  == IF a >= b THEN a ELSE b
Smaller(a, b) == IF a <= b THEN a ELSE b

\* The machine more that upgradeAgentPools creates as long as old ones are left.
Extra(behind) == IF behind THEN 1 ELSE 0

\* The sizes when all machines of a pool were replaced.  A scale set is brought
\* back to the capacity listed before the masters were replaced, one for every
\* further page raises it, and so does a VM that their deployments have removed.
\* A pool whose machines are all gone is no longer on the list.
SizesUpgraded(u, count, size, behind) ==
  CASE ~u.scaleSets -> {Larger(count, size - Extra(behind))} \cup ({0} \cap {size})
    [] u.scaleSets /\ ~behind -> {IF u.redeploys THEN count ELSE size}
    [] OTHER -> size .. size + u.pages - (IF u.redeploys /\ size # count THEN 0 ELSE 1)

\* The sizes when the agents were being replaced.
SizesInterrupted(u, count, size, behind) ==
  LET full == Larger(count + Extra(behind), size) IN
  IF u.scaleSets
  THEN (IF u.redeploys THEN {count} ELSE {size}) \cup
       (IF behind THEN size .. size + u.pages ELSE {})
  ELSE Smaller(size, full - Extra(behind)) .. full

\* The sizes when the masters were: every new one deploys the scale sets.
SizesDuringMasters(u, count, size) ==
  IF u.scaleSets /\ u.redeploys THEN {size, count} ELSE {size}

\* The pools upgraded.  In availability sets the first pool that has no node to
\* upgrade ends the whole of upgradeAgentPools.
PoolsVisited(u, pools, behind) ==
  IF u.scaleSets \/ behind = pools THEN {pools}
  ELSE {visited \in SUBSET pools : Cardinality(visited \ behind) = 1}

=============================================================================
