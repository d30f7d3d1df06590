--------------------------- MODULE ClusterUpgrade ---------------------------
(***************************************************************************)
(* Upgrading the nodes of a cluster to one Kubernetes version:             *)
(* upgradeCluster of acsengine/cluster_upgrade.go and the acs-engine       *)
(* upgrader it runs, against the VMs of the resource group.                *)
(*                                                                         *)
(* An attempt lists the VMs once, replaces the masters one by one, then    *)
(* the instances of scale sets (module ScaleSetUpgrade), then the agents   *)
(* of every pool in an availability set.  Any call can fail and ends the   *)
(* attempt; the next terraform apply starts over with a new listing.       *)
(***************************************************************************)
EXTENDS ScaleSetUpgrade, UpgradeOutcome

CONSTANT MasterCount  \* masters the api_model records

ASSUME CountsAssumption == MasterCount \in Nat \ {0}

VARIABLES
  masters,   \* version of each master, by index; "none" where there is no VM
  vms,       \* state of each agent VM, by pool and index
  seen,      \* the agent VMs getClusterNodeStatus listed
  mastersTodo, mastersDone,  \* MasterVMs left, and upgradedMastersIndex
  mastersToCreate,           \* missing masters left to create
  poolsTodo, \* agent pools upgradeAgentPools has not visited
  pool,      \* the one it is at
  agentVMs,  \* its agentVMs map
  todo,      \* its toBeUpgradedCount
  count,     \* its upgradedCount
  index,     \* the node being created
  begun      \* auxiliary: what the attempt began with

agents   == <<profile, vms, scaleSets>>
azure    == <<masters, agents>>
others   == <<masters, profile, scaleSets>>
before   == <<seen, begun>>
listing  == <<before, entries>>
stages   == <<mastersTodo, mastersDone, mastersToCreate, poolsTodo>>
topology == <<listing, stages>>
visit    == <<pool, agentVMs, todo, count, index>>
vars     == <<azure, pc, topology, visit, outcome, faults>>

MasterIndices == 0 .. MasterCount - 1
\* An agent is created behind AgentCount others at most, and behind those that
\* failures have left half deleted.
Indices == 0 .. AgentCount + MaxFaults

\* "old" and "leaving" have the old version (an "old" node is ready, a "leaving"
\* one is being deleted), the others the new one: "Failed", "Creating" and
\* "Deleting" are provisioning states, "ready" and "unready" are what the API
\* server says of a node whose provisioning succeeded.
OldStates == {"old", "leaving"}
NewStates == {"Creating", "ready", "unready", "Failed", "Deleting"}
VMStates  == {"none"} \cup OldStates \cup NewStates

Agents(p) == Present(vms[p], VMStates \ {"none"})

TypeOK ==
  /\ ScaleSetsTypeOK
  /\ masters \in [MasterIndices -> {"none", "old", "new"}]
  /\ vms \in [Pools -> [Indices -> VMStates]]
  /\ pc \in {"idle", "masters", "master", "scaleSets", "capacity", "instance", "pools", "purge", "fill", "filling",
             "swap", "replace", "swapping", "save"}
  /\ seen \in [Pools -> [Indices -> VMStates]]
  /\ mastersTodo \subseteq MasterIndices
  /\ mastersDone \subseteq MasterIndices
  /\ mastersToCreate \in 0 .. MasterCount
  /\ poolsTodo \subseteq Pools
  /\ pool \in Pools
  /\ agentVMs \in [Indices -> {"none", "upgraded", "notUpgraded", "ignored"}]
  /\ todo \in Nat
  /\ count \in Nat
  /\ index \in MasterIndices \cup Indices
  /\ begun.u \in [scaleSets : BOOLEAN, redeploys : BOOLEAN, pages : {MaxPages}]
  /\ begun.pools \in [Pools -> [size : Nat, behind : BOOLEAN, ahead : BOOLEAN, going : Nat]]
  /\ outcome \in {"none", "working", "ok", "error"}
  /\ faults \in 0 .. MaxFaults

\* The machines of a pool, but for those that failed and are being deleted.
Machines(p) == IF p \in ScaleSets THEN Instances(p)
               ELSE Present(vms[p], VMStates \ {"none", "Deleting"})
Behind(p)   == IF p \in ScaleSets THEN Present(instances[p], {"old"})
               ELSE Present(vms[p], OldStates)

\* What UpgradeOutcome calls u, and the pools as they are.  Failed and leaving VMs
\* may go before the attempt ends.
Now ==
  [u     |-> [scaleSets |-> ScaleSets # {}, pages |-> MaxPages,
              redeploys |-> Present(masters, {"new"}) # MasterIndices],
   pools |-> [p \in Pools |->
                [size   |-> Cardinality(Machines(p)),
                 behind |-> Behind(p) # {},
                 ahead  |-> Machines(p) # Behind(p),
                 going  |-> Cardinality(Present(vms[p], {"leaving", "Failed"}))]]]

\* The cluster before the upgrade.  Scalings leave gaps in the numbering, and an
\* abandoned one can leave an agent more than the api_model knows of.
Init ==
  /\ ScaleSetsInit
  /\ masters = [i \in MasterIndices |-> "old"]
  /\ \E used \in [Pools -> SUBSET (0 .. AgentCount)] :
       /\ \A p \in Pools :
            IF p \in ScaleSets THEN used[p] = {}
            ELSE Cardinality(used[p]) \in AgentCount .. AgentCount + 1
       /\ vms = [p \in Pools |->
                  [i \in Indices |-> IF i \in used[p] THEN "old" ELSE "none"]]
  /\ pc = "idle"
  /\ seen = vms
  /\ begun = Now
  /\ mastersTodo = {}
  /\ mastersDone = {}
  /\ mastersToCreate = 0
  /\ poolsTodo = {}
  /\ pool \in Pools
  /\ agentVMs = [i \in Indices |-> "none"]
  /\ todo = 0
  /\ count = 0
  /\ index = 0
  /\ outcome = "none"
  /\ faults = 0

-----------------------------------------------------------------------------
SetVM(p, i, state) == vms' = [vms EXCEPT ![p][i] = state]

Fail ==
  /\ ScaleSetsFail
  /\ UNCHANGED <<before, stages, visit>>

\* resourceACSEngineK8sClusterUpdate finds the version changed, and
\* getClusterNodeStatus lists every VM.
Start ==
  /\ pc = "idle"
  /\ outcome # "ok"
  /\ ListScaleSets
  /\ seen' = vms
  /\ begun' = Now
  /\ mastersTodo' = Present(masters, {"old"})
  /\ mastersDone' = Present(masters, {"new"})
  /\ mastersToCreate' = Cardinality(Present(masters, {"none"}))
  /\ poolsTodo' = {p \in Pools : Agents(p) # {}}
  /\ pc' = "masters"
  /\ outcome' = "working"
  /\ UNCHANGED <<azure, visit, faults>>

-----------------------------------------------------------------------------
(* upgradeMasterNodes. *)

\* Mutant: the old masters go first, and all the new ones come after them.
MastersDeletedFirst(i) ==
  /\ pc = "masters"
  /\ i \in mastersTodo
  /\ masters' = [masters EXCEPT ![i] = "none"]
  /\ mastersTodo' = mastersTodo \ {i}
  /\ mastersToCreate' = mastersToCreate + 1
  /\ UNCHANGED <<agents, pc, listing, mastersDone, poolsTodo, visit, outcome, faults>>

\* DeleteNode of the next old master.
DeleteMaster(i) ==
  /\ pc = "masters"
  /\ i \in mastersTodo
  /\ masters' = [masters EXCEPT ![i] = "none"]
  /\ mastersTodo' = mastersTodo \ {i}
  /\ index' = i
  /\ pc' = "master"
  /\ UNCHANGED <<agents, listing, mastersDone, mastersToCreate, poolsTodo, pool,
                 agentVMs, todo, count, outcome, faults>>

\* Mutant: as many masters as are missing are created from index 0 on.
MissingMasterFromZero == mastersToCreate - 1

\* Mutant: the masters are numbered from 1.
MissingMasterFromOne == Cardinality(mastersDone) + 1

\* The index of a master an earlier attempt deleted and did not replace.
MissingMaster == CHOOSE i \in MasterIndices \ mastersDone :
                   \A j \in MasterIndices \ mastersDone : i <= j

FindMissingMaster ==
  /\ pc = "masters"
  /\ mastersTodo = {}
  /\ mastersToCreate > 0
  /\ mastersToCreate' = mastersToCreate - 1
  /\ index' = MissingMaster
  /\ pc' = "master"
  /\ UNCHANGED <<azure, listing, mastersTodo, mastersDone, poolsTodo, pool,
                 agentVMs, todo, count, outcome, faults>>

\* CreateNode, which deploys the scale sets as well, and Validate until the master
\* is ready.
CreateMaster ==
  /\ pc = "master"
  /\ masters' = [masters EXCEPT ![index] = "new"]
  /\ ScaleSetsDeployed
  /\ mastersDone' = mastersDone \cup {index}
  /\ pc' = "masters"
  /\ UNCHANGED <<profile, vms, listing, mastersTodo, mastersToCreate, poolsTodo,
                 visit, outcome, faults>>

MastersUpgraded ==
  /\ pc = "masters"
  /\ mastersTodo = {}
  /\ mastersToCreate = 0
  /\ pc' = "scaleSets"
  /\ UNCHANGED <<azure, topology, visit, outcome, faults>>

\* upgradeAgentScaleSets.
UpgradeScaleSets ==
  /\ ScaleSetStep
  /\ UNCHANGED <<profile, masters, vms, before, stages, visit>>

-----------------------------------------------------------------------------
(* upgradeAgentPools, one pool after the other in the order of a Go map. *)

\* What an attempt takes a VM it listed for.
StatusOf(state) ==
  CASE state \in OldStates -> "notUpgraded"
    [] state \in {"Creating", "ready", "unready"} -> "upgraded"
    [] state = "Deleting" -> "ignored"
    [] OTHER -> "none"

VisitPool(p) ==
  /\ pc = "pools"
  /\ p \in poolsTodo
  /\ pool' = p
  /\ poolsTodo' = poolsTodo \ {p}
  /\ agentVMs' = [i \in Indices |-> StatusOf(seen[p][i])]
  /\ todo' = Cardinality(Present(seen[p], OldStates))
  /\ count' = Cardinality(Present(seen[p], {"Creating", "ready", "unready"}))
  /\ pc' = "purge"
  /\ UNCHANGED <<azure, listing, mastersTodo, mastersDone, mastersToCreate, index,
                 outcome, faults>>

\* Mutant: the nodes already deleted are not taken off the list.
FailedNodesListed == Present(seen[pool], {"Failed"})

\* The upgraded nodes whose provisioning failed, as far as they still exist.
FailedNodes == Present(seen[pool], {"Failed"}) \cap Agents(pool)

DeleteFailedNode(i) ==
  /\ pc = "purge"
  /\ i \in FailedNodes
  /\ SetVM(pool, i, "none")
  /\ UNCHANGED <<others, pc, topology, visit, outcome, faults>>

FailedNodesDeleted ==
  /\ pc = "purge"
  /\ FailedNodes = {}
  /\ pc' = "fill"
  /\ UNCHANGED <<azure, topology, visit, outcome, faults>>

\* Mutant: a node that is being deleted is as good as gone.
UsedByLiveNodes == Present(agentVMs, {"upgraded", "notUpgraded"})

\* The indices in the agentVMs map.
UsedIndices == Present(agentVMs, {"upgraded", "notUpgraded", "ignored"})

\* getAvailableIndex: the lowest gap, or the index after the highest one, which
\* is taken to be 0 when there is none.
AvailableIndex ==
  LET maxIndex == CHOOSE i \in UsedIndices \cup {0} : \A j \in UsedIndices : j <= i
      gaps     == (0 .. maxIndex - 1) \ UsedIndices
  IN  IF gaps = {} THEN maxIndex + 1
                   ELSE CHOOSE i \in gaps : \A j \in gaps : i <= j

\* Mutant: no node to take on the load while the others are replaced.
NoExtraAgent == AgentCount

\* The agents the pool needs before one is taken away.
AgentsNeeded == IF todo > 0 THEN AgentCount + 1 ELSE AgentCount

CreateMissingAgent ==
  /\ pc = "fill"
  /\ count + todo < AgentsNeeded
  /\ index' = AvailableIndex
  /\ SetVM(pool, index', "Creating")
  /\ pc' = "filling"
  /\ UNCHANGED <<others, topology, pool, agentVMs, todo, count, outcome, faults>>

\* With no node to upgrade, upgradeAgentPools returns and not just the loop: the
\* pools still in poolsTodo stay as they are.
PoolFilled ==
  /\ pc = "fill"
  /\ count + todo >= AgentsNeeded
  /\ pc' = IF todo = 0 THEN "save" ELSE "swap"
  /\ count' = 0
  /\ UNCHANGED <<azure, topology, pool, agentVMs, todo, index, outcome, faults>>

\* Mutant: the last old node is replaced as well, although the extra one is there.
ReplacedByNewNode == TRUE

\* The last old node of the pool has its successor already.
Replaced == count < todo - 1

\* DeleteNode of an old node, whether it could be drained or not.
DeleteAgent(i) ==
  /\ pc = "swap"
  /\ agentVMs[i] = "notUpgraded"
  /\ vms[pool][i] # "none"
  /\ SetVM(pool, i, "none")
  /\ IF Replaced
     THEN /\ index' = i
          /\ pc' = "replace"
          /\ UNCHANGED <<agentVMs, count>>
     ELSE /\ agentVMs' = [agentVMs EXCEPT ![i] = "none"]
          /\ count' = count + 1
          /\ UNCHANGED <<pc, index>>
  /\ UNCHANGED <<others, topology, pool, todo, outcome, faults>>

\* CreateNode at the index that is free now.
CreateAgent ==
  /\ pc = "replace"
  /\ SetVM(pool, index, "Creating")
  /\ pc' = "swapping"
  /\ UNCHANGED <<others, topology, visit, outcome, faults>>

\* The deployment succeeded and Validate has seen the node ready.
NodeValidated == vms[pool][index] = "ready"

AgentUpgraded ==
  /\ pc \in {"filling", "swapping"}
  /\ NodeValidated
  /\ agentVMs' = [agentVMs EXCEPT ![index] = "upgraded"]
  /\ count' = count + 1
  /\ pc' = IF pc = "filling" THEN "fill" ELSE "swap"
  /\ UNCHANGED <<azure, topology, pool, todo, index, outcome, faults>>

PoolUpgraded ==
  /\ pc = "swap"
  /\ Present(agentVMs, {"notUpgraded"}) = {}
  /\ pc' = "pools"
  /\ UNCHANGED <<azure, topology, visit, outcome, faults>>

PoolsUpgraded ==
  /\ pc = "pools"
  /\ poolsTodo = {}
  /\ pc' = "save"
  /\ UNCHANGED <<azure, topology, visit, outcome, faults>>

\* "Cluster upgraded successfully", and saveTemplates.
Succeed ==
  /\ pc = "save"
  /\ pc' = "idle"
  /\ outcome' = "ok"
  /\ UNCHANGED <<azure, topology, visit, faults>>

-----------------------------------------------------------------------------
(* Failures. *)

\* An error before anything was done: ARM, the API server, the templates, or
\* terraform is killed.
CallFails ==
  /\ pc # "idle"
  /\ Fault
  /\ Fail
  /\ UNCHANGED azure

\* The deployment went through in part, or as a whole but the client has not
\* learnt that the master is ready.
MasterNotReady ==
  /\ pc = "master"
  /\ Fault
  /\ masters' \in {masters, [masters EXCEPT ![index] = "new"]}
  /\ ScaleSetsDeployed \/ UNCHANGED scaleSets
  /\ Fail
  /\ UNCHANGED <<profile, vms>>

InstanceFails ==
  /\ ScaleSetCallFails
  /\ UNCHANGED <<profile, masters, vms, before, stages, visit>>

\* DeleteNode fails: it gave up waiting for the VM to go, or the VM is gone and
\* its network interface or disk is not.
DeletionFails(i) ==
  /\ \/ pc = "purge" /\ i \in FailedNodes
     \/ pc = "swap" /\ agentVMs[i] = "notUpgraded" /\ vms[pool][i] # "none"
  /\ Fault
  /\ \/ SetVM(pool, i, "none")
     \/ SetVM(pool, i, IF vms[pool][i] \in OldStates THEN "leaving" ELSE "Deleting")
  /\ Fail
  /\ UNCHANGED others

\* GetVirtualMachine does not find the VM: an earlier deletion went through.
AgentNotFound(i) ==
  /\ pc = "swap"
  /\ agentVMs[i] = "notUpgraded"
  /\ vms[pool][i] = "none"
  /\ Fail
  /\ UNCHANGED <<azure, faults>>

\* The deployment failed, or the node was not ready in time.
AgentNotUpgraded ==
  /\ pc \in {"filling", "swapping"}
  /\ vms[pool][index] \in {"Failed", "unready"}
  /\ Fail
  /\ UNCHANGED <<azure, faults>>

-----------------------------------------------------------------------------
(* Azure's side. *)

NodeComesUp(p, i) ==
  /\ vms[p][i] \in {"Creating", "unready"}
  /\ SetVM(p, i, "ready")
  /\ UNCHANGED <<others, pc, topology, visit, outcome, faults>>

\* It comes up without joining the cluster in time, or not at all.
NodeDoesNot(p, i) ==
  /\ vms[p][i] = "Creating"
  /\ Fault
  /\ \E state \in {"unready", "Failed"} : SetVM(p, i, state)
  /\ UNCHANGED <<others, pc, topology, visit, outcome>>

NodeGone(p, i) ==
  /\ vms[p][i] \in {"leaving", "Deleting"}
  /\ SetVM(p, i, "none")
  /\ UNCHANGED <<others, pc, topology, visit, outcome, faults>>

-----------------------------------------------------------------------------
Advance ==
  \/ Start
  \/ \E i \in MasterIndices : DeleteMaster(i)
  \/ FindMissingMaster
  \/ CreateMaster
  \/ MastersUpgraded
  \/ UpgradeScaleSets
  \/ \E p \in Pools : VisitPool(p)
  \/ \E i \in Indices : DeleteFailedNode(i)
  \/ FailedNodesDeleted
  \/ CreateMissingAgent
  \/ PoolFilled
  \/ \E i \in Indices : DeleteAgent(i)
  \/ CreateAgent
  \/ AgentUpgraded
  \/ PoolUpgraded
  \/ PoolsUpgraded
  \/ Succeed
  \/ \E i \in Indices : AgentNotFound(i)
  \/ AgentNotUpgraded

Failures ==
  \/ CallFails
  \/ MasterNotReady
  \/ InstanceFails
  \/ \E i \in Indices : DeletionFails(i)

AzureStep == \E p \in Pools, i \in Indices :
  NodeComesUp(p, i) \/ NodeDoesNot(p, i) \/ NodeGone(p, i)

\* The versions agree, and Update has nothing to upgrade.
Upgraded ==
  /\ pc = "idle"
  /\ outcome = "ok"
  /\ UNCHANGED vars

Next == Advance \/ Failures \/ AzureStep \/ Upgraded

Spec == Init /\ [][Next]_vars

\* Terraform is run again after an error, calls are answered, and Azure brings
\* up or removes what it was asked to.
FairSpec ==
  /\ Spec
  /\ WF_vars(Advance)
  /\ \A p \in Pools, i \in Indices : WF_vars(NodeComesUp(p, i) \/ NodeGone(p, i))

-----------------------------------------------------------------------------
(* Properties. *)

\* An attempt takes away one master at a time, so every failure can cost the
\* cluster at most one master more than that.  (With three masters, one failure
\* is enough to lose the etcd quorum: upgradeMasterNodes deletes the next old
\* master before it creates the missing one.)
OneMasterPerFailure ==
  Cardinality(Present(masters, {"none"})) <= faults + 1

\* A pool never has fewer agents that can run pods than the api_model says, but
\* for one per failure: the extra node is there before an old one goes.
OneAgentPerFailure ==
  \A p \in Pools \ ScaleSets :
    Cardinality(Present(vms[p], {"old", "ready"})) >= AgentCount - faults

\* What the log of UpgradeCluster says of a return without error: the cluster is
\* at the new version, every master and every agent.  Scale sets get the version
\* from the deployments of masters: when all of these failed half way, with the
\* master there, nothing gives it to them any more.
SuccessUpgradesAll ==
  outcome = "ok" =>
    /\ \A i \in MasterIndices : masters[i] = "new"
    /\ \A p \in Pools : Present(vms[p], {"old"}) = {}
    /\ faults < MasterCount =>
         \A s \in ScaleSets : Present(instances[s], {"old"}) = {}

\* An upgrade that succeeded, after whatever failed before it, leaves the number
\* of agents the api_model records, with no extra node left over, unless they had
\* all been deleted and the pool was not on the list any more.  A scale set is
\* left with at most one instance more for every page of its list, for each of
\* the failed attempts (one of them can fail without a fault) and the last.
SuccessKeepsCount ==
  outcome = "ok" =>
    /\ \A p \in Pools \ ScaleSets :
         \/ Cardinality(Present(vms[p], NewStates \ {"Deleting"})) = AgentCount
         \/ Present(seen[p], {"none"}) = Indices
    /\ \A s \in ScaleSets :
         Cardinality(Instances(s)) <= AgentCount + MaxPages * (faults + 2)

\* A deployment never names an agent that exists: ARM would re-provision it.
CreatesOnlyMissing ==
  [][\A p \in Pools, i \in Indices :
       vms'[p][i] = "Creating" => vms[p][i] \in {"none", "Creating"}]_vars

\* The pool has one of the given sizes, as a function of the one it had, but for
\* machines that went before or after they were counted.
SizeIn(p, SizesFrom(_)) ==
  \E j, k \in 0 .. begun.pools[p].going :
    /\ j + k <= begun.pools[p].going
    /\ Cardinality(Machines(p)) + j \in SizesFrom(begun.pools[p].size - k)

Completed(p) ==
  /\ Behind(p) = {}
  /\ SizeIn(p, LAMBDA size : SizesUpgraded(begun.u, AgentCount, size, begun.pools[p].behind))

Interrupted(p) ==
  SizeIn(p, LAMBDA size : SizesInterrupted(begun.u, AgentCount, size, begun.pools[p].behind))

\* With old masters left, new agents come only from scale sets that grow.
Untouched(p) ==
  /\ SizeIn(p, LAMBDA size : SizesDuringMasters(begun.u, AgentCount, size))
  /\ Behind(p) # Machines(p) =>
       \/ begun.pools[p].ahead
       \/ p \in ScaleSets /\ Cardinality(Machines(p)) > begun.pools[p].size

\* An attempt, complete or not, leaves machines and versions that UpgradeOutcome
\* has, whatever earlier attempts have left it: the steps ClusterResource takes
\* for an upgrade are all there are, as long as the scale sets have got the
\* version (see SuccessUpgradesAll).
OutcomesComplete ==
  [][(pc # "idle" /\ pc' = "idle" /\ faults' < MasterCount) =>
       IF outcome' = "ok"
       THEN \E visited \in PoolsVisited(begun.u, Pools, {p \in Pools : begun.pools[p].behind}) :
              \A p \in Pools : IF p \in visited THEN Completed(p)' ELSE Untouched(p)'
       ELSE \/ \A p \in Pools : Untouched(p)'
            \/ /\ Present(masters', {"new"}) = MasterIndices
               /\ \A p \in Pools : (Untouched(p) \/ Interrupted(p) \/ Completed(p))']_vars

\* Terraform run again and again gets there once nothing fails any more.
Completes == <>(outcome = "ok")

=============================================================================
