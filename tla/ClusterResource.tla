--------------------------- MODULE ClusterResource ---------------------------
(***************************************************************************)
(* The life of an acsengine_kubernetes_cluster resource: what terraform    *)
(* plans from the configuration and its state, what Create, Update and     *)
(* Delete of resource_acsengine_kubernetes_cluster.go then do to Azure,    *)
(* and what of it terraform records.                                       *)
(*                                                                         *)
(* The provider never asks Azure what a cluster looks like: Read goes by   *)
(* the api_model, which is itself an attribute of the state.  Update runs  *)
(* in partial mode, so an error keeps the api_model of before the update.  *)
(***************************************************************************)
EXTENDS Integers, Sequences, FiniteSets, UpgradeOutcome

CONSTANTS
  NumPools,    \* agent pools of the configuration
  MaxCount,    \* largest count of a pool
  MaxVersion,  \* Kubernetes versions are 1, 2, ..., one minor version apart
  Tags,        \* values of the tags attribute
  NoTags,      \* a resource group without any
  Careful,     \* the user repeats a failed apply, once Azure is at rest
  MaxFaults,   \* bound on the failures a behaviour meets
  Absent,      \* the resource is not in the configuration
  NoState,     \* the resource is not in the Terraform state
  None         \* no deployment runs

ASSUME ResourceAssumption ==
  /\ NumPools \in Nat \ {0}
  /\ MaxCount \in Nat \ {0}
  /\ MaxVersion \in Nat \ {0}
  /\ Tags # {}
  /\ Careful \in BOOLEAN
  /\ MaxFaults \in Nat

VARIABLES
  config,   \* the resource's block in the configuration, or Absent
  state,    \* its instance in the Terraform state, or NoState
  azure,    \* the resource group
  running,  \* a scaling deployment the provider no longer waits for, or None
  pc,       \* where terraform apply is
  model,    \* the api_model Update has put together so far
  partial,  \* the attributes Update has named to SetPartial
  pool,     \* the pool the scaling loop of Update is at
  outcome,  \* how the last apply ended
  faults    \* failures so far

update == <<model, partial, pool>>
vars   == <<config, state, azure, running, pc, update, outcome, faults>>

Pools    == 1 .. NumPools
Versions == 1 .. MaxVersion

\* What the resource block says; an api_model holds the same attributes.
Configs == [version : Versions, counts : [Pools -> 1 .. MaxCount], tags : Tags]

\* After scaleUpCluster an api_model lists a single pool.
CountLists == [Pools -> 1 .. MaxCount] \cup [1 .. 1 -> 1 .. MaxCount]
Models  == [version : Versions, counts : CountLists, tags : Tags]
States  == [version : Versions, counts : CountLists, tags : Tags,
            api_model : Models, tainted : BOOLEAN]

\* masters and agents[i].versions are the versions found among the nodes, and
\* scaleSets says which kind of pools the configuration has.
Clusters ==
  [deployed : BOOLEAN, scaleSets : BOOLEAN, tags : Tags \cup {NoTags},
   masters : SUBSET Versions,
   agents : [Pools -> [size : 0 .. MaxCount + MaxFaults + MaxVersion, versions : SUBSET Versions]]]

Deployments == [pool : Pools, size : 1 .. MaxCount, version : Versions]

ASSUME ApartAssumption ==
  /\ Absent \notin Configs
  /\ NoState \notin States
  /\ None \notin Deployments
  /\ NoTags \notin Tags

TypeOK ==
  /\ config \in Configs \cup {Absent}
  /\ state \in States \cup {NoState}
  /\ azure \in Clusters
  /\ running \in Deployments \cup {None}
  /\ pc \in {"idle", "create", "delete", "upgrade", "scale", "tags", "finish"}
  /\ model \in Models
  /\ partial \subseteq {"kubernetes_version", "tags"}
  /\ pool \in 1 .. NumPools + 1
  /\ outcome \in {"none", "working", "ok", "error"}
  /\ faults \in 0 .. MaxFaults

NoAgents == [p \in Pools |-> [size |-> 0, versions |-> {}]]

Nothing == [azure EXCEPT !.deployed = FALSE, !.masters = {}, !.agents = NoAgents]

\* The cluster the template generated from a configuration deploys.
ClusterOf(c) ==
  [azure EXCEPT
     !.deployed = TRUE,
     !.tags     = c.tags,
     !.masters  = {c.version},
     !.agents   = [p \in Pools |-> [size |-> c.counts[p], versions |-> {c.version}]]]

Init ==
  /\ config \in Configs
  /\ state = NoState
  /\ \E sets \in BOOLEAN :
       azure = [deployed |-> FALSE, scaleSets |-> sets, tags |-> config.tags,
                masters |-> {}, agents |-> NoAgents]
  /\ running = None
  /\ pc = "idle"
  /\ model = config
  /\ partial = {}
  /\ pool = 1
  /\ outcome = "none"
  /\ faults = 0

-----------------------------------------------------------------------------
Fault ==
  /\ faults < MaxFaults
  /\ faults' = faults + 1

Return(result) ==
  /\ pc' = "idle"
  /\ outcome' = result

\* Read fills the attributes from the api_model.
ReadFrom(m, tainted) ==
  [version |-> m.version, counts |-> m.counts, tags |-> m.tags,
   api_model |-> m, tainted |-> tainted]

\* ValidateKubernetesVersionUpgrade.
UpgradeAllowed(new, old) == new = old + 1

\* The user writes another configuration, or removes the resource from it.
Edit ==
  /\ pc = "idle"
  /\ config' \in (Configs \cup {Absent}) \ {config}
  /\ Careful =>
       /\ outcome = "ok"
       /\ (config # Absent /\ config' # Absent) =>
            \/ config'.version = config.version
            \/ UpgradeAllowed(config'.version, config.version)
  /\ outcome' = "none"
  /\ UNCHANGED <<state, azure, running, pc, update, faults>>

\* terraform apply starts, and refreshes the state.
Starts ==
  /\ pc = "idle"
  /\ Careful => running = None
  /\ UNCHANGED <<config, azure, running, faults>>

Refreshed == ReadFrom(state.api_model, state.tainted)

\* Mutant: a count forces a new resource, too.
CountForcesNew ==
  /\ config # Absent
  /\ ~state.tainted
  /\ Refreshed.counts = config.counts

\* Every attribute of a pool but its count forces a new resource.
InPlace ==
  /\ config # Absent
  /\ ~state.tainted
  /\ DOMAIN Refreshed.counts = DOMAIN config.counts

PlanCreate ==
  /\ Starts
  /\ state = NoState
  /\ config # Absent
  /\ pc' = "create"
  /\ outcome' = "working"
  /\ UNCHANGED <<state, update>>

PlanDelete ==
  /\ Starts
  /\ state # NoState
  /\ ~InPlace
  /\ state' = Refreshed
  /\ pc' = "delete"
  /\ outcome' = "working"
  /\ UNCHANGED update

PlanUpdate ==
  /\ Starts
  /\ state # NoState
  /\ InPlace
  /\ Refreshed # ReadFrom(config, FALSE)
  /\ state' = Refreshed
  /\ model' = state.api_model
  /\ partial' = {}
  /\ pool' = 1
  /\ pc' = "upgrade"
  /\ outcome' = "working"

PlanNothing ==
  /\ Starts
  /\ IF state = NoState THEN config = Absent /\ UNCHANGED state
     ELSE /\ InPlace
          /\ Refreshed = ReadFrom(config, FALSE)
          /\ state' = Refreshed
  /\ Return("ok")
  /\ UNCHANGED update

\* Read cannot get the certificates for the kube config from the key vault.
RefreshFails ==
  /\ pc = "idle"
  /\ state # NoState
  /\ Fault
  /\ Return("error")
  /\ UNCHANGED <<config, state, azure, running, update>>

-----------------------------------------------------------------------------
(* resourceACSEngineK8sClusterCreate. *)

Create ==
  /\ pc = "create"
  /\ azure' = ClusterOf(config)
  /\ state' = ReadFrom(config, FALSE)
  /\ Return("ok")
  /\ UNCHANGED <<config, running, update, faults>>

\* An error before SetId leaves no state, whatever was deployed.  Azure is taken
\* to accept the next deployment over what this one has left.
CreateFails ==
  /\ pc = "create"
  /\ Fault
  /\ azure' \in {azure, [azure EXCEPT !.tags = config.tags], ClusterOf(config)}
  /\ Return("error")
  /\ UNCHANGED <<config, state, running, update>>

\* The cluster is deployed and Read fails on the kube config: terraform marks a
\* resource whose creation returned an error as tainted.
CreateUnread ==
  /\ pc = "create"
  /\ Fault
  /\ azure' = ClusterOf(config)
  /\ state' = ReadFrom(config, TRUE)
  /\ Return("error")
  /\ UNCHANGED <<config, running, update>>

-----------------------------------------------------------------------------
(* resourceACSEngineK8sClusterDelete: the resource group goes, with all in it. *)

\* A resource group that is not there counts as deleted.  Replacing the
\* resource goes on with its creation.
Delete ==
  /\ pc = "delete"
  /\ azure' = Nothing
  /\ running' = None
  /\ state' = NoState
  /\ IF config = Absent THEN Return("ok") ELSE pc' = "create" /\ UNCHANGED outcome
  /\ UNCHANGED <<config, update, faults>>

\* Mutant: an error means that the resource group was not found.
ForgottenOnError == NoState

\* What an error of Delete leaves in the state.
StateAfterDeleteError == state

DeleteFails ==
  /\ pc = "delete"
  /\ Fault
  /\ \/ UNCHANGED <<azure, running>>
     \/ azure' = Nothing /\ running' = None
  /\ state' = StateAfterDeleteError
  /\ Return("error")
  /\ UNCHANGED <<config, update>>

-----------------------------------------------------------------------------
(* resourceACSEngineK8sClusterUpdate. *)

\* Mutant: the api_model is saved before the work is done.
StateSavedFirst == ReadFrom(config, FALSE)

\* The state after an error: the attributes named to SetPartial as planned, all
\* others, api_model among them, as they were.  The names agent_pool_profiles.N.
\* count are no keys of the schema and name nothing.
PartialState ==
  [state EXCEPT
     !.version = IF "kubernetes_version" \in partial THEN config.version ELSE @,
     !.tags    = IF "tags" \in partial THEN config.tags ELSE @]

UpdateError ==
  /\ state' = PartialState
  /\ Return("error")

\* Mutant: a cluster can be told to go back.
AnyOtherVersion == config.version # state.version

\* Mutant: the version to upgrade from is that of the masters.
FromLiveVersion == azure.masters = {state.version} /\ UpgradeAllowed(config.version, state.version)

VersionAllowed == UpgradeAllowed(config.version, state.version)

VersionRefused ==
  /\ pc = "upgrade"
  /\ config.version # state.version
  /\ ~VersionAllowed
  /\ UpdateError
  /\ UNCHANGED <<config, azure, running, update, faults>>

\* Pools with nodes of another version.
PoolsBehind ==
  {p \in Pools : azure.agents[p].versions \ {config.version} # {}}

\* The attempt, for UpgradeOutcome.  The few VMs of a scale set are on one page.
Attempt == [scaleSets |-> azure.scaleSets, pages |-> 1,
            redeploys |-> azure.masters # {config.version}]

\* The sizes a pool can be brought to, as a function of the one it has, but for
\* machines that earlier failures have left broken or about to go.
SizesFrom(p, Sizes(_)) ==
  LET going == IF azure.scaleSets THEN 0 ELSE faults IN
  {size - j : size \in UNION {Sizes(azure.agents[p].size - k) : k \in 0 .. going},
              j \in 0 .. going} \cap Nat

\* Mutant: there is no extra machine, and what is missing is not replaced.
DeletedFirst(p) == [size : {azure.agents[p].size - 1}, versions : {azure.agents[p].versions}]

AgentsUpgraded(p) ==
  [size : SizesFrom(p, LAMBDA size :
            SizesUpgraded(Attempt, model.counts[p], size, p \in PoolsBehind)),
   versions : {{config.version}}]

AgentsInterrupted(p) ==
  [size : SizesFrom(p, LAMBDA size :
            SizesInterrupted(Attempt, model.counts[p], size, p \in PoolsBehind)),
   versions : (SUBSET (azure.agents[p].versions \cup {config.version})) \ {{}}]

\* upgradeCluster (module ClusterUpgrade has the steps).
Upgrade ==
  /\ pc = "upgrade"
  /\ azure.deployed
  /\ config.version # state.version
  /\ VersionAllowed
  /\ \E visited \in PoolsVisited(Attempt, Pools, PoolsBehind),
        agents \in [Pools -> UNION {AgentsUpgraded(p) \cup {azure.agents[p]} : p \in Pools}] :
       /\ \A p \in Pools : IF p \in visited THEN agents[p] \in AgentsUpgraded(p)
                                            ELSE agents[p] = azure.agents[p]
       /\ azure' = [azure EXCEPT !.masters = {config.version}, !.agents = agents]
  /\ model' = [model EXCEPT !.version = config.version]
  /\ partial' = partial \cup {"kubernetes_version"}
  /\ pc' = "scale"
  /\ UNCHANGED <<config, state, running, pool, outcome, faults>>

\* A pool brought to another size with machines of the given version.
Resized(p, size, version) ==
  [size : {size},
   versions : {vs \in (SUBSET Versions) \ {{}} :
     /\ size > azure.agents[p].size => vs = azure.agents[p].versions \cup {version}
     /\ size = azure.agents[p].size => vs = azure.agents[p].versions
     /\ size < azure.agents[p].size => vs \subseteq azure.agents[p].versions}]

\* Mutant: agents are replaced while there are old masters.
AgentsAnytime(p) == AgentsInterrupted(p)

\* While the masters are replaced, only their deployments touch the agents.
AgentsDuringMasters(p) ==
  UNION {Resized(p, size, config.version) :
           size \in SizesDuringMasters(Attempt, model.counts[p], azure.agents[p].size)}

\* It ends with an error on the way: RunUpgrade replaces no agent before the last
\* master.
UpgradeFails ==
  /\ pc = "upgrade"
  /\ azure.deployed
  /\ config.version # state.version
  /\ VersionAllowed
  /\ Fault
  /\ \/ \E agents \in [Pools -> UNION {AgentsDuringMasters(p) : p \in Pools}],
           masters \in {azure.masters, azure.masters \cup {config.version}} :
          /\ \A p \in Pools : agents[p] \in AgentsDuringMasters(p)
          /\ azure' = [azure EXCEPT !.masters = masters, !.agents = agents]
     \/ \E agents \in [Pools -> UNION {AgentsInterrupted(p) \cup AgentsDuringMasters(p) : p \in Pools}] :
          /\ \A p \in Pools : agents[p] \in AgentsInterrupted(p) \cup AgentsDuringMasters(p)
          /\ azure' = [azure EXCEPT !.masters = {config.version}, !.agents = agents]
  /\ UpdateError
  /\ UNCHANGED <<config, running, update>>

VersionUnchanged ==
  /\ pc = "upgrade"
  /\ config.version = state.version
  /\ pc' = "scale"
  /\ UNCHANGED <<config, state, azure, running, update, outcome, faults>>

-----------------------------------------------------------------------------
(* The scaling loop (module AgentPoolScale has the steps of one call). *)

\* HasChange on the pool's count.
Scaling(p) ==
  /\ pc = "scale"
  /\ pool = p
  /\ p \in Pools
  /\ config.counts[p] # state.counts[p]

\* There is a pool of this index in the api_model and in Azure.
Reaches(p) == p \in DOMAIN model.counts /\ azure.deployed

CountUnchanged ==
  /\ pc = "scale"
  /\ pool \in Pools
  /\ config.counts[pool] = state.counts[pool]
  /\ pool' = pool + 1
  /\ UNCHANGED <<config, state, azure, running, pc, model, partial, outcome, faults>>

\* SetScaleClient indexes the pools of the api_model, which may list fewer than
\* the configuration: the provider panics, and terraform, having no answer,
\* writes an empty instance.
ScaleIndexPanics(p) ==
  /\ Scaling(p)
  /\ p \notin DOMAIN model.counts
  /\ state' = NoState
  /\ Return("error")
  /\ UNCHANGED <<config, azure, running, update, faults>>

\* ScaleVMAS finds as many agents as there shall be: nothing is saved.
AtDesiredCount(p) ==
  /\ Scaling(p)
  /\ Reaches(p)
  /\ ~azure.scaleSets
  /\ azure.agents[p].size = config.counts[p]
  /\ pool' = pool + 1
  /\ UNCHANGED <<config, state, azure, running, pc, model, partial, outcome, faults>>

ScaleDown(p) ==
  /\ Scaling(p)
  /\ Reaches(p)
  /\ ~azure.scaleSets
  /\ azure.agents[p].size > config.counts[p]
  /\ \E agents \in Resized(p, config.counts[p], model.version) :
       azure' = [azure EXCEPT !.agents[p] = agents]
  /\ model' = [model EXCEPT !.counts[p] = config.counts[p]]
  /\ pool' = pool + 1
  /\ UNCHANGED <<config, state, running, pc, partial, outcome, faults>>

\* Mutant: the count is not saved.
UnsavedPool(p) == model.counts

\* scaleUpCluster has left only the scaled pool in the api_model.
ScaledPool(p) == [i \in 1 .. 1 |-> config.counts[p]]

\* The deployment of scaleUpCluster: always for a scale set, whose capacity it
\* sets, and to add agents to an availability set.
Deploys(p) ==
  /\ Scaling(p)
  /\ Reaches(p)
  /\ azure.scaleSets \/ azure.agents[p].size < config.counts[p]
  /\ running = None

\* saveScaledApimodel writes the count at the pool's index in the configuration,
\* which is beyond the single pool left but for the first one.
ScaleUp(p) ==
  /\ Deploys(p)
  /\ \E agents \in Resized(p, config.counts[p], model.version) :
       azure' = [azure EXCEPT !.agents[p] = agents]
  /\ IF p \in DOMAIN ScaledPool(p)
     THEN /\ model' = [model EXCEPT !.counts = ScaledPool(p)]
          /\ pool' = pool + 1
          /\ UNCHANGED <<state, pc, outcome>>
     ELSE /\ state' = NoState
          /\ Return("error")
          /\ UNCHANGED <<model, pool>>
  /\ UNCHANGED <<config, running, partial, faults>>

\* A deployment fails half way or outlives the provider's patience.
ScaleUpFails(p) ==
  /\ Deploys(p)
  /\ Fault
  /\ \E size \in azure.agents[p].size .. config.counts[p] \cup
                 config.counts[p] .. azure.agents[p].size :
     \E agents \in Resized(p, size, model.version) :
       azure' = [azure EXCEPT !.agents[p] = agents]
  /\ running' \in {None, [pool |-> p, size |-> config.counts[p],
                          version |-> model.version]}
  /\ UpdateError
  /\ UNCHANGED <<config, update>>

\* Some VMs are deleted and others are not.
ScaleDownFails(p) ==
  /\ Scaling(p)
  /\ Reaches(p)
  /\ ~azure.scaleSets
  /\ Fault
  /\ \E size \in config.counts[p] .. azure.agents[p].size :
     \E agents \in Resized(p, size, model.version) :
       azure' = [azure EXCEPT !.agents[p] = agents]
  /\ UpdateError
  /\ UNCHANGED <<config, running, update>>

\* The resource group, deleted although Delete had returned an error, has no
\* machines to be listed.
ClusterGone ==
  /\ ~azure.deployed
  /\ \/ /\ pc = "upgrade"
        /\ config.version # state.version
     \/ \E p \in DOMAIN model.counts : Scaling(p)
  /\ UpdateError
  /\ UNCHANGED <<config, azure, running, update, faults>>

\* EnsureResourceGroup, called before every upgrade and scaling, puts the group
\* back with the tags it has just got, and with none if it could not get them.
TagsDropped ==
  /\ azure.deployed
  /\ \/ pc = "upgrade" /\ config.version # state.version /\ VersionAllowed
     \/ \E p \in DOMAIN model.counts : Scaling(p)
  /\ Fault
  /\ azure' = [azure EXCEPT !.tags = NoTags]
  /\ UNCHANGED <<config, state, running, pc, update, outcome>>

PoolsScaled ==
  /\ pc = "scale"
  /\ pool \notin Pools
  /\ pc' = "tags"
  /\ UNCHANGED <<config, state, azure, running, update, outcome, faults>>

-----------------------------------------------------------------------------
(* updateResourceGroupTags, and the end of Update. *)

UpdateTags ==
  /\ pc = "tags"
  /\ config.tags # state.tags
  /\ azure' = [azure EXCEPT !.tags = config.tags]
  /\ model' = [model EXCEPT !.tags = config.tags]
  /\ partial' = partial \cup {"tags"}
  /\ pc' = "finish"
  /\ UNCHANGED <<config, state, running, pool, outcome, faults>>

UpdateTagsFails ==
  /\ pc = "tags"
  /\ config.tags # state.tags
  /\ Fault
  /\ azure' \in {azure, [azure EXCEPT !.tags = config.tags]}
  /\ UpdateError
  /\ UNCHANGED <<config, running, update>>

TagsUnchanged ==
  /\ pc = "tags"
  /\ config.tags = state.tags
  /\ pc' = "finish"
  /\ UNCHANGED <<config, state, azure, running, update, outcome, faults>>

\* Partial(false), and Read from what Update has set.  Its last step, the kube
\* config, can fail without harm to the rest.
Finish ==
  /\ pc = "finish"
  /\ state' = ReadFrom(model, FALSE)
  /\ \/ Return("ok") /\ UNCHANGED faults
     \/ Return("error") /\ Fault
  /\ UNCHANGED <<config, azure, running, update>>

\* The other error returns of Update: the service principal's secret, the client,
\* the kube config, the deployment that is refused while another one runs.
UpdateFails ==
  /\ pc \in {"upgrade", "scale", "tags"}
  /\ Fault
  /\ UpdateError
  /\ UNCHANGED <<config, azure, running, update>>

\* Terraform or the machine it runs on dies, and the state stays as it was.
Dies ==
  /\ pc # "idle"
  /\ Fault
  /\ Return("error")
  /\ UNCHANGED <<config, state, azure, running, update>>

\* Azure ends a deployment nobody waits for, or it fails there.
DeploymentEnds ==
  /\ running # None
  /\ running' = None
  /\ \E agents \in Resized(running.pool, running.size, running.version) :
       azure' = [azure EXCEPT !.agents[running.pool] = agents]
  /\ UNCHANGED <<config, state, pc, update, outcome, faults>>

-----------------------------------------------------------------------------
Apply ==
  \/ PlanCreate
  \/ PlanDelete
  \/ PlanUpdate
  \/ PlanNothing
  \/ Create
  \/ Delete
  \/ VersionRefused
  \/ Upgrade
  \/ VersionUnchanged
  \/ CountUnchanged
  \/ \E p \in Pools : \/ ScaleIndexPanics(p)
                      \/ AtDesiredCount(p)
                      \/ ScaleDown(p)
                      \/ ScaleUp(p)
  \/ ClusterGone
  \/ PoolsScaled
  \/ UpdateTags
  \/ TagsUnchanged
  \/ Finish

Failures ==
  \/ RefreshFails
  \/ CreateFails
  \/ CreateUnread
  \/ DeleteFails
  \/ UpgradeFails
  \/ \E p \in Pools : ScaleUpFails(p) \/ ScaleDownFails(p)
  \/ UpdateTagsFails
  \/ TagsDropped
  \/ UpdateFails
  \/ Dies

Next == Edit \/ Apply \/ Failures \/ DeploymentEnds

Spec == Init /\ [][Next]_vars

\* Terraform goes on with an apply, which is started again when it has failed,
\* and Azure ends what it runs.
FairSpec == Spec /\ WF_vars(Apply) /\ WF_vars(DeploymentEnds)

-----------------------------------------------------------------------------
(* Properties. *)

\* No agent of an availability set is ever of a newer version than a master,
\* wherever an upgrade stops and whatever is applied next: RunUpgrade replaces the
\* agents after the last master, and a scaling template is the one of the recorded
\* version.  A scale set needs two failures for it: one that leaves it smaller than
\* recorded, and one after the first new master, whose deployment has it grow.
NoSkew ==
  \A p \in Pools, master \in azure.masters :
    \A agent \in azure.agents[p].versions :
      agent <= master \/ (azure.scaleSets /\ faults > 1)

\* As long as terraform knows the cluster, no update puts a master of an older
\* version among its masters.
MastersOnlyForward ==
  [][(state # NoState /\ state' # NoState) =>
       \A new \in azure'.masters : \E old \in azure.masters : old <= new]_vars

\* Terraform only loses sight of a cluster that is gone: no error of Read,
\* Update or Delete makes it forget one that is still there.
NeverForgotten ==
  [][(state # NoState /\ state' = NoState) => ~azure'.deployed]_vars

\* The version of the recorded api_model, from which the next plan is made, is the
\* least any node has: an upgrade that failed is not taken for one that is done.
NeverOverclaims ==
  (pc = "idle" /\ state # NoState) =>
     \A v \in azure.masters \cup UNION {azure.agents[p].versions : p \in Pools} :
        v >= state.api_model.version

Rests == outcome = "ok" /\ running = None

\* An apply without an error has brought every node to the version of the
\* configuration, after any number of applies that failed at any point.  The
\* resource group has its tags; an upgrade or a scaling may have dropped them, but
\* not if the same apply has changed them: Update sets the tags last.
NodesAgree ==
  (Rests /\ config # Absent) =>
     /\ azure.deployed
     /\ azure.tags = config.tags \/ (azure.tags = NoTags /\ "tags" \notin partial)
     /\ azure.masters = {config.version}
     /\ \A p \in Pools : azure.agents[p].versions = {config.version}

\* Likewise it has given every scale set its machines, and left in the state what
\* the configuration says.  A scale set may keep the machine that an interrupted
\* upgrade has added.  Of availability sets neither can be said: ModelIsUpdated.
ScaleSetsAgree ==
  (Rests /\ config # Absent /\ azure.scaleSets) =>
     /\ state = ReadFrom(config, FALSE)
     /\ \A p \in Pools : azure.agents[p].size >= config.counts[p]

\* An apply without an error leaves in the state, api_model included, what the
\* configuration says, so that the next plan is empty.
ModelIsUpdated ==
  (outcome = "ok" /\ config # Absent) => state = ReadFrom(config, FALSE)

\* A change of the version, the counts and the tags is made to the cluster there
\* is: only a cluster whose creation failed or that is removed from the
\* configuration is deleted.
UpdatedInPlace ==
  [][(pc = "idle" /\ pc' = "delete") => (config = Absent \/ state.tainted)]_vars

\* A failed apply, repeated often enough, ends without an error.
RetriesSucceed == outcome = "error" ~> outcome = "ok"

=============================================================================
