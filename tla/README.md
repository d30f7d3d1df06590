# A TLA+ model of terraform-provider-acsengine

The provider lets Terraform create, scale, upgrade, tag and delete a Kubernetes
cluster on Azure that acs-engine has generated. Its one resource that matters,
`acsengine_kubernetes_cluster`, is a few hundred lines of Go, but what those lines
do takes up to hours, deletes and re-creates machines that run, and can stop at
any call. Nothing takes back what was done: the only remedy is another
`terraform apply`, which goes by what the last one has recorded. That is what is
modelled here: what an apply, complete or not, leaves in Azure and in the state,
and what any sequence of them makes of the cluster.

## The system

### Components, their state and how they interact

| Component | Code | State it keeps | Operations |
| --- | --- | --- | --- |
| cluster resource | `acsengine/resource_acsengine_kubernetes_cluster.go`, `containerservice.go`, `resource_group.go`, `tags.go` | the instance in the Terraform state: the attributes, and `api_model`, the JSON of the whole cluster | Create, Read, Update (upgrade, scale each pool, tags), Delete |
| Terraform's core and SDK | `vendor/github.com/hashicorp/terraform` | configuration, state, plan, partial mode, taint | plan, apply, save |
| pool scaling | `acsengine/cluster_scale.go`, `internal/operations/scale_client.go`, acs-engine's `scaledownagentpool.go`, `deletevm.go` | the VMs of a pool; the deployment that runs | list, drain, delete, deploy, save |
| node draining | `DrainNodes` in `scale_client.go`, acs-engine's `cordondrainvm.go` | a channel and a goroutine per node; node objects and pods | cordon, list, evict, answer |
| cluster upgrade | `acsengine/cluster_upgrade.go`, acs-engine's `kubernetesupgrade/` | the topology listed, the master and agent VMs | delete and create a master, fill a pool, swap an agent |
| scale sets | `upgradeAgentScaleSets` in acs-engine's `upgrader.go`, `upgradecluster.go`, `compute.go` | capacity, instances, the version instances are created with | list, raise the capacity, delete instances; set by every deployment |
| creation and key vault | `acsengine/cluster_create.go`, `key_vault.go` | certificates and secrets in a vault | generate, set secrets, deploy, import, read the kube config |
| provider configuration | `acsengine/provider.go`, `config.go` | Azure clients | list and register resource providers in goroutines |
| authentication | `acsengine/config.go`, `internal/authentication` | the configuration, completed from the files of the Azure CLI | choose and validate credentials, give a token to each client |
| clients | `internal/operations/client.go`, `auth.go`, acs-engine's `azureclient.go`, autorest's `rp.go` | registrations of the subscription | register what is required, or what a request misses |
| data source, import | `data_source_...go`, `import.go` | none of their own | Read, parse the import ID, load the cluster |
| profiles, tags, locations, IDs | `containerservice.go`, `tags.go`, `location.go`, `validators.go`, `internal/resource` | none | expand, load, flatten, parse, validate |
| kube config | `kubernetes.go`, `internal/kubernetes` | none | generate, parse, flatten |

Update calls the upgrade, then the scaling of one pool after the other, then the
tags, each with a client of its own that loads the cluster from `api_model` and
lists what is in Azure; the upgrade and the scaling save a new `api_model`. The
templates ask Azure for deployments that go on whether or not the provider waits
for them. Scaling down drains through the Kubernetes API, where controllers, the
scheduler and the kubelets act at the same time.

### What is hard, and what makes it right

* **The state is not the cluster.** Read never asks Azure (`docs/state.md`), Update
  works in Terraform's partial mode, and the two disagree after each failure. What
  an apply records must never be ahead of the cluster (`NeverOverclaims`), a
  success must mean that they agree (`NodesAgree`, `ScaleSetsAgree`,
  `ModelIsUpdated`), a retry must work (`RetriesSucceed`), and neither may end in
  a lost or a replaced cluster (`NeverForgotten`, `UpdatedInPlace`).
* **Indices.** New agents get indices from a template's loop. Deleting any of them
  leaves gaps that the count and the offset must make up for, while an earlier
  deployment may still be adding some, an earlier deletion still be taking some away, and
  the list may be cut before the pool's first VM (`SuccessIsEnough`, `SuccessIsExact`,
  `NoRedeploy`, `EmptiedLate`).
* **Certificates.** Every Create generates all of them anew and writes them one by
  one under the same names; deployments and reads take whatever is there
  (`OneGeneration`, `DeploysOneGeneration`, `CredentialsAreStable`).
* **Registration.** Three parts register resource providers, each by itself: one loses its
  errors, one has only so many attempts, and one does it whatever the user has said
  (`AttemptsSuffice`, `ClientIsRegistered`, `SkipIsHonoured`, `CreateSucceeds`).
* **Goroutines.** Every node is drained and every VM deleted in a goroutine that
  answers on a channel; the first error ends the draining (`NoPodKilled`,
  `ScaleDownEnds`, `ErrorIsReturned`, `CallReturns`).
* **Upgrades that stop half way.** An attempt goes by what it lists: missing
  masters, upgraded, failed and vanishing agents of earlier ones
  (`OneMasterPerFailure`, `OneAgentPerFailure`, `SuccessUpgradesAll`,
  `SuccessKeepsCount`, `CreatesOnlyMissing`, `Completes`), and the order of masters
  and agents must hold across all of them (`NoSkew`, `MastersOnlyForward`).
* **Scale sets.** Three parties set their capacity: the upgrade by a list that is older
  than the masters it has replaced, once for every page of it, and the deployment of
  every master (`ScaleSetKeepsCount`, and `SuccessKeepsCount` with its bound).
* **Two views of a cluster.** The configuration, the `api_model` and the state hold the
  same attributes in three forms, with three sets of rules for what is valid and what is
  equal. What was created must be readable, without a difference for the next plan
  (`CreatedIsReadBack`), and an import and the data source must find the same
  (`ReadersAgree`).
* **Credentials from several places.** Subscription, tenant and token may come from the
  configuration or from files that change, be looked up at different times, and be meant
  for one service or another (`CredentialsFit`).

`PROJECT.json` lists every hazard with its line and the properties that cover it.

## The modules

    ClusterResource          the resource: plan, apply, partial state; the upgrade
       |   |   |             and the scalings are single steps, or fail half way
       |   |   +------------ AgentPoolScale    one such scaling, VM by VM
       |   |                    |      |
       |   |                    |      +------ PoolPromise   what it implements
       |   |                    +------------- DrainNodes    its call of DrainNodes
       |   +---------------- UpgradeOutcome    what an upgrade leaves of the pools;
       |                        |              ClusterResource takes it for its steps
       |                     ClusterUpgrade    one such upgrade, node by node, checked
       |                        |              to leave nothing else
       |                     ScaleSetUpgrade   its scale sets, instance by instance
       +-------------------- ClusterCertificates   Create, Read and import,
                                               secret by secret
    ClusterAttributes        what becomes of the attributes on all these ways
    Authentication           before all that: the credentials,
    ProviderRegistration     and the resource providers it needs
    AgentPoolScale_proofs, ClusterCertificates_proofs, ProviderRegistration_proofs,
    DrainNodes_proofs, ClusterResource_proofs, ClusterUpgrade_proofs
                             theorems about these six
    UpgradeOutcome_proofs    more about ClusterUpgrade and its scale sets, and its outcomes
    ClusterInputs_proofs     theorems about ClusterAttributes and Authentication
    MC*                      instances for TLC

The levels are not composed into one state space. `ClusterUpgrade` and
`ClusterResource` share the module `UpgradeOutcome`: the first is checked and proved to end
every attempt in one of its outcomes (`OutcomesComplete`), the second takes them for its
steps. Scaling has no such module; `ClusterResource` lets a failed scaling leave any
number of agents on the way, and has no agent vanish later. The detailed modules have the caller's retries.

### ClusterResource

State: `config` (what the user has written), `state` (Terraform's instance: the
attributes, `api_model`, taint), `azure` (the resource group: its tags, the versions
found among the masters, the size and the versions of every pool), `running` (a
deployment nobody waits for), and the Update that runs: `pc`, `model` (the
`api_model` it has put together), `partial` (the names given to SetPartial), `pool`.

`PlanCreate`, `PlanDelete`, `PlanUpdate`, `PlanNothing` are what terraform decides from
the refreshed state: only the version, a pool's count and the tags change in place
(the schema), the rest, and a list of pools of another length, force a new resource.
`Create...`, `Delete...` and the steps from `VersionRefused` to `Finish` follow the Go
functions statement by statement, and each error return is a step of its own that
keeps what was done. Three of them deserve a word:

* `ScaleUp`: `scaleUpCluster` leaves only the scaled pool in the cluster and saves
  that; `saveScaledApimodel` then indexes it with the pool's number. `ScaleIndexPanics`:
  the next pool is looked up in that list. A provider that panics gives terraform no
  answer, and it writes an empty instance (`eval_apply.go`, 57-60).
* `PartialState`: `agent_pool_profiles.0.count` is no key of the schema, so SetPartial
  keeps nothing for it, and no error keeps `api_model`.
* `TagsDropped`: `EnsureResourceGroup` (called by `AddAuthenticator` for each upgrade and
  scaling) gets the group to keep its tags, ignores an error of that, and writes the
  group back.

Azure is taken to accept a creation over what a failed one has left, and to delete a
resource group as a whole. The version steps of an upgrade are consecutive numbers.
The sizes and versions an upgrade leaves are those of `UpgradeOutcome`, which
`AgentsUpgraded`, `AgentsInterrupted` and `AgentsDuringMasters` extend by the machines
that earlier failures have left broken (`SizesFrom`). `azure.scaleSets`, chosen
at the start, says which of the two kinds the pools are.

### ClusterCertificates

A secret is its place in the order of writing, a certificate the number of the
Create that has generated it. `gen` counts the generations, `vault` has the generation of
each secret, `next` is the secret to be written. `GenerateCertificates`, `SetSecret`,
`StartDeployment` and `RecordCluster` are a Create that succeeds. The templates refer to
secrets without a version, so `StartDeployment` takes what the vault has at that time; it
is refused while another deployment of the name runs. After `WaitFails` the deployment goes
on, and a next Create may overwrite the vault under it. `RecordTainted` is a Create
whose last Read fails. `Refresh` is any later Read, `Grow` any later deployment for
more nodes. A deployment over nodes that are there with other certificates either fails or
provisions them anew.

`Import` is for a user who has stored the cluster's certificates under the names that
the code reads. `docs/import.md` has other names for the pair of the kube config
(`kubectlcrt` in line 25, `kubectlClientcrt` in line 47; `key_vault.go`, line 102, reads
`kubeconfigcrt`): following it, import fails and nothing is recorded.

### ProviderRegistration

`registration` is Azure's state of each resource provider: not registered, being
registered, registered. A run of terraform first configures the provider: `List`,
`StartRegistering` with a goroutine per resource provider (`worker`), `Wait`. The first
page of the listing is any set of them. `GoroutineEnds` shows the condition that reads
`err` in place of `innerErr`: `err` is never set, the configuration never fails, and no two
goroutines ever write it.

Then Create sends its deployment (`Deploy`). Azure refuses it as long as something is
missing, and names one; the client registers that (`RegisterMissing`), polls until it is
registered (`Polled`) and sends the request again, `RetryAttempts` times in all.
A conflict with another code uses up an attempt as well, and registers nothing
(`OtherConflict`). `missing` and `conflicts` are auxiliary variables that remember what was
missing at first and how often that has happened. A scaling or an
upgrade gets acs-engine's client, whose `EnsureProvidersRegistered` goes through its own
list (`EnsureRegistered`), and whose requests register what they miss in any case:
`skip_provider_registration` reaches neither. An administrator may `Unregister`
resource providers between two runs.

### AgentPoolScale and PoolPromise

A VM is its index. A call of `scaleCluster` goes through `pc`: `list`
(ScaleVMAS reads the first page of VMs: `FirstPage`), then `drain` and `delete`, or
`deploy` and `wait`, then `save`. `listed`, `highest` and `doomed` are the code's
variables of the same meaning, computed once. `vmsToDelete` is any set of the right
size, because the API promises no order. `CountForTemplate` and `Offset` are the
two template parameters, with the range that `agentparams.t` accepts: a refused
deployment is a call that fails. Indices wander upwards as pools shrink at the
bottom and grow at the top, so after enough scalings the code asks for more than the
limit although the pool is small; the call then fails and the pool stays as it is.

`CreateVM` and `DeploymentFails` are Azure's side, and go on after `WaitFails`. A second
deployment of the same name is not accepted while one runs. `VMVanishes` and `VMSurvives`
are Azure's side of a deletion whose call has failed: `DeleteFails` leaves the VM, or has
it gone, or leaves it in `dying`, since `WaitForCompletion` in `DeleteVirtualMachine` can
fail after Azure has accepted the deletion. Nobody waits for such a VM, and `ScaleVMAS`,
which ignores provisioning states, lists and counts it.

A call that sees none of the pool's VMs, because the first page has only others, goes on as
if there were one with index 0. `Aim` is what a call makes of the pool: its goal, and in that
case one less. Two history variables let the properties say what a call cannot know:
`exact`, that the listing was the pool, with nothing running in Azure, and `lost`, the VMs that late
deletions have taken since it.

`PoolPromise` is what remains of what a reader of the docs expects, without VMs: a call removes agents
only down to its goal, and succeeds only with that many, or with one less if it found none.
An agent whose removal was given up may leave at any time, and is then lost to the call that
counts on it. `AgentPoolScale` implements it with `count <- Cardinality(vms)`,
`leaving <- Cardinality(dying)`, `lost <- Cardinality(lost \ vms)` and
`found <- listed # {}`.

### DrainNodes

One goroutine per node (`worker`): get the node, mark it unschedulable, list its pods,
evict each and wait until it is gone, answer. `Touch` is anybody else's update of the
node object: `UpdateNode` then meets a conflict and the loop tries again,
`CordonMaxRetries` times. Afterwards it goes on whether or not it has succeeded, with the
empty Node of the failed update, whose name selects the pods that are not scheduled
(`target`). An evicted pod is replaced by a pending one, which `Schedule` puts on any node
that is not cordoned. Pods are the ones that can be evicted; those of daemon sets and
mirror pods are skipped by the code as well. `Receive` is the loop of `DrainNodes`: it
returns at the first error, and the deferred `close` makes a later send panic (`crashed`).

### ClusterUpgrade

`Start` lists the VMs; `DeleteMaster`, `FindMissingMaster`, `CreateMaster` are
`upgradeMasterNodes`; `VisitPool`, `DeleteFailedNode`, `CreateMissingAgent`, `PoolFilled`,
`DeleteAgent`, `CreateAgent`, `AgentUpgraded` are `upgradeAgentPools`, with its
`agentVMs`, `toBeUpgradedCount` (`todo`) and `upgradedCount` (`count`). `vms` is what
Azure and the API server say of each agent: provisioning states, ready or not.
`Fail` returns to `idle`, where the next apply starts over. `Upgraded` stands for the
applies after the success, which have nothing to do.

The initial pools have gaps and perhaps one agent more than recorded, as
scalings and abandoned deployments leave them. `profile` says whether they are
availability sets or scale sets; acs-engine allows no mixture.

`begun` is an auxiliary variable: the pools as the attempt has found them, which
`OutcomesComplete` compares with what it leaves.

### ScaleSetUpgrade

The part of `ClusterUpgrade` between the masters and the availability sets, with the
variables of its own. `instances` has the version of each instance, `model` the version
with which Azure creates the next ones. `ListScaleSets` is done with the listing of the VMs:
an entry for every page of every scale set's VMs, with the old ones on it (`listed`), and one
`Sku.Capacity` for all entries of a scale set, as they share its pointer (`sku`).
`NextEntry` raises it by one, `SetSku` sets it before each deletion, `DeleteInstance`
drains and deletes. `ScaleSetsDeployed` is the part of `CreateMaster` that concerns scale
sets: `NormalizeResourcesForK8sMasterUpgrade` leaves them in the template of a master,
and the deployment sets version and capacity. The version is what makes the new instances
new: `upgradeAgentScaleSets` itself only counts.

### ClusterAttributes and Authentication

Neither has actions: their variables are inputs that never change (`configuration`,
`importPath`, `provider`, `files`), and their properties relate what different parts of the code
make of one input. They are part of the run `certificates`, about the same `Create`, `Read` and
import: `MCClusterCertificates` has an initial state for every input, and lets a cluster live
in those with the first of all inputs.

`ClusterAttributes`: an attribute is a word, and `Normal` its spelling in lower case and without
blanks. What the code keeps, drops or spells anew on the way `setContainerService`,
`GenerateTemplate`, `ApiModel`, `loadContainerServiceFromApimodel`, `Read` is in these
operators, and `Changes` is the plan that follows, with the `DiffSuppressFunc`s of the
schema. `Accepted` is what the schema lets through, `Valid` what acs-engine demands
when it loads, with the formats of three kinds of words as constants (`PoolNames`,
`DNSPrefixes`, `VaultIDs`). `ParseAzureResourceID`, `deploymentNameAndResourceGroup` and `Importable`
take a path as the sequence of its segments. `DataSourceRead` includes the schema of the data source,
since setting what a schema does not have is an error.

`Authentication`: `CLIProfiles` and `CLITokens` are the contents that the two files of the Azure
CLI may have, `files` those when the provider is configured. `providerConfigure` gives the
client made of them, and `KeyVaultAuth` what the key vault gets when it is first used,
with whatever the files are by then. `getAuthorizationToken` is asked for an endpoint: a
secret and an MSI get a token for it, while a token of the CLI is sent as it was chosen, for a
management resource, until it expires (`Audience`). An ID of a subscription stands for its lower case.

## The runs

| Run | Instance | What it shows |
| --- | --- | --- |
| `pool_scale` | 3 agents, indices to 3, pages of 3 VMs with 3 others, any sequence of calls | types, the four safety properties, the refinement of `PoolPromise`, calls return |
| `drain` | 2 nodes, 2 pods, 2 attempts to cordon, 1 touch per node | no VM is deleted under a pod, every scale-down ends |
| `upgrade` | 3 masters, 1 pool of 2 (or 3) agents of either kind, a scale set's list on 2 pages, 2 failures | the properties of an upgrade and its retries, and that `UpgradeOutcome` is complete |
| `resource_retries` | 1 pool of up to 3, of either kind, 3 versions, 2 failures, a careful user | state and cluster agree after success, nothing forgotten or replaced, retries succeed |
| `resource_any` | 2 pools of up to 2, of either kind, 2 versions, 2 failures, a user who edits at any time | no agent ahead of a master, but for scale sets that grow; masters never go back |
| `certificates` | 1 master (14 secrets), 4 generations, 3 failures | certificates of one generation wherever Terraform records a cluster; the properties of `ClusterAttributes` and `Authentication` on the inputs of `MCClusterCertificates` |
| `registration` | the 4 resource providers of `provider.go`, 3 attempts, 2 failures | requests and clients as above; a creation that is repeated succeeds unless the user has turned registration off |
| `drain_conflicts` | 2 touches | finding 1 |
| `drain_panics` | no touches | finding 2 |
| `upgrade_two_pools` | 2 pools of 1 agent, 1 failure | finding 3 |
| `resource_at_count` | 1 failure | finding 4 |
| `resource_two_pools` | 2 pools, no failure | finding 5 |

**Bounds.** `MaxFaults` bounds the failures of a behaviour in `ClusterUpgrade`,
`ClusterResource`, `ClusterCertificates` and `ProviderRegistration`; two are enough for a failure and a second one while the first is
being repaired. `AgentPoolScale` needs no such bound. Three agents and four indices
give gaps below, between and above the VMs in use, both exhausted limits, a
deployment of two that is abandoned between its VMs and two deletions that are late; pages of three next to three
other VMs show any part of the pool, or nothing of it. Two nodes and two pods
let a pod move from one drained node to another one not yet cordoned. Two agents
give an upgrade with a swap at the same index, an extra node and a last old node that
is not replaced; in a scale set, two pages of its list are enough for a capacity raised
twice, and for pages without an old instance. `SuccessUpgradesAll` speaks of scale sets as long as
there are fewer failures than masters (see below), and so does `OutcomesComplete`. An agent's index goes
up to `AgentCount + MaxFaults`, an instance's up to what the pages and failures can add:
enough for any history, as is proved. `MaxTouches` bounds the updates of a node object: `NoPodKilled`
is checked where they are fewer than `CordonMaxRetries` (finding 1 is the other case). Four
generations (`MaxGen`) are a stored one, two of failed creations and one of a creation
that succeeds. Four resource providers and three attempts are the code's own numbers, and
the smallest with which one request cannot register everything it needs.

The inputs of `ClusterAttributes` are all configurations with one or two pools that differ where
the code makes a difference: spellings of the location, the VM size and the `os_type`, disks of
none, the largest and one more, names of pools, DNS prefixes and vault IDs that acs-engine takes
or refuses, two pools of one name, versions that run Windows agents or not, profiles, tags, and
counts the schema refuses. The paths are all sequences of up to four pairs out of ten,
with and without empty segments: up to four of the same key, in either spelling. Those of
`Authentication` are all provider blocks over two subscriptions and two tenants, each set
or not, and files of at most two entries, which an error in the first and a match in
the second need; a third would not add a case, as both searches stop at the first match.
Each of the three is varied by itself, since nothing the code computes depends on two of them.

**A careful user** (`Careful`) repeats a failed apply unchanged, waits
until Azure is at rest, and upgrades by one minor version. Without that assumption
a state that agrees with the cluster cannot be expected of a
provider that does not look; `resource_any` is for what must hold regardless.
`ScaleSetsAgree` speaks of scale sets only: finding 4 is why.
`NodesAgree` says nothing of tags, which can be lost (see below). `UpdatedInPlace` is checked with one
pool: finding 5. A scale set may keep the machine that an interrupted upgrade added,
hence `>=` in `ScaleSetsAgree`. `NoSkew` has two failures: with one, no scale set gets ahead
of a master.

**Deadlock** is checked except in `DrainNodes`, which models one scale-down and ends,
and in `ClusterCertificates`, which may end with the last generation.

**Fairness.** `AgentPoolScale`: weak fairness of the call's own steps, since every request
is answered or times out; none of Azure's. `DrainNodes`: of each goroutine (a drain
is given up after an hour), of the receiver and of the deletions; none of the
scheduler's. `ClusterUpgrade`: of the attempt's steps, including the start of another
one after an error (the scale sets' calls among them), and of Azure bringing a node up or taking
one away.
`ClusterResource`: of an apply, which is started again after an error, and of the end of
a deployment. Failures are never fair, and bounded.
`ClusterCertificates` states safety only and assumes no fairness, and the modules without a
state need none. `ProviderRegistration`: of
the configuration with its goroutines, which is run again after an error, of the
requests, and of Azure completing a registration it has taken up; none of scalings.

## What is proved

`AgentPoolScale_proofs` proves for every maximal count, index limit and page size (given
`LimitsAssumption`: counts are positive and within the index limit, and
`PageAssumption`: a page holds a VM, and the resource group has others than the pool's, its masters):

| Theorem | Statement |
| --- | --- |
| `TypeCorrect` | `Spec => []TypeOK` |
| `EmptiedOnlyLate` | `Spec => EmptiedLate` |
| `SuccessSufficient` | `Spec => []SuccessIsEnough` |
| `SuccessExact` | `Spec => []SuccessIsExact` |
| `NeverRedeploys` | `Spec => []NoRedeploy` |
| `Implements` | `Spec => PromiseSpec` |

None of the safety properties is inductive: that a VM may be deleted depends on what was
listed several steps before. The inductive invariant `IInv` of that module is the type
invariant with one conjunct per part of a call (`Seen`, `Down`, `Up`, `Done` and so on). It
says that from the listing until the call ends there is a set of VMs the call means to
leave (the listed ones that are not doomed, and for a deployment also the ones it
creates) that has `Aim` members, each of them in the pool or in `lost`, since all other
deletions take doomed VMs; and that after an exact listing the pool holds
nothing but those and the doomed ones not deleted yet, and nothing can be lost. No deletion that a call has had
answered without an error goes on (`DownDelete`), so a success leaves none of its own behind
(`Done`, `LostNotDoomed`). The arithmetic (that the
count for the template names exactly as many new indices as are missing, whatever
the gaps: `NewVMsComplete`) is a lemma of its own, and so are the facts on cardinalities.
`Implements` has one step per action that maps to a step of `PoolPromise`; all others
are stutters.

`ClusterCertificates_proofs` proves for any number of masters, generations and failures
(`CertificatesAssumption`: natural numbers, and at least one master and one generation):

| Theorem | Statement |
| --- | --- |
| `TypeCorrect` | `Spec => []TypeOK` |
| `KnownClusterIsWhole` | `Spec => []OneGeneration` |
| `DeploymentsAreWhole` | `Spec => []DeploysOneGeneration` |
| `CredentialsStay` | `Spec => CredentialsAreStable` |

`OneGeneration` is not inductive: it says nothing while nothing is recorded, which is
when everything happens. The conjunct `Order` of the inductive invariant says why it holds
afterwards: deployments run one after the other and generations only grow, so no node is
newer than the deployment that runs, and neither is newer than the vault. `Writing`,
`Deploying` and `Reading` follow a Create, secret by secret and then to its end, and `Known` is
`OneGeneration` together with the deployment that runs for a recorded cluster. An
import is the one step that records what no Create has just made; it needs `Order`
and `Antisymmetric`.

`ProviderRegistration_proofs` proves for any finite set of resource providers, any list
that acs-engine requires and any number of attempts (`RegistrationAssumption`):

| Theorem | Statement |
| --- | --- |
| `TypeCorrect` | `Spec => []TypeOK` |
| `EnoughAttempts` | `Spec => []AttemptsSuffice` |
| `RequiredAreRegistered` | `Spec => []ClientIsRegistered` |
| `SkippingIsHonoured` | `Spec => SkipIsHonoured` |

The argument is `Monotone`: while terraform runs, nothing is unregistered. Hence the
places `EnsureProvidersRegistered` has passed stay as they are (`Ensured`), and there is a
set of as many members as attempts were made, less those that met another conflict, all
of them missing at first and registered now (`Attempted`). `Skipping` says where the three parts can be if the user has skipped
registration.

`DrainNodes_proofs` proves for any nodes, pods and number of tries to cordon
(`DrainAssumption`; the nodes are finitely many):

| Theorem | Statement |
| --- | --- |
| `TypeCorrect` | `Spec => []TypeOK` |
| `PodsSurvive` | `Spec => []NoPodKilled`, if `MaxTouches < CordonMaxRetries` |
| `CordonedInTime` | `Spec => []MarkedUnschedulable`, under the same condition |

The condition is that a node object changes less often than the loop tries to cordon it.
It is needed: the run `drain_conflicts` refutes `MarkedUnschedulable` without it. Both
theorems rest on `Drained`, that `IInv` is an invariant. Each failed try has had a change
of its own (`ConflictsCounted`), so the last one does not fail; a node that is listed is
cordoned, and what is on it has been listed (`VictimsListed`), so when the list is used up
the node is empty and stays so (`DrainedIsEmpty`). `NoPodKilled` needs that of *every* node
when the first VM is deleted: each goroutine answers once (`AnsweredOnce`), hence as many
answers as nodes means that all have answered, and an error is in the channel until
`DrainNodes` has returned it (`ErrorIsKnown`), hence none has failed (`DeletesDrained`).

`ClusterResource_proofs` proves for any number of pools, counts, versions, tags and
failures, a user who is not careful included (`ResourceAssumption`; `ApartAssumption`:
the values that stand for nothing are no configuration, state, deployment or tags):

| Theorem | Statement |
| --- | --- |
| `TypeCorrect` | `Spec => []TypeOK` |
| `ForwardOnly` | `Spec => MastersOnlyForward` |
| `SkewFree` | `Spec => []NoSkew` |

That the sizes of pools have a bound at all is the hard part of the types: every upgrade may
leave a machine more. `Bounded` counts one for each failure and one for each version the
masters were brought to, which is enough because they only go forward; `MastersNear`
says that they are never further than one version from the recorded one, whatever was
edited in between. `NoSkew` needs `AsRecorded`: until the first failure a scale set has the
machines that are recorded, so that the deployments of the next masters do not make it grow.

For one pool (`NumPools = 1`), the rest of the constants being arbitrary, it also proves:

| Theorem | Statement |
| --- | --- |
| `Remembered` | `Spec => NeverForgotten` |
| `Updated` | `Spec => UpdatedInPlace` |
| `NoOverclaims` | `Spec => []NeverOverclaims`, if `Careful` |
| `Agreement` | `Spec => []NodesAgree`, if `Careful` |
| `SetsAgreement` | `Spec => []ScaleSetsAgree`, if `Careful` |

Both conditions are needed. With two pools TLC violates all five after one failure: a
scaling panics on the list of pools and loses the state, or forces a new resource
(finding 5), and a retry leaves a pool behind (finding 3). Without a careful user a
configuration reverted after a failed upgrade makes the recorded version a lie. The
inductive invariant `CInv` has three parts besides the types. `Aim`: a failed apply leaves
nodes and tags of two values only, the recorded and the configured one, so that the next
apply faces the same two; a careful user does not bring in a third. `Course`: how far each
step of Update has brought the nodes from the one to the other. It holds since the user
waits for Azure: a deployment of an older configuration does not come in between. `Sets`: the
same of the sizes of scale sets.

`ClusterUpgrade_proofs` proves for any number of masters, agents, pools, pages and failures
(`CountsAssumption`, `ScaleSetAssumption`):

| Theorem | Statement |
| --- | --- |
| `TypeCorrect` | `Spec => []TypeOK` |
| `MastersCost` | `Spec => []OneMasterPerFailure` |
| `AgentsCost` | `Spec => []OneAgentPerFailure` |
| `NeverReprovisions` | `Spec => CreatesOnlyMissing` |

An attempt goes by lists that get older while it runs. The invariant `Inv` says how they
are related to the nodes: `MastersInv` for the masters, `ListInv` for the VMs since the listing
at the start (a pool not visited yet changes only by what Azure completes), `VisitInv` for
`agentVMs` and the pool at hand.
`CountInv` says what `upgradedCount` and `toBeUpgradedCount` count. `ChargeInv` is the argument
for `AgentsCost`: every agent on the list that runs no pods, and is not just being created, is
charged to a failure of its own, and the extra agent stands in for the one being replaced. The types need all of this because
`getAvailableIndex` takes the first free number: it stays within `Indices` only because no
more agents than these can be on the list.

`UpgradeOutcome_proofs` proves, under the same assumptions:

| Theorem | Statement |
| --- | --- |
| `SetsKeepCount` | `Spec => []ScaleSetKeepsCount` |
| `SuccessMeansUpgraded` | `Spec => []SuccessUpgradesAll`, if there is one pool |
| `SuccessMeansCounted` | `Spec => []SuccessKeepsCount`, if there is one pool |
| `OutcomesAreComplete` | `Spec => OutcomesComplete` |

One pool is needed for a success to mean anything: with two, finding 3 is the
counterexample, for availability sets. `SizeInv` is the argument for the counts of scale sets.
While the upgrader goes through its list, the capacity grows by one for each page and the pages become
fewer, so that their sum is bounded (`Limit`, `Most`), and the capacity it holds is never below
the real one. Its list is out of date only if a master's deployment has scaled in; then at
most one instance is gone, and it was one too many. `VersionInv` is the argument for their versions: the
old instances are on the list unless a scale set still makes old ones, and then every new master
has come with a failure. For availability sets `UpperInv` bounds the agents of a pool by one
too many, and of these the new ones by the recorded number, so that with the count of
`CountInv` nothing old and nothing extra is left when the pool has been passed (`DoneInv`).

`OutcomesAreComplete` links `ClusterUpgrade` to `ClusterResource`: an attempt takes every pool
from what it was at the start to what `UpgradeOutcome` allows, with no condition on the number of
pools. It compares the two ends of many steps, so its invariant has one conjunct for each thing the
outcome is compared with. `BegunInv`: the list the attempt goes by and what it began
with describe the same machines. `GrowInv`: a pool at hand is filled up to the recorded number,
and the extra agent goes with the last old one. `PassedInv`: the pools left behind are as a
success leaves them, and `upgradeAgentPools` has gone on to another one only while they had
something to upgrade. `RaisedInv`: compared to the start, each page of a scale set's list raises the
capacity by one and each listed instance lowers it, unless it had gone already.

`ClusterInputs_proofs` proves what the run `certificates` checks for a few inputs, for any
configurations, provider blocks, files of the CLI and paths (`AttributesAssumption`,
`AuthenticationAssumption`: the types of the schema and of the files, whatever the formats acs-engine takes; words Azure needs are
not empty; `Normal` is idempotent; the versions that Windows agents do not run on have a
newest patch that they do, except 1.6, which is not configured for them; Windows agents
come with a `windows_profile`):

| Theorem | Statement |
| --- | --- |
| `CredentialsAlwaysFit` | `CredentialsFit`, if `provider \in ProviderBlocks` and `files \in CLIFiles` |
| `CreatedReadsBack` | `CreatedIsReadBack`, if `configuration \in Configurations` |
| `ReadersAlwaysAgree` | `ReadersAgree`, if also `importPath \in Seq(STRING)` |

The first goes by searches: each finds the first entry that fits, in a list of any length, so that
a token that is used is one `findValidAccessTokenForTenant` has accepted for the tenant
(`FoundToken`, `LoadedFromCLI`); `Authorised` says which resource it is for. The paths are the hard part of the last one: the code cuts a
path into pairs and fills a map, the property looks for the last value of a key in
the path. `Parsed` and `ValueFound` show that both give the same for paths of any length, with
`LeastMember` and `GreatestMember`, that a finite set of numbers has ends. What lies between the
configuration and the state is then a chain of records: `Modelled` and `Loaded` say which
attributes arrive as they were, and in which spelling, `NothingChanges` that no plan sees it.

Only model-checked: the liveness properties (`CallReturns`, `ScaleDownEnds`,
`Completes`, `RetriesSucceed`, `CreateSucceeds`), which are out of the proof system's reach. Every
invariant and every safety property of the passing runs is a theorem.

## What the runs have found

1. `drain_conflicts`: when every attempt to cordon a node meets a concurrent update, the
   loop in `cordondrainvm.go` ends without an error, logs that the node has been marked
   unschedulable, drains nothing of it, and the VM is deleted.
2. `drain_panics`: `DrainNodes` closes its channel when the first node fails; a goroutine
   that answers later panics, and the provider with it.
3. `upgrade_two_pools`: `upgradeAgentPools` returns, instead of going on, at a pool that
   needs no upgrade. After a failure between two pools a retry skips the other one and
   reports success.
4. `resource_at_count`: a repeated scaling that finds its count reached saves nothing. The
   recorded count stays wrong, and a later change to that count plans nothing.
5. `resource_two_pools`: after one of two pools was scaled up the `api_model` has only that
   pool, and the next plan replaces the cluster.

What else the models show, as exceptions that properties name or as steps:

* With three masters a single failed upgrade can cost the etcd quorum, because the next
  attempt deletes another old master before it creates the missing one
  (`OneMasterPerFailure` is the best that holds).
* An agent whose new node never becomes ready counts as upgraded in the next attempt
  (`OneAgentPerFailure`).
* Every attempt, the failed ones included, may leave a scale set larger by one instance
  for each page of its list, and only the deployment of a master makes it smaller again
  (`SuccessKeepsCount`).
* A pool whose agents have all been deleted by failed attempts is not listed any more. No
  later attempt visits it, and the upgrade succeeds with the pool empty (the exception in
  `SuccessKeepsCount`).
* When the deployment of every master fails half way, with the master there and the scale
  sets not reached, the next attempt has no master to deploy. The scale sets keep the old version,
  their old instances are replaced by old ones, and the upgrade succeeds. One failure is enough with one master
  (`SuccessUpgradesAll` excludes it by `faults < MasterCount`, and so does `OutcomesComplete`:
  `ClusterResource` takes it that the masters' deployments have reached the scale sets).
* A scale set that is smaller than recorded grows with the first new master, by agents
  that are newer than the masters still old (`NoSkew`, after two failures).
* The resource group loses its tags if reading it fails at the start of an upgrade or a
  scaling, and no later plan notices (`TagsDropped`).
* The error of a registration is lost (`GoroutineEnds`; `provider.go`, 214, tests `err`
  where it means `innerErr`): the configuration succeeds, and the requests
  that come later have to register what they miss. Repairing that condition alone would
  make goroutines write `err` at the same time.
* A cluster with Windows agents and Kubernetes 1.8.13, the provider's default, is created
  with 1.8.12, and the next plan wants to upgrade it (`Rounded`).
* Create does not validate what it sends to Azure, and the schema lets through an `os_type` in
  another case, a disk of other than 0 to 1023 GB, the name of a pool with a capital letter or given
  twice, and any DNS prefix and vault ID. What Azure makes of them is deployed, and then no Read can
  load the `api_model` (`Unreadable` in `CreatedIsReadBack`).
* A deletion can go through after waiting for it has failed. A retry of the scaling takes the VM
  for one to keep and deletes another one: it reports success with less than the count (`lost` in
  `SuccessIsEnough`), and a pool of count 1 can end up empty (`EmptiedLate`).
* With only other VMs on the first page of the list, the template parameters are those of a
  pool whose VM 0 exists, and scaling up succeeds with one agent less than the count (`Aim`).
* After a login with the Azure CLI the key vault is sent the token that was chosen for its
  management resource (`CredentialsFit`), although every creation writes to the vault.
* A request can be given up with fewer resource providers missing than it has attempts, if other
  conflicts have used some up (`conflicts` in `AttemptsSuffice`).
* The data source refuses clusters with Windows agents, as its schema has no
  `admin_password` (`ReadersAgree`). Two more lines of it are outside the property: it
  sets `api_model` from a variable nobody assigns (240), and goes on with a response
  without an ID after an error other than not found (199-204).
* An import takes the resource group and the name from the ID, and not the subscription.
* With `use_msi` and `client_secret` the machine's identity is validated and the secret is
  used; an expiry that does not parse hides all tokens after it; a configured tenant does not
  have to be that of the default subscription (`CredentialsFit`).

## What is not modelled

The contents of templates, kube config files and their parsing (generated text; who may
use it is `ClusterCertificates`); the network interfaces and disks a failed
deletion leaves, and nodes that stay cordoned after a failed scale-down: nothing in the code
goes by them. Of Azure AD only the choice of credentials is modelled. `resource_strings.go`
and `internal/tester` hold fixtures and mocks for tests. Azure is taken to
use the number of an instance of a scale set again when nobody remembers it, which keeps
the numbers few. The lists of VMs in the upgrader are read to their end, so pages matter to
scaling and to the entries of scale sets only.

## Plan

The order is that of importance: what Terraform does to a cluster that runs comes first.

1. Done: `AgentPoolScale` with `PoolPromise` and its proofs, `DrainNodes`,
   `ClusterUpgrade`, `ClusterResource`, `ClusterCertificates` and
   `ProviderRegistration` with their proofs, and the runs above.
2. Done since: `ScaleSetUpgrade`, `UpgradeOutcome` between the upgrade and the resource,
   `ClusterAttributes`, `Authentication`, and `DrainNodes_proofs`.
3. Done since: `ClusterResource_proofs`, `ClusterUpgrade_proofs`, `UpgradeOutcome_proofs` with the
   link between `ClusterUpgrade` and `ClusterResource`, and `ClusterInputs_proofs`.
4. Left: a module of outcomes for scaling, as `UpgradeOutcome` is one for upgrades, with
   the deletions that outlive their call, which only `AgentPoolScale` has, and the limits of `validateAzureRMTags`.

## Running it

    tlc -config pool_scale.cfg MCAgentPoolScale.tla
    tlapm AgentPoolScale_proofs.tla

and likewise for the other runs that `PROJECT.json` lists with their module and
configuration.
