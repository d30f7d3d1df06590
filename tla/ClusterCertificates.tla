------------------------- MODULE ClusterCertificates -------------------------
(***************************************************************************)
(* The certificates and keys of a cluster: generated by Create             *)
(* (generateACSEngineTemplate of cluster_create.go), written one by one to *)
(* the user's key vault (key_vault.go), and from then on known by name     *)
(* only: deployments and the kube config of Read take the latest values.   *)
(*                                                                         *)
(* Every Create generates all of them anew, under the same names, and may  *)
(* fail at any of its steps.                                               *)
(***************************************************************************)
EXTENDS Integers

CONSTANTS
  MasterCount,  \* masters; each has a pair for its etcd peer
  MaxGen,       \* bound on the generations of certificates
  MaxFaults,    \* bound on the failures a behaviour meets
  NoDeployment, \* no deployment runs
  NoConfig      \* no kube config is recorded

ASSUME CertificatesAssumption ==
  /\ MasterCount \in Nat \ {0}
  /\ MaxGen \in Nat \ {0}
  /\ MaxFaults \in Nat

VARIABLES
  vault,       \* generation of each secret in the vault, 0 if it is not there
  gen,         \* generations so far; the running Create has the latest
  next,        \* the secret it is to write next
  deployment,  \* the deployment that runs in Azure, or NoDeployment
  nodes,       \* the sets of certificates found on the nodes
  state,       \* what Terraform records: "none", "tainted" or "recorded"
  kube_config, \* the attribute of that name
  pc,          \* where Create is
  faults       \* failures so far

azure == <<deployment, nodes>>
record == <<state, kube_config>>
vars == <<vault, gen, next, azure, record, pc, faults>>

\* In the order in which they are written: cacrt, cakey, apiservercrt,
\* apiserverkey, clientcrt, clientkey, kubeconfigcrt, kubeconfigkey, the etcd
\* server's and client's pairs, the peers' certificates and the peers' keys.
Secrets == 1 .. 12 + 2 * MasterCount

Generations == 1 .. MaxGen
Certificates == [Secrets -> 0 .. MaxGen]

\* The certificates of one generation.
Whole(g) == [s \in Secrets |-> g]

\* The secrets a kube config is made of: cacrt, kubeconfigcrt, kubeconfigkey.
KubeSecrets == {1, 7, 8}
KubeConfig(certificates) == [s \in KubeSecrets |-> certificates[s]]

Deployments == [kind : {"create", "grow"}, certificates : Certificates]

TypeOK ==
  /\ vault \in Certificates
  /\ gen \in 0 .. MaxGen
  /\ next \in Secrets \cup {13 + 2 * MasterCount}
  /\ deployment \in Deployments \cup {NoDeployment}
  /\ nodes \in SUBSET Certificates
  /\ state \in {"none", "tainted", "recorded"}
  /\ kube_config \in [KubeSecrets -> 0 .. MaxGen] \cup {NoConfig}
  /\ pc \in {"idle", "secrets", "deploy", "read"}
  /\ faults \in 0 .. MaxFaults

\* Nothing, or a cluster made by acs-engine whose certificates the user has
\* stored to import it.
Init ==
  /\ gen \in {0, 1}
  /\ vault = Whole(gen)
  /\ nodes = IF gen = 0 THEN {} ELSE {vault}
  /\ next = 1
  /\ deployment = NoDeployment
  /\ state = "none"
  /\ kube_config = NoConfig
  /\ pc = "idle"
  /\ faults = 0

Fault ==
  /\ faults < MaxFaults
  /\ faults' = faults + 1

-----------------------------------------------------------------------------
(* resourceACSEngineK8sClusterCreate. *)

\* The first formatTemplates of generateACSEngineTemplate.
GenerateCertificates ==
  /\ pc = "idle"
  /\ state = "none"
  /\ gen < MaxGen
  /\ gen' = gen + 1
  /\ next' = 1
  /\ pc' = "secrets"
  /\ UNCHANGED <<vault, azure, record, faults>>

\* Mutant: the loops over the peers run once too often.
SetSecretPastEnd ==
  /\ pc = "secrets"
  /\ next \in Secrets \cup {13 + 2 * MasterCount}
  /\ vault' = [vault EXCEPT ![next] = gen]
  /\ next' = next + 1
  /\ UNCHANGED <<gen, azure, record, pc, faults>>

\* setCertificateProfileSecretsKeyVault.
SetSecret ==
  /\ pc = "secrets"
  /\ next \in Secrets
  /\ vault' = [vault EXCEPT ![next] = gen]
  /\ next' = next + 1
  /\ UNCHANGED <<gen, azure, record, pc, faults>>

\* Mutant: the error of a secret is overwritten by the next one's.
SecretSkipped ==
  /\ pc = "secrets"
  /\ next \in Secrets
  /\ Fault
  /\ next' = next + 1
  /\ UNCHANGED <<vault, gen, azure, record, pc>>

\* The secret may have been written although the answer is an error.
SetSecretFails ==
  /\ pc = "secrets"
  /\ next \in Secrets
  /\ Fault
  /\ vault' \in {vault, [vault EXCEPT ![next] = gen]}
  /\ pc' = "idle"
  /\ UNCHANGED <<gen, next, azure, record>>

\* Mutant: the template is deployed while the secrets are being written.
SecretsStarted == next > 1

\* All of them are in the vault.
SecretsWritten == next \notin Secrets

\* createDeployment: ARM looks the references up in the vault and accepts the
\* deployment, unless one of that name runs.
StartDeployment ==
  /\ pc = "secrets"
  /\ SecretsWritten
  /\ deployment = NoDeployment
  /\ deployment' = [kind |-> "create", certificates |-> vault]
  /\ pc' = "deploy"
  /\ UNCHANGED <<vault, gen, next, nodes, record, faults>>

DeploymentRefused ==
  /\ pc = "secrets"
  /\ SecretsWritten
  /\ deployment # NoDeployment
  /\ pc' = "idle"
  /\ UNCHANGED <<vault, gen, next, azure, record, faults>>

\* WaitForCompletion gives up, or terraform dies.
WaitFails ==
  /\ pc = "deploy"
  /\ Fault
  /\ pc' = "idle"
  /\ UNCHANGED <<vault, gen, next, azure, record>>

\* An error before the deployment and after the secrets, or of getDeploymentID:
\* nothing is recorded.
CreateFails ==
  /\ \/ pc = "secrets" /\ SecretsWritten
     \/ pc = "read"
  /\ Fault
  /\ pc' = "idle"
  /\ UNCHANGED <<vault, gen, next, azure, record>>

\* Mutant: the kube config is made of what Create has generated.
KubeConfigGenerated == KubeConfig(Whole(gen))

\* setKubeConfig: the values getCertificateProfileSecretsKeyVault reads.
KubeConfigRead == KubeConfig(vault)

\* SetId, and Read.
RecordCluster ==
  /\ pc = "read"
  /\ state' = "recorded"
  /\ kube_config' = KubeConfigRead
  /\ pc' = "idle"
  /\ UNCHANGED <<vault, gen, next, azure, faults>>

\* SetId, and Read fails: the resource is tainted.
RecordTainted ==
  /\ pc = "read"
  /\ Fault
  /\ state' = "tainted"
  /\ pc' = "idle"
  /\ UNCHANGED <<vault, gen, next, azure, kube_config>>

-----------------------------------------------------------------------------
(* The other operations, as far as they touch certificates. *)

\* The refresh at the start of every apply.
Refresh ==
  /\ pc = "idle"
  /\ state # "none"
  /\ kube_config' = KubeConfigRead
  /\ UNCHANGED <<vault, gen, next, azure, state, pc, faults>>

\* resourceACSEngineK8sClusterImport, and the Read that follows.  The user has
\* stored the certificates the cluster has.
Import ==
  /\ pc = "idle"
  /\ state = "none"
  /\ nodes = {vault}
  /\ state' = "recorded"
  /\ kube_config' = KubeConfigRead
  /\ UNCHANGED <<vault, gen, next, azure, pc, faults>>

\* Mutant: a scaling generates certificates, as Create does.
GrowAnew ==
  /\ pc = "idle"
  /\ state = "recorded"
  /\ nodes # {}
  /\ deployment = NoDeployment
  /\ gen < MaxGen
  /\ gen' = gen + 1
  /\ vault' = Whole(gen')
  /\ deployment' = [kind |-> "grow", certificates |-> vault']
  /\ UNCHANGED <<next, nodes, record, pc, faults>>

\* A scaling or an upgrade deploys more nodes from the template, whose
\* references are looked up again.
Grow ==
  /\ pc = "idle"
  /\ state = "recorded"
  /\ nodes # {}
  /\ deployment = NoDeployment
  /\ deployment' = [kind |-> "grow", certificates |-> vault]
  /\ UNCHANGED <<vault, gen, next, nodes, record, pc, faults>>

\* resourceACSEngineK8sClusterDelete.  The secrets stay in the vault.
Delete ==
  /\ pc = "idle"
  /\ state # "none"
  /\ deployment' = NoDeployment
  /\ nodes' = {}
  /\ state' = "none"
  /\ kube_config' = NoConfig
  /\ UNCHANGED <<vault, gen, next, pc, faults>>

\* It returns an error, whether the resource group goes or not.
DeleteFails ==
  /\ pc = "idle"
  /\ state # "none"
  /\ Fault
  /\ \/ UNCHANGED azure
     \/ deployment' = NoDeployment /\ nodes' = {}
  /\ UNCHANGED <<vault, gen, next, record, pc>>

\* The provider panics while it updates the cluster (module ClusterResource,
\* ScaleIndexPanics).
Forget ==
  /\ pc = "idle"
  /\ state = "recorded"
  /\ Fault
  /\ state' = "none"
  /\ kube_config' = NoConfig
  /\ UNCHANGED <<vault, gen, next, azure, pc>>

-----------------------------------------------------------------------------
(* Azure's side of a deployment. *)

\* The nodes of a cluster that is there already are provisioned anew by a
\* template that has other certificates for them, if ARM does not refuse that.
DeploymentSucceeds ==
  /\ deployment # NoDeployment
  /\ deployment' = NoDeployment
  /\ nodes' = {deployment.certificates} \cup
              (IF deployment.kind = "grow" THEN nodes ELSE {})
  /\ pc' = IF pc = "deploy" THEN "read" ELSE pc
  /\ UNCHANGED <<vault, gen, next, record, faults>>

\* It fails, with some of the nodes provisioned.
DeploymentFails ==
  /\ deployment # NoDeployment
  /\ Fault
  /\ deployment' = NoDeployment
  /\ nodes' \in {nodes, nodes \cup {deployment.certificates}}
  /\ pc' = IF pc = "deploy" THEN "idle" ELSE pc
  /\ UNCHANGED <<vault, gen, next, record>>

-----------------------------------------------------------------------------
Create ==
  \/ GenerateCertificates
  \/ SetSecret
  \/ SetSecretFails
  \/ StartDeployment
  \/ DeploymentRefused
  \/ WaitFails
  \/ CreateFails
  \/ RecordCluster
  \/ RecordTainted

Next ==
  \/ Create
  \/ Refresh
  \/ Import
  \/ Grow
  \/ Delete
  \/ DeleteFails
  \/ Forget
  \/ DeploymentSucceeds
  \/ DeploymentFails

Spec == Init /\ [][Next]_vars

-----------------------------------------------------------------------------
(* Properties. *)

\* A cluster Terraform knows has certificates of one generation, on all of its
\* nodes and in the kube config, and so will the nodes it is yet to get: an
\* earlier Create that failed between two secrets, or whose deployment went on
\* without it, has left nothing behind that could mix with them.
OneGeneration ==
  state # "none" =>
    \E g \in Generations :
      /\ vault = Whole(g)
      /\ nodes \subseteq {Whole(g)}
      /\ kube_config \in {NoConfig, KubeConfig(Whole(g))}

\* Whatever runs in Azure was accepted with certificates that belong together,
\* although the vault can hold parts of several generations.
DeploysOneGeneration ==
  deployment # NoDeployment =>
    \E g \in Generations : deployment.certificates = Whole(g)

\* As long as Terraform knows the cluster its credentials stay the same, for
\* whoever uses the attribute.
CredentialsAreStable ==
  [][kube_config # NoConfig => kube_config' \in {kube_config, NoConfig}]_vars

=============================================================================
