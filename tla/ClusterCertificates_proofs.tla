---------------------- MODULE ClusterCertificates_proofs ----------------------
(***************************************************************************)
(* Proofs about ClusterCertificates, for any number of masters,            *)
(* generations and failures.                                               *)
(*                                                                         *)
(* The argument: generations only grow, in the vault as in the deployments *)
(* that are started one after the other, so that nodes are never newer     *)
(* than the deployment that runs, and neither is newer than the vault.     *)
(* What has reached the top of this order is the vault itself.             *)
(***************************************************************************)
EXTENDS ClusterCertificates, TLAPS

IsWhole(certificates) == \E g \in 1 .. gen : certificates = Whole(g)

NotNewer(c, d) == \A s \in Secrets : c[s] <= d[s]

VaultBounded == \A s \in Secrets : vault[s] <= gen

NodesOrdered == \A n \in nodes : IsWhole(n) /\ NotNewer(n, vault)

DeploymentOrdered ==
  deployment # NoDeployment =>
    /\ IsWhole(deployment.certificates)
    /\ NotNewer(deployment.certificates, vault)
    /\ \A n \in nodes : NotNewer(n, deployment.certificates)

\* Create has written the secrets before the next one.
Writing ==
  pc = "secrets" =>
    /\ gen >= 1
    /\ \A s \in Secrets : s < next => vault[s] = gen

Deploying ==
  pc = "deploy" =>
    /\ gen >= 1
    /\ vault = Whole(gen)
    /\ deployment = [kind |-> "create", certificates |-> vault]

Reading ==
  pc = "read" =>
    /\ gen >= 1
    /\ vault = Whole(gen)
    /\ deployment = NoDeployment
    /\ nodes = {vault}

\* Terraform knows the cluster: everything is what the vault holds.
Known ==
  state # "none" =>
    /\ pc = "idle"
    /\ IsWhole(vault)
    /\ nodes \subseteq {vault}
    /\ kube_config \in {NoConfig, KubeConfig(vault)}
    /\ deployment # NoDeployment => deployment.certificates = vault

Unknown == state = "none" => kube_config = NoConfig

Order == VaultBounded /\ NodesOrdered /\ DeploymentOrdered

IInv ==
  /\ TypeOK
  /\ Order
  /\ Writing /\ Deploying /\ Reading
  /\ Known /\ Unknown

-----------------------------------------------------------------------------
(* Lemmas. *)

\* The last secret written makes the vault one generation.
LEMMA WrittenIsWhole ==
  ASSUME TypeOK, Writing, pc = "secrets", SecretsWritten
  PROVE  gen \in 1 .. gen /\ vault = Whole(gen)
<1>1. \A s \in Secrets : s < next
  BY CertificatesAssumption DEF TypeOK, Secrets, SecretsWritten
<1>2. \A s \in Secrets : vault[s] = gen
  BY <1>1 DEF Writing
<1> QED
  BY <1>2 DEF TypeOK, Certificates, Whole, Writing

\* Two sets of certificates neither of which is newer than the other.
LEMMA Antisymmetric ==
  ASSUME NEW c \in Certificates, NEW d \in Certificates, NotNewer(c, d), NotNewer(d, c)
  PROVE  c = d
<1>1. \A s \in Secrets : c[s] \in Int /\ d[s] \in Int
  BY DEF Certificates
<1>2. \A s \in Secrets : c[s] = d[s]
  BY <1>1 DEF NotNewer
<1> QED
  BY <1>2 DEF Certificates

LEMMA Reflexive ==
  ASSUME NEW c \in Certificates
  PROVE  NotNewer(c, c)
BY DEF NotNewer, Certificates

\* Steps of the client alone, and of Terraform, leave the order as it is.
LEMMA OrderStable ==
  ASSUME Order, UNCHANGED <<vault, gen, deployment, nodes>>
  PROVE  Order'
BY DEF Order, VaultBounded, NodesOrdered, DeploymentOrdered, IsWhole, NotNewer, Secrets, Whole

LEMMA InitIInv == Init => IInv
<1> SUFFICES ASSUME Init PROVE IInv
  OBVIOUS
<1>1. TypeOK
  BY CertificatesAssumption DEF Init, TypeOK, Certificates, Whole, Secrets
<1>2. VaultBounded
  BY DEF Init, VaultBounded, Whole
<1>3. NodesOrdered
  BY <1>1 DEF Init, NodesOrdered, IsWhole, NotNewer, Whole
<1>4. DeploymentOrdered
  BY DEF Init, DeploymentOrdered
<1>5. Writing /\ Deploying /\ Reading /\ Known /\ Unknown
  BY DEF Init, Writing, Deploying, Reading, Known, Unknown
<1> QED
  BY <1>1, <1>2, <1>3, <1>4, <1>5 DEF IInv, Order

LEMMA GenerateCertificatesIInv == IInv /\ GenerateCertificates => IInv'
<1> SUFFICES ASSUME IInv, GenerateCertificates PROVE IInv'
  OBVIOUS
<1> USE DEF IInv, GenerateCertificates
<1>1. TypeOK'
  BY CertificatesAssumption DEF TypeOK, Secrets, azure, record
<1>2. gen \in Nat /\ gen' \in Nat /\ 1 .. gen \subseteq 1 .. gen' /\ 1 \in 1 .. gen'
  BY DEF TypeOK
<1>3. VaultBounded'
  BY <1>2 DEF TypeOK, Order, VaultBounded, Certificates
<1>4. NodesOrdered'
  BY <1>2 DEF Order, NodesOrdered, IsWhole, NotNewer, Whole, Secrets, azure
<1>5. DeploymentOrdered'
  BY <1>2 DEF Order, DeploymentOrdered, IsWhole, NotNewer, Whole, Secrets, azure
<1>6. Writing'
  BY <1>2 DEF Writing, Secrets
<1>7. Deploying' /\ Reading' /\ Known' /\ Unknown'
  BY DEF Deploying, Reading, Known, Unknown, record
<1> QED
  BY <1>1, <1>3, <1>4, <1>5, <1>6, <1>7 DEF Order

LEMMA SetSecretIInv == IInv /\ SetSecret => IInv'
<1> SUFFICES ASSUME IInv, SetSecret PROVE IInv'
  OBVIOUS
<1> USE DEF IInv, SetSecret
<1>1. TypeOK'
  BY CertificatesAssumption DEF TypeOK, Secrets, Certificates, azure, record
<1>2. \A s \in Secrets : vault'[s] = IF s = next THEN gen ELSE vault[s]
  BY DEF TypeOK, Certificates
<1>3. \A s \in Secrets : vault[s] <= vault'[s] /\ vault'[s] <= gen
  BY <1>2 DEF TypeOK, Order, VaultBounded, Certificates
<1>4. VaultBounded'
  BY <1>3 DEF VaultBounded, Secrets
<1>5. \A c \in Certificates : NotNewer(c, vault) => NotNewer(c, vault')
  BY <1>1, <1>3 DEF TypeOK, NotNewer, Certificates
<1>6. NodesOrdered'
  BY <1>5 DEF TypeOK, Order, NodesOrdered, IsWhole, NotNewer, Whole, Secrets, azure
<1>7. DeploymentOrdered'
  BY <1>5 DEF TypeOK, Order, DeploymentOrdered, Deployments, IsWhole, NotNewer, Whole, Secrets, azure
<1>8. Writing'
  BY <1>2 DEF TypeOK, Writing, Secrets
<1>9. Deploying' /\ Reading' /\ Known' /\ Unknown'
  BY DEF Deploying, Reading, Known, Unknown, record
<1> QED
  BY <1>1, <1>4, <1>6, <1>7, <1>8, <1>9 DEF Order

LEMMA SetSecretFailsIInv == IInv /\ SetSecretFails => IInv'
<1> SUFFICES ASSUME IInv, SetSecretFails PROVE IInv'
  OBVIOUS
<1> USE DEF IInv, SetSecretFails
<1>1. TypeOK'
  BY CertificatesAssumption DEF TypeOK, Fault, Secrets, Certificates, azure, record
<1>2. \A s \in Secrets : vault[s] <= vault'[s] /\ vault'[s] <= gen
  BY DEF TypeOK, Order, VaultBounded, Certificates
<1>3. VaultBounded'
  BY <1>2 DEF VaultBounded, Secrets
<1>4. \A c \in Certificates : NotNewer(c, vault) => NotNewer(c, vault')
  BY <1>1, <1>2 DEF TypeOK, NotNewer, Certificates
<1>5. NodesOrdered'
  BY <1>4 DEF TypeOK, Order, NodesOrdered, IsWhole, NotNewer, Whole, Secrets, azure
<1>6. DeploymentOrdered'
  BY <1>4 DEF TypeOK, Order, DeploymentOrdered, Deployments, IsWhole, NotNewer, Whole, Secrets, azure
<1>7. Writing' /\ Deploying' /\ Reading' /\ Known' /\ Unknown'
  BY DEF Writing, Deploying, Reading, Known, Unknown, record
<1> QED
  BY <1>1, <1>3, <1>5, <1>6, <1>7 DEF Order

LEMMA StartDeploymentIInv == IInv /\ StartDeployment => IInv'
<1> SUFFICES ASSUME IInv, StartDeployment PROVE IInv'
  OBVIOUS
<1> USE DEF IInv, StartDeployment
<1>1. TypeOK'
  BY DEF TypeOK, Deployments, record
<1>2. gen \in 1 .. gen /\ vault = Whole(gen)
  BY WrittenIsWhole
<1>3. DeploymentOrdered'
  <2>1. NotNewer(vault, vault)
    BY Reflexive DEF TypeOK
  <2> QED
    BY <1>2, <2>1 DEF Order, NodesOrdered, DeploymentOrdered, IsWhole, NotNewer, Whole, Secrets
<1>4. VaultBounded' /\ NodesOrdered'
  BY DEF Order, VaultBounded, NodesOrdered, IsWhole, NotNewer, Whole, Secrets
<1>5. Deploying'
  BY <1>2 DEF TypeOK, Deploying, Whole, Secrets
<1>6. Writing' /\ Reading' /\ Known' /\ Unknown'
  BY DEF Writing, Reading, Known, Unknown, record
<1> QED
  BY <1>1, <1>3, <1>4, <1>5, <1>6 DEF Order

LEMMA DeploymentRefusedIInv == IInv /\ DeploymentRefused => IInv'
<1> SUFFICES ASSUME IInv, DeploymentRefused PROVE IInv'
  OBVIOUS
<1> USE DEF IInv, DeploymentRefused
<1>1. TypeOK'
  BY CertificatesAssumption DEF TypeOK, azure, record
<1>2. Order'
  BY OrderStable DEF azure
<1>3. Writing' /\ Deploying' /\ Reading' /\ Known' /\ Unknown'
  BY DEF Writing, Deploying, Reading, Known, Unknown, azure, record
<1> QED
  BY <1>1, <1>2, <1>3

LEMMA WaitFailsIInv == IInv /\ WaitFails => IInv'
<1> SUFFICES ASSUME IInv, WaitFails PROVE IInv'
  OBVIOUS
<1> USE DEF IInv, WaitFails
<1>1. TypeOK'
  BY CertificatesAssumption DEF TypeOK, Fault, azure, record
<1>2. Order'
  BY OrderStable DEF azure
<1>3. Writing' /\ Deploying' /\ Reading' /\ Known' /\ Unknown'
  BY DEF Writing, Deploying, Reading, Known, Unknown, azure, record
<1> QED
  BY <1>1, <1>2, <1>3

LEMMA CreateFailsIInv == IInv /\ CreateFails => IInv'
<1> SUFFICES ASSUME IInv, CreateFails PROVE IInv'
  OBVIOUS
<1> USE DEF IInv, CreateFails
<1>1. TypeOK'
  BY CertificatesAssumption DEF TypeOK, Fault, azure, record
<1>2. Order'
  BY OrderStable DEF azure
<1>3. Writing' /\ Deploying' /\ Reading' /\ Known' /\ Unknown'
  BY DEF Writing, Deploying, Reading, Known, Unknown, azure, record
<1> QED
  BY <1>1, <1>2, <1>3

LEMMA RecordClusterIInv == IInv /\ RecordCluster => IInv'
<1> SUFFICES ASSUME IInv, RecordCluster PROVE IInv'
  OBVIOUS
<1> USE DEF IInv, RecordCluster
<1>1. TypeOK'
  BY CertificatesAssumption DEF TypeOK, KubeConfigRead, Certificates, KubeConfig, KubeSecrets, Secrets, azure
<1>2. Order'
  BY OrderStable DEF azure
<1>3. Writing' /\ Deploying' /\ Reading' /\ Unknown'
  BY DEF Writing, Deploying, Reading, Unknown, azure
<1>4. Known'
  BY DEF TypeOK, Reading, Unknown, Known, IsWhole, KubeConfigRead, Whole, KubeConfig, KubeSecrets, Secrets, azure
<1> QED
  BY <1>1, <1>2, <1>3, <1>4

LEMMA RecordTaintedIInv == IInv /\ RecordTainted => IInv'
<1> SUFFICES ASSUME IInv, RecordTainted PROVE IInv'
  OBVIOUS
<1> USE DEF IInv, RecordTainted
<1>1. TypeOK'
  BY CertificatesAssumption DEF TypeOK, Fault, Certificates, KubeConfig, KubeSecrets, Secrets, azure
<1>2. Order'
  BY OrderStable DEF azure
<1>3. Writing' /\ Deploying' /\ Reading' /\ Unknown'
  BY DEF Writing, Deploying, Reading, Unknown, azure
<1>4. Known'
  BY DEF TypeOK, Reading, Unknown, Known, IsWhole, Whole, KubeConfig, KubeSecrets, Secrets, azure
<1> QED
  BY <1>1, <1>2, <1>3, <1>4

LEMMA RefreshIInv == IInv /\ Refresh => IInv'
<1> SUFFICES ASSUME IInv, Refresh PROVE IInv'
  OBVIOUS
<1> USE DEF IInv, Refresh
<1>1. TypeOK'
  BY CertificatesAssumption DEF TypeOK, KubeConfigRead, Certificates, KubeConfig, KubeSecrets, Secrets, azure
<1>2. Order'
  BY OrderStable DEF azure
<1>3. Writing' /\ Deploying' /\ Reading' /\ Unknown'
  BY DEF Writing, Deploying, Reading, Unknown, azure
<1>4. Known'
  BY DEF Known, IsWhole, Whole, KubeConfigRead, KubeConfig, KubeSecrets, Secrets, azure
<1> QED
  BY <1>1, <1>2, <1>3, <1>4

LEMMA ImportIInv == IInv /\ Import => IInv'
<1> SUFFICES ASSUME IInv, Import PROVE IInv'
  OBVIOUS
<1> USE DEF IInv, Import
<1>1. TypeOK'
  BY CertificatesAssumption DEF TypeOK, KubeConfigRead, Certificates, KubeConfig, KubeSecrets, Secrets, azure
<1>2. Order'
  BY OrderStable DEF azure
<1>3. IsWhole(vault)
  BY DEF Order, NodesOrdered
<1>4. deployment # NoDeployment => deployment.certificates = vault
  BY Antisymmetric DEF Order, DeploymentOrdered, TypeOK, Deployments
<1>5. Known'
  BY <1>3, <1>4 DEF Known, IsWhole, Whole, KubeConfigRead, KubeConfig, KubeSecrets, Secrets, azure
<1>6. Writing' /\ Deploying' /\ Reading' /\ Unknown'
  BY DEF Writing, Deploying, Reading, Unknown, azure
<1> QED
  BY <1>1, <1>2, <1>5, <1>6

LEMMA GrowIInv == IInv /\ Grow => IInv'
<1> SUFFICES ASSUME IInv, Grow PROVE IInv'
  OBVIOUS
<1> USE DEF IInv, Grow
<1>1. TypeOK'
  BY DEF TypeOK, Deployments, record
<1>2. IsWhole(vault) /\ NotNewer(vault, vault)
  BY Reflexive DEF TypeOK, Known
<1>3. Order'
  BY <1>2 DEF Order, VaultBounded, NodesOrdered, DeploymentOrdered, IsWhole, NotNewer, Whole, Secrets
<1>4. Writing' /\ Deploying' /\ Reading' /\ Unknown'
  BY DEF Writing, Deploying, Reading, Unknown, record
<1>5. Known'
  BY DEF Known, IsWhole, Whole, KubeConfig, KubeSecrets, Secrets, record
<1> QED
  BY <1>1, <1>3, <1>4, <1>5

LEMMA DeleteIInv == IInv /\ Delete => IInv'
<1> SUFFICES ASSUME IInv, Delete PROVE IInv'
  OBVIOUS
<1> USE DEF IInv, Delete
<1>1. TypeOK'
  BY DEF TypeOK
<1>2. Order'
  BY DEF Order, VaultBounded, NodesOrdered, DeploymentOrdered, Secrets
<1>3. Writing' /\ Deploying' /\ Reading' /\ Known' /\ Unknown'
  BY DEF Writing, Deploying, Reading, Known, Unknown
<1> QED
  BY <1>1, <1>2, <1>3

LEMMA DeleteFailsIInv == IInv /\ DeleteFails => IInv'
<1> SUFFICES ASSUME IInv, DeleteFails PROVE IInv'
  OBVIOUS
<1> USE DEF IInv, DeleteFails
<1>1. TypeOK'
  BY CertificatesAssumption DEF TypeOK, Fault, azure, record
<1>2. CASE UNCHANGED azure
  <2>1. Order'
    BY <1>2, OrderStable DEF azure
  <2>2. Writing' /\ Deploying' /\ Reading' /\ Unknown'
    BY <1>2 DEF Writing, Deploying, Reading, Unknown, azure, record
  <2>3. Known'
    BY <1>2 DEF Known, IsWhole, Whole, KubeConfig, KubeSecrets, Secrets, azure, record
  <2> QED
    BY <1>1, <2>1, <2>2, <2>3
<1>3. CASE deployment' = NoDeployment /\ nodes' = {}
  <2>1. Order'
    BY <1>3 DEF Order, VaultBounded, NodesOrdered, DeploymentOrdered, Secrets
  <2>2. Writing' /\ Deploying' /\ Reading' /\ Unknown'
    BY <1>3 DEF Writing, Deploying, Reading, Unknown, record
  <2>3. Known'
    BY <1>3 DEF Known, IsWhole, Whole, KubeConfig, KubeSecrets, Secrets, record
  <2> QED
    BY <1>1, <2>1, <2>2, <2>3
<1> QED
  BY <1>2, <1>3

LEMMA ForgetIInv == IInv /\ Forget => IInv'
<1> SUFFICES ASSUME IInv, Forget PROVE IInv'
  OBVIOUS
<1> USE DEF IInv, Forget
<1>1. TypeOK'
  BY CertificatesAssumption DEF TypeOK, Fault, azure, record
<1>2. Order'
  BY OrderStable DEF azure
<1>3. Writing' /\ Deploying' /\ Reading' /\ Known' /\ Unknown'
  BY DEF Writing, Deploying, Reading, Known, Unknown, azure, record
<1> QED
  BY <1>1, <1>2, <1>3

LEMMA DeploymentSucceedsIInv == IInv /\ DeploymentSucceeds => IInv'
<1> SUFFICES ASSUME IInv, DeploymentSucceeds PROVE IInv'
  OBVIOUS
<1> USE DEF IInv, DeploymentSucceeds
<1>1. TypeOK'
  BY CertificatesAssumption DEF TypeOK, Deployments, record
<1> DEFINE D == deployment.certificates
<1>2. D \in Certificates /\ IsWhole(D) /\ NotNewer(D, vault)
  BY DEF TypeOK, Deployments, Order, DeploymentOrdered
<1>3. nodes' \subseteq nodes \cup {D}
  OBVIOUS
<1>4. Order'
  <2>1. VaultBounded' /\ DeploymentOrdered'
    BY DEF Order, VaultBounded, DeploymentOrdered, Secrets
  <2>2. NodesOrdered'
    BY <1>2, <1>3 DEF Order, NodesOrdered, IsWhole, NotNewer, Whole, Secrets
  <2> QED
    BY <2>1, <2>2 DEF Order
<1>5. Writing' /\ Deploying' /\ Unknown'
  BY DEF Writing, Deploying, Unknown, record
<1>6. Reading'
  BY DEF Deploying, Reading, Whole, Secrets
<1>7. Known'
  BY <1>3 DEF Known, IsWhole, Whole, KubeConfig, KubeSecrets, Secrets, record
<1> QED
  BY <1>1, <1>4, <1>5, <1>6, <1>7

LEMMA DeploymentFailsIInv == IInv /\ DeploymentFails => IInv'
<1> SUFFICES ASSUME IInv, DeploymentFails PROVE IInv'
  OBVIOUS
<1> USE DEF IInv, DeploymentFails
<1>1. TypeOK'
  BY CertificatesAssumption DEF TypeOK, Deployments, Fault, record
<1> DEFINE D == deployment.certificates
<1>2. D \in Certificates /\ IsWhole(D) /\ NotNewer(D, vault)
  BY DEF TypeOK, Deployments, Order, DeploymentOrdered
<1>3. nodes' \subseteq nodes \cup {D}
  OBVIOUS
<1>4. Order'
  <2>1. VaultBounded' /\ DeploymentOrdered'
    BY DEF Order, VaultBounded, DeploymentOrdered, Secrets
  <2>2. NodesOrdered'
    BY <1>2, <1>3 DEF Order, NodesOrdered, IsWhole, NotNewer, Whole, Secrets
  <2> QED
    BY <2>1, <2>2 DEF Order
<1>5. Writing' /\ Deploying' /\ Unknown'
  BY DEF Writing, Deploying, Unknown, record
<1>6. Reading'
  BY DEF Deploying, Reading, Whole, Secrets
<1>7. Known'
  BY <1>3 DEF Known, IsWhole, Whole, KubeConfig, KubeSecrets, Secrets, record
<1> QED
  BY <1>1, <1>4, <1>5, <1>6, <1>7

LEMMA NextIInv == IInv /\ [Next]_vars => IInv'
<1> SUFFICES ASSUME IInv, [Next]_vars PROVE IInv'
  OBVIOUS
<1>1. CASE Create
  BY <1>1, GenerateCertificatesIInv, SetSecretIInv, SetSecretFailsIInv, StartDeploymentIInv,
     DeploymentRefusedIInv, WaitFailsIInv, CreateFailsIInv, RecordClusterIInv,
     RecordTaintedIInv DEF Create
<1>2. CASE UNCHANGED vars
  <2>1. TypeOK' /\ Order'
    BY <1>2, OrderStable DEF IInv, TypeOK, vars, azure, record
  <2>2. Writing' /\ Deploying' /\ Reading' /\ Unknown'
    BY <1>2 DEF IInv, Writing, Deploying, Reading, Unknown, vars, azure, record
  <2>3. Known'
    BY <1>2 DEF IInv, Known, IsWhole, Whole, KubeConfig, KubeSecrets, Secrets, vars, azure, record
  <2> QED
    BY <2>1, <2>2, <2>3 DEF IInv
<1> QED
  BY <1>1, <1>2, RefreshIInv, ImportIInv, GrowIInv, DeleteIInv, DeleteFailsIInv, ForgetIInv,
     DeploymentSucceedsIInv, DeploymentFailsIInv DEF Next

LEMMA Invariant == Spec => []IInv
<1> QED
  BY InitIInv, NextIInv, PTL DEF Spec

-----------------------------------------------------------------------------
(* Theorems. *)

\* Every variable keeps its type; in particular the secrets written are those of
\* the list, for every number of etcd peers.
THEOREM TypeCorrect == Spec => []TypeOK
<1>1. IInv => TypeOK
  BY DEF IInv
<1> QED
  BY <1>1, Invariant, PTL

\* A cluster in the Terraform state uses, records and will be given certificates
\* of one generation.
THEOREM KnownClusterIsWhole == Spec => []OneGeneration
<1>1. IInv => OneGeneration
  <2> SUFFICES ASSUME IInv, state # "none" PROVE OneGeneration
    BY DEF OneGeneration
  <2>1. PICK g \in 1 .. gen : vault = Whole(g)
    BY DEF IInv, Known, IsWhole
  <2>2. g \in Generations
    BY CertificatesAssumption DEF IInv, TypeOK, Generations
  <2> QED
    BY <2>1, <2>2 DEF IInv, Known, OneGeneration
<1> QED
  BY <1>1, Invariant, PTL

\* What ARM accepts belongs together, whatever failed before.
THEOREM DeploymentsAreWhole == Spec => []DeploysOneGeneration
<1>1. IInv => DeploysOneGeneration
  BY CertificatesAssumption
     DEF IInv, TypeOK, Order, DeploymentOrdered, DeploysOneGeneration, IsWhole, Generations
<1> QED
  BY <1>1, Invariant, PTL

\* No step changes the recorded credentials of a cluster.
THEOREM CredentialsStay == Spec => CredentialsAreStable
<1>1. IInv /\ [Next]_vars =>
        [kube_config # NoConfig => kube_config' \in {kube_config, NoConfig}]_vars
  <2> SUFFICES ASSUME IInv, Next, kube_config # NoConfig
               PROVE  kube_config' \in {kube_config, NoConfig}
    OBVIOUS
  <2>1. state # "none" /\ pc = "idle" /\ kube_config = KubeConfig(vault)
    BY DEF IInv, Known, Unknown
  <2>2. CASE Refresh
    BY <2>1, <2>2 DEF Refresh, KubeConfigRead
  <2>3. CASE Delete \/ Forget
    BY <2>3 DEF Delete, Forget
  <2>4. CASE Grow \/ DeleteFails \/ DeploymentSucceeds \/ DeploymentFails
    BY <2>4 DEF Grow, DeleteFails, DeploymentSucceeds, DeploymentFails, record
  <2>5. ~Create /\ ~Import
    BY <2>1 DEF Create, GenerateCertificates, SetSecret, SetSecretFails, StartDeployment,
                DeploymentRefused, WaitFails, CreateFails, RecordCluster, RecordTainted, Import
  <2> QED
    BY <2>2, <2>3, <2>4, <2>5 DEF Next
<1> QED
  BY <1>1, Invariant, PTL DEF Spec, CredentialsAreStable

=============================================================================
