-------------------------- MODULE ClusterAttributes --------------------------
(***************************************************************************)
(* What becomes of the attributes of a cluster on their way from the       *)
(* configuration through the api_model into the Terraform state            *)
(* (containerservice.go, tags.go, location.go, validators.go), through an  *)
(* import (import.go, resourceid.go) and through the data source.          *)
(*                                                                         *)
(* Everything here is a function of its arguments.  What may fail gives a  *)
(* set: that of its result, or the empty one after an error.  A name, a    *)
(* key or a secret is one word; what tells words apart is their spelling,  *)
(* since the code compares some in lower case or without blanks.  The kube *)
(* config is left to ClusterCertificates.                                  *)
(***************************************************************************)
EXTENDS Integers, Sequences, SequencesExt

CONSTANTS Configurations,   \* what a user may write
          Normal,           \* of every word: in lower case and without blanks
          PoolNames,        \* the words acs-engine takes for the name of a pool,
          DNSPrefixes,      \* for a DNS prefix
          VaultIDs,         \* and for the ID of a key vault
          WindowsVersions,  \* the Kubernetes versions that run Windows agents
          LatestPatch       \* the newest of them with the same minor version

\* The inputs the properties speak of, which never change.
VARIABLES configuration,  \* of a resource, and of a data source with the same name
          importPath      \* the path of the ID given to an import

Same(a, b) == Normal[a] = Normal[b]

-----------------------------------------------------------------------------
(* From the configuration to the api_model.                                 *)

\* what the schema lets through to a plan
Accepted(c) ==
  /\ c.master_profile.count \in {1, 3, 5}
  /\ \A p \in ToSet(c.agent_pool_profiles) :
        p.count \in 1..100 /\ Normal[p.os_type] \in {"linux", "windows"}

setContainerService(c) == [c EXCEPT !.location = Normal[@]]

HasWindows(m) == \E p \in ToSet(m.agent_pool_profiles) : p.os_type = "Windows"

Word == STRING \ {""}

Pools == [name : Word, count : Int, vm_size : Word, os_disk_size : Int, os_type : STRING]

\* No word is empty that Azure needs.  Words do not change when they are normalised again.
\* Every Kubernetes version has another one with the same minor version that runs Windows
\* agents, except for 1.6, which users do not choose for them; and they configure a
\* windows_profile for these, as docs/acsengine_kubernetes_cluster.md says.
ASSUME AttributesAssumption ==
  /\ Normal[""] = "" /\ \A w \in DOMAIN Normal : Normal[Normal[w]] = Normal[w]
  /\ \A version \in DOMAIN LatestPatch : LatestPatch[version] \in WindowsVersions
  /\ Configurations \subseteq
       [name : Word, resource_group : {w \in DOMAIN Normal : Normal[w] # ""},
        location : DOMAIN Normal, kubernetes_version : Word, linux_profile : Word,
        windows_profile : Seq([admin_username : Word, admin_password : Word]),
        service_principal : [client_id : Word, vault_id : Word, secret_name : Word],
        master_profile : [count : Int, dns_name_prefix : Word, vm_size : Word, os_disk_size : Int],
        agent_pool_profiles : Seq(Pools) \ {<<>>}, tags : SUBSET (STRING \X STRING)]
  /\ \A c \in Configurations : HasWindows(c) =>
       /\ c.kubernetes_version \in WindowsVersions \cup DOMAIN LatestPatch
       /\ c.windows_profile # <<>>

\* a version that Windows agents do not run on is rounded while the template is made
GenerateTemplate(m) ==
  [m EXCEPT !.kubernetes_version =
      IF HasWindows(m) /\ @ \notin WindowsVersions THEN LatestPatch[@] ELSE @]

\* the resource group is not part of an api_model
ApiModel(c) == [GenerateTemplate(setContainerService(c)) EXCEPT !.resource_group = ""]

\* what acs-engine validates, which only loading asks for
Valid(m) ==
  /\ \A p \in ToSet(m.agent_pool_profiles) : p.name \in PoolNames /\ p.os_type \in {"Linux", "Windows"}
  /\ \A i, j \in DOMAIN m.agent_pool_profiles :
        m.agent_pool_profiles[i].name = m.agent_pool_profiles[j].name => i = j
  /\ m.master_profile.dns_name_prefix \in DNSPrefixes
  /\ m.service_principal.vault_id \in VaultIDs
  /\ \A p \in ToSet(m.agent_pool_profiles) \cup {m.master_profile} : p.os_disk_size \in 0..1023
  /\ HasWindows(m) => m.kubernetes_version \in WindowsVersions /\ m.windows_profile # <<>>

loadContainerServiceFromApimodel(m) ==
  IF Valid(m) THEN {[m EXCEPT !.location = Normal[@]]} ELSE {}

-----------------------------------------------------------------------------
(* From the api_model to the state.                                         *)

flattenMasterProfile(p, location) ==
  [count |-> p.count, dns_name_prefix |-> p.dns_name_prefix, vm_size |-> p.vm_size,
   os_disk_size |-> p.os_disk_size, fqdn |-> <<p.dns_name_prefix, location, "cloudapp.azure.com">>]

flattenWithoutDisk(p) == [p EXCEPT !.os_disk_size = 0]

\* no disk size and a disk size of 0 are the same in a state
flattenAgentPoolProfile(p) ==
  [name |-> p.name, count |-> p.count, vm_size |-> p.vm_size,
   os_disk_size |-> p.os_disk_size, os_type |-> p.os_type]

setStateProfiles(m) ==
  [m EXCEPT
     !.master_profile = flattenMasterProfile(@, m.location),
     !.agent_pool_profiles = [i \in DOMAIN @ |-> flattenAgentPoolProfile(@[i])]]

flattenServicePrincipal(p) ==
  [client_id |-> p.client_id, vault_id |-> p.vault_id, secret_name |-> p.secret_name]

setResourceStateProfiles(m) ==
  [setStateProfiles(m) EXCEPT !.service_principal = flattenServicePrincipal(@)]

\* the data source shows no reference to a secret
flattenDataSourceServicePrincipal(p) == [client_id |-> p.client_id]

setDataSourceStateProfiles(m) ==
  [setStateProfiles(m) EXCEPT !.service_principal = flattenDataSourceServicePrincipal(@)]

-----------------------------------------------------------------------------
(* IDs: paths of segments, without the slashes between and around them.     *)

DeploymentID(group, name) ==
  <<"subscriptions", "sub", "resourceGroups", group,
    "providers", "Microsoft.Resources", "deployments", name>>

\* of a key that comes twice the last value counts, but the first subscription is the ID's
ParseAzureResourceID(path) ==
  LET pairs == [i \in 1..(Len(path) \div 2) |-> <<path[2 * i - 1], path[2 * i]>>]
      subscription == SelectInSeq(pairs, LAMBDA p : p[1] = "subscriptions")
      others == DOMAIN pairs \ {subscription}
      map == [k \in {pairs[i][1] : i \in others} |->
                pairs[Max({i \in others : pairs[i][1] = k})][2]]
      group == IF "resourceGroups" \in DOMAIN map THEN "resourceGroups" ELSE "resourcegroups"
  IN  IF \/ Len(path) % 2 # 0 \/ "" \in ToSet(path)
         \/ subscription = 0 \/ group \notin DOMAIN map
      THEN {}
      ELSE {[SubscriptionID |-> pairs[subscription][2], ResourceGroup |-> map[group],
             Path |-> [k \in DOMAIN map \ {group, "providers"} |-> map[k]]]}

\* the group and the name in an ID, with a key that counts before another one
NamedBy(path, key, other) ==
  LET Key(id) == IF key \in DOMAIN id.Path THEN key ELSE other
  IN  {<<id.ResourceGroup, id.Path[Key(id)]>> :
          id \in {x \in ParseAzureResourceID(path) : Key(x) \in DOMAIN x.Path}}

OneSpelling(path) == NamedBy(path, "deployments", "deployments")

\* the key is looked for with a small letter first
deploymentNameAndResourceGroup(path) == NamedBy(path, "deployments", "Deployments")

\* Azure finds a deployment under any spelling, and answers with its own
Get(deployed, group, name) == {d \in deployed : Same(d.group, group) /\ Same(d.name, name)}

-----------------------------------------------------------------------------
(* The readers.                                                             *)

Read(path, m) ==
  UNION {{[setResourceStateProfiles(loaded) EXCEPT !.resource_group = id.ResourceGroup] :
            loaded \in loadContainerServiceFromApimodel(m)} : id \in ParseAzureResourceID(path)}

\* the ID of an import is a path and, after a blank, the directory of an api_model; the
\* deployment found gives the resource its ID, and Read the rest
Importable(words, deployed) ==
  IF Len(words) # 2 THEN {}
  ELSE UNION {Get(deployed, found[1], found[2]) :
                found \in deploymentNameAndResourceGroup(words[1])}

\* the attributes the schema of the data source has, where it has fewer than the resource
InDataSourceSchema(shown) ==
  /\ DOMAIN shown.service_principal \subseteq {"client_id"}
  /\ \A w \in ToSet(shown.windows_profile) : DOMAIN w \subseteq {"admin_username"}

\* the data source keeps the spelling of the resource group it was given
DataSourceRead(deployed, group, name, m) ==
  {shown \in
     UNION {{[setDataSourceStateProfiles(loaded) EXCEPT !.name = d.name, !.resource_group = group] :
               loaded \in loadContainerServiceFromApimodel(m)} : d \in Get(deployed, group, name)} :
   InDataSourceSchema(shown)}

-----------------------------------------------------------------------------
(* The next plan.                                                           *)

SamePool(old, new) ==
  /\ \A a \in {"name", "count", "os_disk_size"} : old[a] = new[a]
  /\ Same(old.vm_size, new.vm_size) /\ Same(old.os_type, new.os_type)

\* the attributes terraform plans to change
Changes(old, c) ==
  {a \in {"name", "kubernetes_version", "linux_profile", "windows_profile", "service_principal"} :
      old[a] # c[a]}
  \cup {a \in {"location", "resource_group"} : ~Same(old[a], c[a])}
  \cup {a \in {"master_profile"} :
          \/ \E k \in {"count", "dns_name_prefix", "os_disk_size"} : old[a][k] # c[a][k]
          \/ ~Same(old[a].vm_size, c[a].vm_size)}
  \cup {a \in {"agent_pool_profiles"} :
          \/ Len(old[a]) # Len(c[a])
          \/ \E i \in DOMAIN c[a] : ~SamePool(old[a][i], c[a][i])}
  \cup {a \in {"tags"} : c[a] # {} /\ old[a] # c[a]}

-----------------------------------------------------------------------------
(* Properties.                                                              *)

\* Windows agents with a version they do not run on
Rounded(c) == HasWindows(c) /\ c.kubernetes_version \notin WindowsVersions

\* whatever Azure makes of the spelling of a resource group
Deployed(c) == {[group |-> g, name |-> c.name] : g \in {w \in DOMAIN Normal : Same(w, c.resource_group)}}

\* What nothing checks before the deployment, and acs-engine refuses to load afterwards.
Unreadable(c) ==
  LET pools == c.agent_pool_profiles
  IN  \/ \E p \in ToSet(pools) : p.name \notin PoolNames \/ p.os_type \notin {"Linux", "Windows"}
      \/ \E i, j \in DOMAIN pools : i # j /\ pools[i].name = pools[j].name
      \/ \E p \in ToSet(pools) \cup {c.master_profile} : p.os_disk_size \notin 0..1023
      \/ c.master_profile.dns_name_prefix \notin DNSPrefixes
      \/ c.service_principal.vault_id \notin VaultIDs

\* Between a configuration and the state read of the cluster it has created.
ReadsBack(c, states) ==
  /\ \A s \in states : Changes(s, c) = {a \in {"kubernetes_version"} : Rounded(c)}
  /\ states = {} => Unreadable(c)

\* What Create records is what its Read and every refresh can read, and no plan sees a
\* difference to the configuration it came from.  Exceptions: a version that Windows agents
\* do not run on, and what the schema accepts and acs-engine refuses when it loads the
\* api_model, after the deployment: a pool's name of other than small letters and digits or
\* given twice, an os_type in another case, disks of other than 0 to 1023 GB, a DNS prefix or
\* a vault ID of another format.
CreatedIsReadBack ==
  Accepted(configuration) =>
    \A d \in Deployed(configuration) :
      ReadsBack(configuration, Read(DeploymentID(d.group, d.name), ApiModel(configuration)))

\* the value of the last of two keys in a path, of the first key if there are both
ValueOf(path, key, other) ==
  LET at(k) == {i \in DOMAIN path : i % 2 = 1 /\ path[i] = k}
      k1 == IF at(key) # {} THEN key ELSE other
  IN  {path[i + 1] : i \in {j \in at(k1) : \A l \in at(k1) : l <= j}}

NamesDeployment(path, d) ==
  /\ Len(path) % 2 = 0 /\ "" \notin ToSet(path)
  /\ ValueOf(path, "subscriptions", "subscriptions") # {}
  /\ \E g \in ValueOf(path, "resourceGroups", "resourcegroups") : Same(g, d.group)
  /\ \E n \in ValueOf(path, "deployments", "Deployments") : Same(n, d.name)

\* what the data source shows of a cluster the resource has read as one of the states
Shown(c, states) ==
  {[s EXCEPT !.service_principal = [client_id |-> @.client_id]] :
     s \in {x \in states : c.windows_profile = <<>>}}

\* An import takes the deployment its path names, for any order, repetition and spelling of
\* the segments, and no other one.  The data source shows what the resource reads, except
\* secrets, and refuses clusters with a Windows profile.
ReadersAgree ==
  \A d \in Deployed(configuration) :
    /\ Importable(<<importPath, "_output">>, {d}) = {x \in {d} : NamesDeployment(importPath, x)}
    /\ DataSourceRead({d}, d.group, configuration.name, ApiModel(configuration)) =
         Shown(configuration, Read(DeploymentID(d.group, d.name), ApiModel(configuration)))
=============================================================================
