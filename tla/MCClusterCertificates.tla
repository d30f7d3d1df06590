----------------------- MODULE MCClusterCertificates -----------------------
(* Certificates of a cluster with one master.  The run also checks the modules  *)
(* without actions, ClusterAttributes and Authentication: each initial state    *)
(* has another input for them, and in those with the first of all inputs the    *)
(* cluster goes through its life.                                               *)
EXTENDS ClusterCertificates, ClusterAttributes, Authentication

Normals ==
  [w \in {"rg", "cluster", "westus", "ds1", "linux", "windows", ""} |-> w]
  @@ ("RG" :> "rg" @@ "Cluster" :> "cluster" @@ "West US" :> "westus" @@ "DS1" :> "ds1")
  @@ ("Linux" :> "linux" @@ "Windows" :> "windows" @@ "sub" :> "sub")

\* 1.8.12 is the last version of 1.8 that runs Windows agents, 1.8.13 the default
RunWindows == {"1.8.12", "1.9.10"}
Latest == "1.8.13" :> "1.8.12"

SmallPoolNames == {"agents", "more"}
SmallDNSPrefixes == {"dns"}
SmallVaultIDs == {"vault"}

Pool(name, vm, disk, os) ==
  [name |-> name, count |-> 2, vm_size |-> vm, os_disk_size |-> disk, os_type |-> os]
FirstPools ==
  {Pool("agents", vm, disk, os) : vm \in {"ds1", "DS1"}, disk \in {0, 1023, 1024},
                                  os \in {"Linux", "linux", "Windows", "windows"}}
  \cup {Pool("agentPool1", "DS1", 0, "Linux")}
AgentPools ==
  {<<p>> : p \in FirstPools}
  \cup {<<p, q>> : p \in FirstPools,
                   q \in {Pool(name, "DS1", 30, os) : name \in {"agents", "more"}, os \in {"Linux", "Windows"}}}

\* Windows agents need a windows_profile, as docs/acsengine_kubernetes_cluster.md says
Written(locations, prefixes, disks, vaults, pools, tags) ==
  {c \in
    [name : {"cluster"}, resource_group : {"RG"}, location : locations,
     kubernetes_version : {"1.8.13", "1.9.10"}, linux_profile : {"key"},
     windows_profile : {<<>>, <<[admin_username |-> "admin", admin_password |-> "secret"]>>},
     service_principal : [client_id : {"client"}, vault_id : vaults, secret_name : {"spsecret"}],
     master_profile : [count : {1, 2}, dns_name_prefix : prefixes, vm_size : {"DS1"},
                       os_disk_size : disks],
     agent_pool_profiles : pools, tags : tags] :
   HasWindows(c) => c.windows_profile # <<>>}

\* with every spelling of the location, or with every format of the prefix and the vault
SmallConfigurations ==
  Written({"westus", "West US"}, {"dns"}, {0, 1024}, {"vault"}, AgentPools, {{}, {<<"env", "dev">>}})
  \cup Written({"westus"}, {"dns", "d"}, {0}, {"vault", "VAULT"},
               {<<p>> : p \in FirstPools}, {{<<"env", "dev">>}})

Pairs == {"subscriptions", "resourceGroups", "resourcegroups", "deployments", "Deployments"}
           \X {"rg", "cluster"}
Wellformed == {p[1] \o p[2] \o p[3] \o p[4] : p \in [1..4 -> Pairs \cup {<<>>}]}
SmallPaths == Wellformed \cup {Append(p, "") : p \in Wellformed}
                         \cup {p \o <<"deployments", "">> : p \in Wellformed}

SmallProviderBlocks ==
  [subscription : {"", "sub1", "sub2"}, tenant : {"", "t1", "t2"}, client : {"", "client"},
   secret : {"", "secret"}, environment : {"public", "unknown"}, use_msi : BOOLEAN, token : {<<>>}]

Subscription(id, tenant, default) ==
  [id |-> id, tenant |-> tenant, isDefault |-> default, environment |-> "public"]
SmallProfiles ==
  {<<>>} \cup {<<Subscription("sub1", "t1", d), Subscription("sub2", "t2", ~d)>> : d \in BOOLEAN}
         \cup {<<Subscription("sub1", "", TRUE)>>}

Token(tenant, resource, expired, parses, refresh) ==
  [tenant |-> tenant, resource |-> resource, expired |-> expired, parses |-> parses,
   refresh |-> refresh, client |-> "cli"]
SmallTokens ==
  LET each == {Token(t, "management", e, TRUE, r) : t \in {"t1", "t2"}, e \in BOOLEAN, r \in {"", "again"}}
              \cup {Token("t1", "graph", FALSE, TRUE, ""), Token("t1", "management", FALSE, FALSE, "")}
  IN  {<<>>} \cup {<<t>> : t \in each}
      \cup {<<t, u>> : t \in each, u \in {Token("t2", "management", FALSE, TRUE, ""),
                                          Token("t1", "management", FALSE, TRUE, "again")}}

LooksAt(c, path, block, cli) ==
  /\ configuration = c
  /\ importPath = path
  /\ provider = block
  /\ files = cli

FirstConfiguration == CHOOSE c \in SmallConfigurations : TRUE
FirstBlock == CHOOSE b \in SmallProviderBlocks : b.secret # "" /\ ~b.use_msi
FirstFiles == [profile |-> <<>>, tokens |-> <<>>]

InitInputs ==
  \/ \E c \in Configurations : LooksAt(c, <<>>, FirstBlock, FirstFiles)
  \/ \E path \in SmallPaths : LooksAt(FirstConfiguration, path, FirstBlock, FirstFiles)
  \/ \E block \in ProviderBlocks, cli \in CLIFiles :
       LooksAt(FirstConfiguration, <<>>, block, cli)

inputs == <<configuration, importPath, provider, files>>

MCNext ==
  /\ LooksAt(FirstConfiguration, <<>>, FirstBlock, FirstFiles)
  /\ Next
  /\ UNCHANGED inputs

MCInit == Init /\ InitInputs

MCSpec == MCInit /\ [][MCNext]_<<vars, inputs>>
=============================================================================
