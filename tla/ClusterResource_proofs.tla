----------------------- MODULE ClusterResource_proofs -----------------------
(***************************************************************************)
(* What TLAPS proves of ClusterResource for all values of its constants.   *)
(*                                                                         *)
(* A user who is not careful included:                                     *)
(*                                                                         *)
(*   - types (TypeCorrect): the sizes of the pools have a bound only       *)
(*     because an upgrade adds a machine per version of the masters and a  *)
(*     failure one more, hence Bounded and MastersNear in TypeInv;         *)
(*   - the masters only go forward (ForwardOnly);                          *)
(*   - no agent is newer than a master (SkewFree).  A scale set is allowed *)
(*     two failures; AsRecorded shows that it takes the first of them to   *)
(*     have its size differ from the recorded one.                         *)
(*                                                                         *)
(* The proofs go by what a step does to one variable (AzureCases,          *)
(* StateCases, ModelCases, ...) rather than action by action: of the many  *)
(* ways to fail most leave the same few things behind.                     *)
(*                                                                         *)
(* For a cluster with one pool of agents (NumPools = 1), for all counts,   *)
(* versions, tags and failures:                                            *)
(*                                                                         *)
(*   - terraform forgets no cluster that is there and deletes none to      *)
(*     update it (from the invariant of the first part alone);             *)
(*   - if the user repeats what has failed (Careful), the versions, the    *)
(*     tags and the machines come out as configured.                       *)
(*                                                                         *)
(* With several pools all of these fail: the run resource_two_pools        *)
(* has a count that replaces the cluster, and an upgrade may leave a pool  *)
(* behind.                                                                 *)
(*                                                                         *)
(* The invariant of the last part, CInv, follows a version, a tag and a    *)
(* count from the configuration to Azure.  Aim says that a failed apply    *)
(* leaves nothing but what is recorded and what is configured, so that the *)
(* next one meets the same two values again.  Course says where an update  *)
(* has come to.  It needs the user to wait for Azure: a deployment of an   *)
(* earlier configuration would bring in a third value.  Sets says of the   *)
(* sizes of scale sets what Aim says of versions.                          *)
(***************************************************************************)
EXTENDS ClusterResource, FiniteSetTheorems, TLAPS

Updating == pc \in {"upgrade", "scale", "tags", "finish"}

\* An apply knows what it works on; an update has refreshed the state, in which
\* every pool of the configuration is listed.
Applying ==
  /\ pc # "idle" => outcome = "working"
  /\ Updating \/ pc = "create" => config # Absent
  /\ pc = "create" => state = NoState
  /\ Updating \/ pc = "delete" => state # NoState
  /\ Updating => /\ state = ReadFrom(state.api_model, FALSE)
                 /\ state.counts \in [Pools -> 1 .. MaxCount]
  /\ pc = "upgrade" => model = state.api_model

\* A cluster that is there has nodes, and one that is not has none.
Populated ==
  /\ azure.deployed =>
       /\ azure.masters # {}
       /\ \A p \in Pools : azure.agents[p].versions # {}
  /\ ~azure.deployed => azure.masters = {} /\ azure.agents = NoAgents
  /\ running # None =>
       /\ azure.deployed /\ state # NoState
       /\ Updating => model.counts \in [Pools -> 1 .. MaxCount]

\* A pool outgrows the largest count only by a machine for every failure and for
\* every version the masters were upgraded to.
Bounded ==
  \A p \in Pools, m \in azure.masters :
    azure.agents[p].size <= MaxCount + faults + m - 1

\* The masters are of the recorded version or the next one.
MastersNear ==
  /\ state # NoState =>
       \A m \in azure.masters : m \in {state.api_model.version, state.api_model.version + 1}
  /\ pc \in {"scale", "tags", "finish"} =>
       /\ model.version = config.version
       /\ model.version \in {state.api_model.version, state.api_model.version + 1}
       /\ \A m \in azure.masters : model.version <= m
  /\ running # None => \A m \in azure.masters : running.version <= m

TypeInv == TypeOK /\ Applying /\ Populated /\ MastersNear /\ Bounded

\* Until the first failure a scale set has the machines that are recorded.
Recorded == IF Updating THEN model.counts ELSE state.api_model.counts

AsRecorded ==
  /\ faults = 0 => running = None
  /\ faults = 0 /\ state # NoState =>
       /\ azure.deployed
       /\ azure.scaleSets => \A p \in DOMAIN Recorded : azure.agents[p].size = Recorded[p]

GInv == TypeInv /\ AsRecorded /\ NoSkew

-----------------------------------------------------------------------------
(* Types. *)

MaxSize == MaxCount + MaxFaults + MaxVersion

PoolStates == [size : 0 .. MaxSize, versions : SUBSET Versions]

LEMMA Numbers ==
  /\ NumPools \in Nat /\ NumPools >= 1
  /\ MaxCount \in Nat /\ MaxCount >= 1
  /\ MaxVersion \in Nat /\ MaxVersion >= 1
  /\ MaxFaults \in Nat
  /\ 1 \in Pools
<1> QED
  BY ResourceAssumption DEF Pools

\* An api_model is read into a state.
LEMMA ReadType ==
  ASSUME NEW m \in Models, NEW tainted \in BOOLEAN
  PROVE  /\ ReadFrom(m, tainted) \in States
         /\ ReadFrom(m, tainted).version = m.version
         /\ ReadFrom(m, tainted).counts = m.counts
         /\ ReadFrom(m, tainted).tags = m.tags
         /\ ReadFrom(m, tainted).api_model = m
         /\ ReadFrom(m, tainted).tainted = tainted
<1> QED
  BY DEF ReadFrom, States, Models

LEMMA ConfigType ==
  ASSUME NEW c \in Configs
  PROVE  /\ c \in Models
         /\ c.version \in Versions /\ c.tags \in Tags /\ c.counts \in [Pools -> 1 .. MaxCount]
<1> QED
  BY DEF Configs, Models, CountLists

LEMMA StateType ==
  ASSUME NEW s \in States
  PROVE  /\ s.api_model \in Models /\ s.tainted \in BOOLEAN
         /\ s.version \in Versions /\ s.tags \in Tags
<1> QED
  BY DEF States

LEMMA PartialType ==
  ASSUME state \in States, config \in Configs
  PROVE  /\ PartialState \in States
         /\ PartialState.api_model = state.api_model
         /\ PartialState.tainted = state.tainted
         /\ PartialState.counts = state.counts
<1> QED
  BY DEF PartialState, States, Configs

LEMMA ResizedType ==
  ASSUME TypeOK, NEW p \in Pools, NEW size \in 0 .. MaxSize, NEW version \in Versions,
         NEW agents \in Resized(p, size, version)
  PROVE  /\ agents \in PoolStates
         /\ agents.size = size
         /\ agents.versions # {}
         /\ agents.versions \subseteq azure.agents[p].versions \cup {version}
         /\ size <= azure.agents[p].size => agents.versions \subseteq azure.agents[p].versions
<1>1. azure.agents[p].size \in Int
  BY DEF TypeOK, Clusters
<1>2. agents = [size |-> agents.size, versions |-> agents.versions]
      /\ agents.size = size /\ agents.versions \in (SUBSET Versions) \ {{}}
  BY DEF Resized
<1>3. /\ size > azure.agents[p].size =>
            agents.versions = azure.agents[p].versions \cup {version}
      /\ size = azure.agents[p].size => agents.versions = azure.agents[p].versions
      /\ size < azure.agents[p].size => agents.versions \subseteq azure.agents[p].versions
  BY DEF Resized
<1>4. size \in Int
  BY Numbers DEF MaxSize
<1>5. agents \in PoolStates
  BY <1>2 DEF PoolStates
<1>6. /\ agents.versions \subseteq azure.agents[p].versions \cup {version}
      /\ size <= azure.agents[p].size => agents.versions \subseteq azure.agents[p].versions
  <2>1. size > azure.agents[p].size \/ size = azure.agents[p].size \/ size < azure.agents[p].size
    BY <1>1, <1>4
  <2>2. ~(size > azure.agents[p].size /\ size <= azure.agents[p].size)
    BY <1>1, <1>4
  <2> QED
    BY <1>3, <2>1, <2>2
<1>7. agents.size = size /\ agents.versions # {}
  BY <1>2
<1> QED
  BY <1>5, <1>6, <1>7, Zenon

\* The resource group with other tags, with one pool changed, with other nodes.
WithTags(tags)           == [azure EXCEPT !.tags = tags]
WithPool(p, agents)      == [azure EXCEPT !.agents[p] = agents]
WithNodes(masters, agents) == [azure EXCEPT !.masters = masters, !.agents = agents]

LEMMA TagsType ==
  ASSUME TypeOK, NEW tags \in Tags \cup {NoTags}
  PROVE  /\ WithTags(tags) \in Clusters
         /\ WithTags(tags).deployed = azure.deployed
         /\ WithTags(tags).scaleSets = azure.scaleSets
         /\ WithTags(tags).masters = azure.masters
         /\ WithTags(tags).agents = azure.agents
         /\ WithTags(tags).tags = tags
<1> QED
  BY DEF TypeOK, Clusters, WithTags

LEMMA PoolType ==
  ASSUME TypeOK, NEW p \in Pools, NEW agents \in PoolStates
  PROVE  /\ WithPool(p, agents) \in Clusters
         /\ WithPool(p, agents).deployed = azure.deployed
         /\ WithPool(p, agents).scaleSets = azure.scaleSets
         /\ WithPool(p, agents).masters = azure.masters
         /\ WithPool(p, agents).tags = azure.tags
         /\ WithPool(p, agents).agents = [azure.agents EXCEPT ![p] = agents]
<1> QED
  BY DEF TypeOK, Clusters, PoolStates, MaxSize, WithPool

LEMMA NodesType ==
  ASSUME TypeOK, NEW masters \in SUBSET Versions, NEW agents \in [Pools -> PoolStates]
  PROVE  /\ WithNodes(masters, agents) \in Clusters
         /\ WithNodes(masters, agents).deployed = azure.deployed
         /\ WithNodes(masters, agents).scaleSets = azure.scaleSets
         /\ WithNodes(masters, agents).masters = masters
         /\ WithNodes(masters, agents).tags = azure.tags
         /\ WithNodes(masters, agents).agents = agents
<1> QED
  BY DEF TypeOK, Clusters, PoolStates, MaxSize, WithNodes

LEMMA NothingType ==
  ASSUME TypeOK
  PROVE  /\ Nothing \in Clusters
         /\ ~Nothing.deployed /\ Nothing.scaleSets = azure.scaleSets
         /\ Nothing.masters = {} /\ Nothing.tags = azure.tags
         /\ Nothing.agents = NoAgents
<1>1. NoAgents \in [Pools -> PoolStates]
  BY Numbers DEF NoAgents, PoolStates, MaxSize
<1> QED
  BY <1>1 DEF TypeOK, Nothing, Clusters, PoolStates, MaxSize

LEMMA ClusterOfType ==
  ASSUME TypeOK, NEW c \in Configs
  PROVE  /\ ClusterOf(c) \in Clusters
         /\ ClusterOf(c).deployed /\ ClusterOf(c).scaleSets = azure.scaleSets
         /\ ClusterOf(c).masters = {c.version} /\ ClusterOf(c).tags = c.tags
         /\ \A p \in Pools : /\ ClusterOf(c).agents[p].size = c.counts[p]
                             /\ ClusterOf(c).agents[p].versions = {c.version}
<1>1. \A p \in Pools : c.counts[p] \in 0 .. MaxSize
  BY ConfigType, Numbers DEF MaxSize
<1>2. [p \in Pools |-> [size |-> c.counts[p], versions |-> {c.version}]] \in [Pools -> PoolStates]
  BY <1>1, ConfigType DEF PoolStates
<1> QED
  BY <1>2, ConfigType DEF TypeOK, ClusterOf, Clusters, PoolStates, MaxSize

-----------------------------------------------------------------------------
(* The pools that upgrades leave, from UpgradeOutcome. *)

\* A pool that is upgraded is of one version and has not grown, but for one
\* machine in a scale set whose masters were replaced as well.
LEMMA UpgradedPool ==
  ASSUME TypeOK, NEW p \in Pools, model.counts[p] \in 1 .. MaxCount,
         NEW a \in AgentsUpgraded(p)
  PROVE  /\ a = [size |-> a.size, versions |-> a.versions]
         /\ a.size \in Nat /\ a.versions = {config.version}
         /\ \/ a.size <= Larger(model.counts[p], azure.agents[p].size)
            \/ azure.masters # {config.version} /\ a.size <= azure.agents[p].size + 1
         /\ azure.scaleSets =>
              /\ azure.agents[p].size = model.counts[p] => a.size = model.counts[p]
              /\ a.size >= Smaller(model.counts[p], azure.agents[p].size)
<1> DEFINE count == model.counts[p]
           old   == azure.agents[p].size
           behind == p \in PoolsBehind
           going == IF azure.scaleSets THEN 0 ELSE faults
<1>1. count \in Nat /\ old \in Nat /\ going \in Nat
  BY Numbers DEF TypeOK, Clusters
<1>2. /\ a = [size |-> a.size, versions |-> a.versions]
      /\ a.versions = {config.version}
      /\ a.size \in SizesFrom(p, LAMBDA size : SizesUpgraded(Attempt, count, size, behind))
  BY DEF AgentsUpgraded
<1>b. PICK k \in 0 .. going, j \in 0 .. going :
        \E size \in SizesUpgraded(Attempt, count, old - k, behind) :
          a.size = size - j /\ a.size \in Nat
  BY <1>2 DEF SizesFrom
<1>3. PICK size \in SizesUpgraded(Attempt, count, old - k, behind) :
        a.size = size - j /\ a.size \in Nat
  BY <1>b
<1>4. k \in Nat /\ j \in Nat
  BY <1>1
<1>5. CASE ~azure.scaleSets
  <2>1. size \in {Larger(count, old - k - Extra(behind)), 0}
    BY <1>3, <1>5 DEF SizesUpgraded, Attempt
  <2> QED
    BY <1>1, <1>2, <1>3, <1>4, <1>5, <2>1 DEF Larger, Extra
<1>6. CASE azure.scaleSets
  <2>1. k = 0 /\ j = 0
    BY <1>3, <1>6
  <2>2. CASE ~behind
    <3>1. size \in {count, old}
      BY <1>1, <1>3, <1>6, <2>1, <2>2 DEF SizesUpgraded, Attempt
    <3> QED
      BY <1>1, <1>2, <1>3, <2>1, <3>1 DEF Larger, Smaller
  <2>3. CASE behind
    <3>1. old - k = old
      BY <1>1, <2>1
    <3>2. SizesUpgraded(Attempt, count, old, behind) =
            old .. old + 1 - (IF azure.masters # {config.version} /\ old # count THEN 0 ELSE 1)
      BY <1>6, <2>3 DEF SizesUpgraded, Attempt
    <3>3. size \in old .. old + 1 - (IF azure.masters # {config.version} /\ old # count THEN 0 ELSE 1)
      BY <1>3, <3>1, <3>2
    <3> QED
      BY <1>1, <1>2, <1>3, <2>1, <3>3 DEF Larger, Smaller
  <2> QED
    BY <2>2, <2>3
<1> QED
  BY <1>5, <1>6

\* One whose upgrade was interrupted has at most a machine more.
LEMMA InterruptedPool ==
  ASSUME TypeOK, NEW p \in Pools, model.counts[p] \in 1 .. MaxCount,
         NEW a \in AgentsInterrupted(p)
  PROVE  /\ a = [size |-> a.size, versions |-> a.versions]
         /\ a.size \in Nat /\ a.versions # {}
         /\ a.versions \subseteq azure.agents[p].versions \cup {config.version}
         /\ a.size <= Larger(model.counts[p], azure.agents[p].size) + 1
         /\ azure.scaleSets => a.size >= Smaller(model.counts[p], azure.agents[p].size)
<1> DEFINE count == model.counts[p]
           old   == azure.agents[p].size
           behind == p \in PoolsBehind
           going == IF azure.scaleSets THEN 0 ELSE faults
<1>1. count \in Nat /\ old \in Nat /\ going \in Nat
  BY Numbers DEF TypeOK, Clusters
<1>2. /\ a = [size |-> a.size, versions |-> a.versions]
      /\ a.versions \in (SUBSET (azure.agents[p].versions \cup {config.version})) \ {{}}
      /\ a.size \in SizesFrom(p, LAMBDA size : SizesInterrupted(Attempt, count, size, behind))
  BY DEF AgentsInterrupted
<1>b. PICK k \in 0 .. going, j \in 0 .. going :
        \E size \in SizesInterrupted(Attempt, count, old - k, behind) :
          a.size = size - j /\ a.size \in Nat
  BY <1>2 DEF SizesFrom
<1>3. PICK size \in SizesInterrupted(Attempt, count, old - k, behind) :
        a.size = size - j /\ a.size \in Nat
  BY <1>b
<1>4. k \in Nat /\ j \in Nat
  BY <1>1
<1>5. CASE ~azure.scaleSets
  <2> DEFINE full == Larger(count + Extra(behind), old - k)
  <2>1. size \in Smaller(old - k, full - Extra(behind)) .. full
    BY <1>3, <1>5 DEF SizesInterrupted, Attempt
  <2>2. full \in Int /\ full <= Larger(count, old) + 1
    BY <1>1, <1>4 DEF Larger, Extra
  <2>3. Smaller(old - k, full - Extra(behind)) \in Int
    BY <1>1, <1>4, <2>2 DEF Smaller, Extra
  <2>4. size \in Int /\ size <= full
    BY <2>1, <2>2, <2>3
  <2> HIDE DEF full
  <2>5. Larger(count, old) \in Int
    BY <1>1 DEF Larger
  <2>6. a.size <= Larger(count, old) + 1
    BY <1>3, <1>4, <2>2, <2>4, <2>5
  <2> QED
    BY <1>2, <1>3, <1>5, <2>6
<1>6. CASE azure.scaleSets
  <2>1. k = 0 /\ j = 0 /\ old - k = old
    BY <1>1, <1>3, <1>6
  <2>2. size \in {count, old} \cup old .. old + 1
    BY <1>1, <1>3, <1>6, <2>1 DEF SizesInterrupted, Attempt
  <2>3. a.size = size /\ a.size \in Nat
    <3>1. size \in Int
      BY <1>1, <2>2
    <3> QED
      BY <1>3, <2>1, <3>1
  <2>4. /\ a.size <= Larger(count, old) + 1
        /\ a.size >= Smaller(count, old)
    <3>1. size = count \/ size = old \/ size = old + 1
      BY <1>1, <2>2
    <3> HIDE DEF count, old
    <3> QED
      BY <1>1, <2>3, <3>1 DEF Larger, Smaller
  <2> QED
    BY <1>2, <2>3, <2>4
<1> QED
  BY <1>5, <1>6

\* While the masters are replaced, a pool can only grow in a scale set that has not
\* the size recorded.
LEMMA PoolDuringMasters ==
  ASSUME TypeOK, NEW p \in Pools, model.counts[p] \in 1 .. MaxCount, config \in Configs,
         NEW a \in AgentsDuringMasters(p)
  PROVE  /\ a \in PoolStates /\ a.versions # {}
         /\ a.size \in {azure.agents[p].size, model.counts[p]}
         /\ a.versions \subseteq azure.agents[p].versions \cup {config.version}
         /\ ~azure.scaleSets \/ azure.agents[p].size = model.counts[p] =>
              /\ a.size = azure.agents[p].size
              /\ a.versions \subseteq azure.agents[p].versions
<1>1. azure.agents[p].size \in 0 .. MaxSize /\ model.counts[p] \in 0 .. MaxSize
  BY Numbers DEF TypeOK, Clusters, MaxSize
<1>2. PICK size \in SizesDuringMasters(Attempt, model.counts[p], azure.agents[p].size) :
        a \in Resized(p, size, config.version)
  BY DEF AgentsDuringMasters
<1>3. /\ size \in {azure.agents[p].size, model.counts[p]}
      /\ ~azure.scaleSets => size = azure.agents[p].size
  BY <1>2 DEF SizesDuringMasters, Attempt
<1>4. config.version \in Versions
  BY ConfigType
<1>5. /\ a \in PoolStates
      /\ a.size = size
      /\ a.versions # {}
      /\ a.versions \subseteq azure.agents[p].versions \cup {config.version}
      /\ size <= azure.agents[p].size => a.versions \subseteq azure.agents[p].versions
  BY <1>1, <1>2, <1>3, <1>4, ResizedType
<1>6. azure.agents[p].size <= azure.agents[p].size
  BY <1>1, Numbers DEF MaxSize
<1> QED
  BY <1>3, <1>5, <1>6

-----------------------------------------------------------------------------
(* TypeInv is an invariant. *)

LEMMA InitTypeInv == Init => TypeInv
<1> SUFFICES ASSUME Init PROVE TypeInv
  OBVIOUS
<1>1. config \in Configs /\ model \in Models /\ config # Absent
  BY ConfigType, ApartAssumption DEF Init
<1>2. NoAgents \in [Pools -> PoolStates]
  BY Numbers DEF NoAgents, PoolStates, MaxSize
<1>3. azure \in Clusters /\ ~azure.deployed /\ azure.masters = {} /\ azure.agents = NoAgents
  BY <1>1, <1>2, ConfigType DEF Init, Clusters, PoolStates, MaxSize
<1>4. TypeOK
  BY <1>1, <1>3, Numbers DEF Init, TypeOK
<1>5. Applying /\ Populated /\ MastersNear /\ Bounded
  BY <1>1, <1>3 DEF Init, Applying, Updating, Populated, MastersNear, Bounded
<1> QED
  BY <1>4, <1>5 DEF TypeInv

\* What a pool is brought to by a scaling, or by what is left of one.
ResizeStep ==
  /\ azure.deployed
  /\ \E p \in Pools, version \in Versions, size \in 0 .. MaxSize :
       /\ size <= MaxCount \/ size <= azure.agents[p].size
       /\ \E agents \in Resized(p, size, version) : azure' = WithPool(p, agents)
       /\ \/ pc = "scale" /\ version = model.version
          \/ running # None /\ version = running.version

LEMMA Resizing ==
  ASSUME TypeInv,
         \/ \E p \in Pools : \/ ScaleDown(p) \/ ScaleUp(p)
                             \/ ScaleUpFails(p) \/ ScaleDownFails(p)
         \/ DeploymentEnds
  PROVE  ResizeStep
<1>0. TypeOK /\ Applying
  BY DEF TypeInv
<1>1. /\ model.version \in Versions
      /\ \A p \in Pools : azure.agents[p].size \in 0 .. MaxSize
  BY <1>0 DEF TypeOK, Models, Clusters, MaxSize
<1>2. ASSUME NEW p \in Pools, Scaling(p)
      PROVE  config.counts[p] \in 1 .. MaxCount /\ pc = "scale"
  BY <1>0, <1>2, ConfigType DEF Scaling, Applying, Updating, TypeOK
<1>3. ASSUME NEW p \in Pools, Scaling(p), Reaches(p), NEW size \in Int,
             NEW agents \in Resized(p, size, model.version),
             azure' = WithPool(p, agents),
             \/ config.counts[p] <= size /\ size <= azure.agents[p].size
             \/ azure.agents[p].size <= size /\ size <= config.counts[p]
      PROVE  ResizeStep
  <2>1. size \in 0 .. MaxSize /\ (size <= MaxCount \/ size <= azure.agents[p].size)
    BY <1>1, <1>2, <1>3, Numbers DEF MaxSize
  <2> QED
    BY <1>1, <1>2, <1>3, <2>1 DEF ResizeStep, Reaches
<1>4. ASSUME NEW p \in Pools, ScaleDown(p) PROVE ResizeStep
  BY <1>1, <1>2, <1>3, <1>4 DEF WithPool, ScaleDown
<1>5. ASSUME NEW p \in Pools, ScaleUp(p) PROVE ResizeStep
  BY <1>1, <1>2, <1>3, <1>5 DEF WithPool, ScaleUp, Deploys
<1>6. ASSUME NEW p \in Pools, ScaleUpFails(p) PROVE ResizeStep
  BY <1>1, <1>2, <1>3, <1>6 DEF WithPool, ScaleUpFails, Deploys
<1>7. ASSUME NEW p \in Pools, ScaleDownFails(p) PROVE ResizeStep
  BY <1>1, <1>2, <1>3, <1>7 DEF WithPool, ScaleDownFails
<1>8. CASE DeploymentEnds
  <2>1. running \in Deployments /\ running # None /\ azure.deployed
    BY <1>0, <1>8 DEF DeploymentEnds, TypeOK, TypeInv, Populated
  <2>2. /\ running.pool \in Pools /\ running.version \in Versions
        /\ running.size \in 0 .. MaxSize /\ running.size <= MaxCount
    BY <2>1, Numbers DEF Deployments, MaxSize
  <2> QED
    BY <1>8, <2>1, <2>2 DEF DeploymentEnds, ResizeStep, WithPool
<1> QED
  BY <1>4, <1>5, <1>6, <1>7, <1>8

\* What holds before an upgrade.
LEMMA BeforeUpgrade ==
  ASSUME TypeInv, pc = "upgrade", azure.deployed, config.version # state.version,
         VersionAllowed
  PROVE  /\ config \in Configs /\ config.version \in Versions
         /\ config.version = state.api_model.version + 1
         /\ state # NoState
         /\ \A p \in Pools : model.counts[p] \in 1 .. MaxCount
         /\ \E m \in azure.masters : TRUE
         /\ \A m \in azure.masters : m \in {config.version - 1, config.version}
         /\ \A p \in Pools : azure.agents[p].versions # {}
         /\ \A p \in Pools, m \in azure.masters :
              azure.agents[p].size <= MaxCount + faults + m - 1
<1>1. config \in Configs /\ state \in States /\ state = ReadFrom(state.api_model, FALSE)
  BY DEF TypeInv, TypeOK, Applying, Updating
<1>2. model.counts = state.counts /\ state.counts \in [Pools -> 1 .. MaxCount]
      /\ state.version = state.api_model.version
  <2>1. state.api_model \in Models
    BY <1>1, StateType
  <2>2. /\ ReadFrom(state.api_model, FALSE).counts = state.api_model.counts
        /\ ReadFrom(state.api_model, FALSE).version = state.api_model.version
    BY <2>1, ReadType
  <2>3. model = state.api_model /\ state.counts \in [Pools -> 1 .. MaxCount]
    BY DEF TypeInv, Applying, Updating
  <2> QED
    BY <1>1, <2>2, <2>3
<1>3. config.version \in Versions /\ state.version \in Versions
  BY <1>1, ConfigType, StateType
<1>4. config.version = state.version + 1
  BY DEF VersionAllowed, UpgradeAllowed
<1>5. state # NoState /\ \A m \in azure.masters :
        m \in {state.version, state.version + 1}
  BY <1>2 DEF TypeInv, Applying, Updating, MastersNear
<1>6. \A m \in azure.masters : m \in {config.version - 1, config.version}
  BY <1>3, <1>4, <1>5, Numbers DEF Versions
<1> QED
  BY <1>1, <1>2, <1>3, <1>4, <1>5, <1>6 DEF TypeInv, Populated, Bounded

LEMMA UpgradeEffect ==
  ASSUME TypeInv, Upgrade
  PROVE  /\ azure' \in Clusters
         /\ azure'.deployed = azure.deployed /\ azure'.scaleSets = azure.scaleSets
         /\ azure'.tags = azure.tags
         /\ azure'.masters = {config.version}
         /\ \E visited \in PoolsVisited(Attempt, Pools, PoolsBehind) :
              \A p \in Pools : IF p \in visited THEN azure'.agents[p] \in AgentsUpgraded(p)
                               ELSE azure'.agents[p] = azure.agents[p]
         /\ \A p \in Pools : azure'.agents[p].size <= MaxCount + faults + config.version - 1
<1>0. TypeOK
  BY DEF TypeInv
<1>1. PICK visited \in PoolsVisited(Attempt, Pools, PoolsBehind),
           agents \in [Pools -> UNION {AgentsUpgraded(p) \cup {azure.agents[p]} : p \in Pools}] :
        /\ \A p \in Pools : IF p \in visited THEN agents[p] \in AgentsUpgraded(p)
                                             ELSE agents[p] = azure.agents[p]
        /\ azure' = [azure EXCEPT !.masters = {config.version}, !.agents = agents]
  BY DEF Upgrade
<1>2. /\ config \in Configs /\ config.version \in Versions
      /\ \A p \in Pools : model.counts[p] \in 1 .. MaxCount
      /\ \A m \in azure.masters : m \in {config.version - 1, config.version}
      /\ azure.masters # {}
      /\ \A p \in Pools, m \in azure.masters :
           azure.agents[p].size <= MaxCount + faults + m - 1
  BY BeforeUpgrade DEF Upgrade
<1>3. \A p \in Pools : azure.agents[p] \in PoolStates
  BY <1>0 DEF TypeOK, Clusters, PoolStates, MaxSize
<1>4. config.version \in 1 .. MaxVersion /\ faults \in 0 .. MaxFaults
  BY <1>0, <1>2 DEF Versions, TypeOK
<1>5. ASSUME NEW p \in Pools
      PROVE  azure.agents[p].size <= MaxCount + faults + config.version - 1
  <2>1. PICK m \in azure.masters : TRUE
    BY <1>2
  <2>2. azure.agents[p].size \in Int
    BY <1>3, Numbers DEF PoolStates, MaxSize
  <2>3. azure.agents[p].size <= MaxCount + faults + m - 1
        /\ m \in {config.version - 1, config.version}
    BY <1>2, <2>1
  <2> QED
    BY <1>4, <2>2, <2>3, Numbers
<1>6. ASSUME NEW p \in Pools, NEW a \in AgentsUpgraded(p)
      PROVE  a \in PoolStates /\ a.size <= MaxCount + faults + config.version - 1
  <2>1. /\ a = [size |-> a.size, versions |-> a.versions]
        /\ a.size \in Nat /\ a.versions = {config.version}
        /\ \/ a.size <= Larger(model.counts[p], azure.agents[p].size)
           \/ azure.masters # {config.version} /\ a.size <= azure.agents[p].size + 1
    BY <1>0, <1>2, UpgradedPool
  <2>2. azure.agents[p].size \in Nat /\ model.counts[p] \in Nat /\ model.counts[p] <= MaxCount
    BY <1>2, <1>3, Numbers DEF PoolStates, MaxSize
  <2>3. a.size <= MaxCount + faults + config.version - 1
    <3>1. CASE a.size <= Larger(model.counts[p], azure.agents[p].size)
      BY <1>4, <1>5, <2>1, <2>2, <3>1, Numbers DEF Larger
    <3>2. CASE azure.masters # {config.version} /\ a.size <= azure.agents[p].size + 1
      <4>1. config.version - 1 \in azure.masters
        <5>1. CASE \A m \in azure.masters : m = config.version
          <6>1. azure.masters = {config.version}
            BY <1>2, <5>1
          <6> QED
            BY <3>2, <6>1
        <5>2. CASE \E m \in azure.masters : m # config.version
          BY <1>2, <5>2
        <5> QED
          BY <5>1, <5>2
      <4>2. azure.agents[p].size <= MaxCount + faults + (config.version - 1) - 1
        BY <1>2, <4>1
      <4> QED
        BY <1>4, <2>1, <2>2, <3>2, <4>2, Numbers
    <3> QED
      BY <2>1, <3>1, <3>2
  <2>4. a.size \in 0 .. MaxSize
    BY <1>4, <2>1, <2>3, Numbers DEF MaxSize
  <2> QED
    BY <1>2, <2>1, <2>3, <2>4 DEF PoolStates
<1>7. /\ agents \in [Pools -> PoolStates]
      /\ \A p \in Pools : agents[p].size <= MaxCount + faults + config.version - 1
  <2>1. \A p \in Pools : agents[p] \in PoolStates
                         /\ agents[p].size <= MaxCount + faults + config.version - 1
    BY <1>1, <1>3, <1>5, <1>6
  <2> QED
    BY <1>1, <2>1
<1>8. /\ azure' \in Clusters
      /\ azure'.deployed = azure.deployed /\ azure'.scaleSets = azure.scaleSets
      /\ azure'.masters = {config.version} /\ azure'.tags = azure.tags
      /\ azure'.agents = agents
  <2>1. {config.version} \in SUBSET Versions
    BY <1>2
  <2>2. azure' = WithNodes({config.version}, agents)
    BY <1>1 DEF WithNodes
  <2> QED
    BY <1>0, <1>7, <2>1, <2>2, NodesType
<1>9. \A p \in Pools : IF p \in visited THEN azure'.agents[p] \in AgentsUpgraded(p)
                                        ELSE azure'.agents[p] = azure.agents[p]
  BY <1>1, <1>8
<1> QED
  BY <1>7, <1>8, <1>9

\* An upgrade that fails: agents of the new version only where all masters have it.
LEMMA UpgradeFailsEffect ==
  ASSUME TypeInv, UpgradeFails
  PROVE  /\ azure' \in Clusters
         /\ azure'.deployed = azure.deployed /\ azure'.scaleSets = azure.scaleSets
         /\ azure'.tags = azure.tags
         /\ \/ /\ azure'.masters \in {azure.masters, azure.masters \cup {config.version}}
               /\ \A p \in Pools : azure'.agents[p] \in AgentsDuringMasters(p)
            \/ /\ azure'.masters = {config.version}
               /\ \A p \in Pools :
                    azure'.agents[p] \in AgentsInterrupted(p) \cup AgentsDuringMasters(p)
         /\ \A p \in Pools, m \in azure'.masters :
              azure'.agents[p].size <= MaxCount + faults' + m - 1
<1>0. TypeOK
  BY DEF TypeInv
<1>1. /\ config \in Configs /\ config.version \in Versions
      /\ \A p \in Pools : model.counts[p] \in 1 .. MaxCount
      /\ \A m \in azure.masters : m \in {config.version - 1, config.version}
      /\ \E m \in azure.masters : TRUE
      /\ \A p \in Pools, m \in azure.masters :
           azure.agents[p].size <= MaxCount + faults + m - 1
  BY BeforeUpgrade DEF UpgradeFails
<1>2. \A p \in Pools : azure.agents[p].size \in Nat
  BY <1>0, Numbers DEF TypeOK, Clusters
<1>3. /\ config.version \in 1 .. MaxVersion /\ faults \in 0 .. MaxFaults
      /\ faults' \in 0 .. MaxFaults /\ faults' = faults + 1
  <2>1. Fault
    BY DEF UpgradeFails
  <2> QED
    BY <1>0, <1>1, <2>1, Numbers DEF Versions, TypeOK, Fault
<1>4. azure.masters \subseteq Versions
  BY <1>0 DEF TypeOK, Clusters
<1> DEFINE Bound(m) == MaxCount + faults' + m - 1
<1>5. ASSUME NEW p \in Pools
      PROVE  /\ \A m \in azure.masters \cup {config.version} :
                  azure.agents[p].size <= Bound(m) /\ model.counts[p] <= Bound(m)
             /\ azure.agents[p].size + 1 <= Bound(config.version)
             /\ model.counts[p] + 1 <= Bound(config.version)
  <2>1. PICK m0 \in azure.masters : TRUE
    BY <1>1
  <2>2. \A m \in azure.masters : m \in Int /\ m >= 1 /\ m <= config.version
    BY <1>1, <1>3, <1>4, Numbers DEF Versions
  <2>3. \A m \in azure.masters : azure.agents[p].size <= MaxCount + faults + m - 1
    BY <1>1
  <2>4. model.counts[p] \in Int /\ model.counts[p] <= MaxCount
    BY <1>1, Numbers
  <2>5. \A m \in azure.masters :
          azure.agents[p].size <= Bound(m) /\ model.counts[p] <= Bound(m)
    BY <1>2, <1>3, <2>2, <2>3, <2>4, Numbers
  <2>6. /\ azure.agents[p].size + 1 <= Bound(config.version)
        /\ model.counts[p] + 1 <= Bound(config.version)
    BY <1>2, <1>3, <2>1, <2>2, <2>3, <2>4, Numbers
  <2>7. azure.agents[p].size <= Bound(config.version) /\ model.counts[p] <= Bound(config.version)
    BY <1>2, <1>3, <2>4, <2>6, Numbers
  <2> QED
    BY <2>5, <2>6, <2>7
<1>6. Bound(config.version) <= MaxSize
  BY <1>3, Numbers DEF MaxSize
<1>7. ASSUME NEW p \in Pools, NEW a \in AgentsDuringMasters(p)
      PROVE  /\ a \in PoolStates
             /\ \A m \in azure.masters \cup {config.version} : a.size <= Bound(m)
  BY <1>0, <1>1, <1>5, <1>7, PoolDuringMasters
<1>8. ASSUME NEW p \in Pools, NEW a \in AgentsInterrupted(p)
      PROVE  a \in PoolStates /\ a.size <= Bound(config.version)
  <2>1. /\ a = [size |-> a.size, versions |-> a.versions]
        /\ a.size \in Nat
        /\ a.versions \subseteq azure.agents[p].versions \cup {config.version}
        /\ a.size <= Larger(model.counts[p], azure.agents[p].size) + 1
    BY <1>0, <1>1, <1>8, InterruptedPool
  <2>2. a.size <= Bound(config.version)
    BY <1>1, <1>2, <1>3, <1>5, <2>1, Numbers DEF Larger
  <2>3. a.size \in 0 .. MaxSize
    BY <1>3, <1>6, <2>1, <2>2, Numbers DEF MaxSize
  <2>4. a.versions \in SUBSET Versions
    BY <1>0, <1>1, <2>1 DEF TypeOK, Clusters
  <2> QED
    BY <2>1, <2>2, <2>3, <2>4 DEF PoolStates
<1>9. CASE \E agents \in [Pools -> UNION {AgentsDuringMasters(p) : p \in Pools}],
             masters \in {azure.masters, azure.masters \cup {config.version}} :
             /\ \A p \in Pools : agents[p] \in AgentsDuringMasters(p)
             /\ azure' = [azure EXCEPT !.masters = masters, !.agents = agents]
  <2>1. PICK agents \in [Pools -> UNION {AgentsDuringMasters(p) : p \in Pools}],
             masters \in {azure.masters, azure.masters \cup {config.version}} :
             /\ \A p \in Pools : agents[p] \in AgentsDuringMasters(p)
             /\ azure' = WithNodes(masters, agents)
    BY <1>9 DEF WithNodes
  <2>2. agents \in [Pools -> PoolStates] /\ masters \in SUBSET Versions
    BY <1>1, <1>4, <1>7, <2>1
  <2>3. /\ azure' \in Clusters
        /\ azure'.deployed = azure.deployed /\ azure'.scaleSets = azure.scaleSets
        /\ azure'.masters = masters /\ azure'.tags = azure.tags /\ azure'.agents = agents
    BY <1>0, <2>1, <2>2, NodesType
  <2>4. \A p \in Pools, m \in masters : agents[p].size <= Bound(m)
    BY <1>7, <2>1
  <2> QED
    BY <2>1, <2>3, <2>4
<1>10. CASE \E agents \in [Pools -> UNION {AgentsInterrupted(p) \cup AgentsDuringMasters(p) : p \in Pools}] :
              /\ \A p \in Pools : agents[p] \in AgentsInterrupted(p) \cup AgentsDuringMasters(p)
              /\ azure' = [azure EXCEPT !.masters = {config.version}, !.agents = agents]
  <2>1. PICK agents \in [Pools -> UNION {AgentsInterrupted(p) \cup AgentsDuringMasters(p) : p \in Pools}] :
              /\ \A p \in Pools : agents[p] \in AgentsInterrupted(p) \cup AgentsDuringMasters(p)
              /\ azure' = WithNodes({config.version}, agents)
    BY <1>10 DEF WithNodes
  <2>2. agents \in [Pools -> PoolStates] /\ {config.version} \in SUBSET Versions
    BY <1>1, <1>7, <1>8, <2>1
  <2>3. /\ azure' \in Clusters
        /\ azure'.deployed = azure.deployed /\ azure'.scaleSets = azure.scaleSets
        /\ azure'.masters = {config.version} /\ azure'.tags = azure.tags /\ azure'.agents = agents
    BY <1>0, <2>1, <2>2, NodesType
  <2>4. \A p \in Pools : agents[p].size <= Bound(config.version)
    BY <1>7, <1>8, <2>1
  <2> QED
    BY <2>1, <2>3, <2>4
<1> QED
  BY <1>9, <1>10 DEF UpgradeFails

\* What a step can do to the resource group.
TagsStep ==
  \E tags \in Tags \cup {NoTags} :
    /\ azure' = WithTags(tags)
    /\ \/ pc \in {"create", "tags"} /\ tags = config.tags
       \/ pc \in {"upgrade", "scale"} /\ tags = NoTags
CreateStep == pc = "create" /\ azure' = ClusterOf(config)
DeleteStep == pc = "delete" /\ azure' = Nothing /\ running' = None

LEMMA AzureCases ==
  ASSUME TypeInv, [Next]_vars
  PROVE  \/ azure' = azure
         \/ TagsStep
         \/ CreateStep
         \/ DeleteStep
         \/ Upgrade
         \/ UpgradeFails
         \/ ResizeStep
<1>1. pc \in {"create", "tags"} => config.tags \in Tags
  BY ConfigType DEF TypeInv, TypeOK, Applying, Updating
<1>2. CASE Edit
  BY <1>2 DEF Edit
<1>3. CASE Apply
  <2>1. CASE PlanCreate \/ PlanDelete \/ PlanUpdate \/ PlanNothing
    BY <2>1 DEF PlanCreate, PlanDelete, PlanUpdate, PlanNothing, Starts
  <2>2. CASE Create \/ Delete
    BY <2>2 DEF Create, Delete, CreateStep, DeleteStep
  <2>3. CASE VersionRefused \/ VersionUnchanged \/ CountUnchanged \/ ClusterGone \/ PoolsScaled
             \/ TagsUnchanged \/ Finish
    BY <2>3 DEF VersionRefused, VersionUnchanged, CountUnchanged, ClusterGone, PoolsScaled,
                TagsUnchanged, Finish
  <2>4. CASE \E p \in Pools : ScaleIndexPanics(p) \/ AtDesiredCount(p)
    BY <2>4 DEF ScaleIndexPanics, AtDesiredCount
  <2>5. CASE \E p \in Pools : ScaleDown(p) \/ ScaleUp(p)
    BY <2>5, Resizing
  <2>6. CASE UpdateTags
    BY <1>1, <2>6 DEF UpdateTags, TagsStep, WithTags
  <2> QED
    BY <1>3, <2>1, <2>2, <2>3, <2>4, <2>5, <2>6 DEF Apply
<1>4. CASE Failures
  <2>1. CASE RefreshFails \/ UpdateFails \/ Dies
    BY <2>1 DEF RefreshFails, UpdateFails, Dies
  <2>2. CASE CreateFails \/ CreateUnread \/ UpdateTagsFails \/ TagsDropped
    BY <1>1, <2>2 DEF CreateFails, CreateUnread, UpdateTagsFails, TagsDropped,
                      Scaling, CreateStep, TagsStep, WithTags
  <2>3. CASE DeleteFails
    BY <2>3 DEF DeleteFails, DeleteStep
  <2>4. CASE \E p \in Pools : ScaleUpFails(p) \/ ScaleDownFails(p)
    BY <2>4, Resizing
  <2> QED
    BY <1>4, <2>1, <2>2, <2>3, <2>4 DEF Failures
<1>5. CASE DeploymentEnds
  BY <1>5, Resizing
<1>6. CASE UNCHANGED vars
  BY <1>6 DEF vars
<1> QED
  BY <1>2, <1>3, <1>4, <1>5, <1>6 DEF Next

LEMMA FaultsGrow ==
  ASSUME TypeOK, [Next]_vars
  PROVE  faults' \in 0 .. MaxFaults /\ faults <= faults'
<1>0. faults \in 0 .. MaxFaults /\ (Fault => faults' \in 0 .. MaxFaults /\ faults <= faults')
  BY Numbers DEF TypeOK, Fault
<1>1. Fault \/ faults' = faults
  <2>1. CASE Edit \/ DeploymentEnds
    BY <2>1 DEF Edit, DeploymentEnds
  <2>2. CASE Apply
    BY <2>2 DEF Apply, PlanCreate, PlanDelete, PlanUpdate, PlanNothing, Starts, Create, Delete,
                VersionRefused, Upgrade, VersionUnchanged, CountUnchanged, ScaleIndexPanics,
                AtDesiredCount, ScaleDown, ScaleUp, ClusterGone, PoolsScaled, UpdateTags,
                TagsUnchanged, Finish
  <2>3. CASE Failures
    BY <2>3 DEF Failures, RefreshFails, CreateFails, CreateUnread, DeleteFails, UpgradeFails,
                ScaleUpFails, ScaleDownFails, UpdateTagsFails, TagsDropped, UpdateFails, Dies
  <2>4. CASE UNCHANGED vars
    BY <2>4 DEF vars
  <2> QED
    BY <2>1, <2>2, <2>3, <2>4 DEF Next
<1> QED
  BY <1>0, <1>1, Numbers

\* What a resizing leaves: the pool with nodes of the old versions and the one of
\* the deployment.
LEMMA ResizeEffect ==
  ASSUME TypeOK, ResizeStep
  PROVE  \E p \in Pools, version \in Versions, agents \in PoolStates :
           /\ azure.deployed
           /\ agents.size <= MaxCount \/ agents.size <= azure.agents[p].size
           /\ agents.versions # {}
           /\ agents.versions \subseteq azure.agents[p].versions \cup {version}
           /\ \/ pc = "scale" /\ version = model.version
              \/ running # None /\ version = running.version
           /\ azure' = WithPool(p, agents)
<1>1. PICK p \in Pools, version \in Versions, size \in 0 .. MaxSize :
        /\ azure.deployed
        /\ size <= MaxCount \/ size <= azure.agents[p].size
        /\ \E agents \in Resized(p, size, version) : azure' = WithPool(p, agents)
        /\ \/ pc = "scale" /\ version = model.version
           \/ running # None /\ version = running.version
  BY DEF ResizeStep
<1>2. PICK agents \in Resized(p, size, version) : azure' = WithPool(p, agents)
  BY <1>1
<1>3. /\ agents \in PoolStates /\ agents.size = size /\ agents.versions # {}
      /\ agents.versions \subseteq azure.agents[p].versions \cup {version}
  BY ResizedType
<1> QED
  BY <1>1, <1>2, <1>3

LEMMA ClusterStep ==
  ASSUME TypeInv, [Next]_vars
  PROVE  azure' \in Clusters /\ Bounded'
<1>0. TypeOK /\ faults' \in Nat /\ faults \in Nat /\ faults <= faults'
  BY FaultsGrow, Numbers DEF TypeInv, TypeOK
<1>1. /\ azure \in Clusters
      /\ \A p \in Pools : azure.agents[p] \in PoolStates /\ azure.agents[p].size \in Nat
      /\ \A m \in azure.masters : m \in Nat /\ m >= 1
  BY <1>0, Numbers DEF TypeOK, Clusters, PoolStates, MaxSize, Versions
<1>2. \A p \in Pools, m \in azure.masters :
        /\ azure.agents[p].size <= MaxCount + faults' + m - 1
        /\ MaxCount <= MaxCount + faults' + m - 1
  BY <1>0, <1>1, Numbers DEF TypeInv, Bounded
<1>3. CASE azure' = azure
  BY <1>1, <1>2, <1>3 DEF Bounded
<1>4. CASE TagsStep
  BY <1>0, <1>2, <1>4, TagsType DEF TagsStep, Bounded
<1>5. CASE CreateStep
  <2>1. config \in Configs
    BY <1>5 DEF CreateStep, TypeInv, TypeOK, Applying
  <2>2. \A p \in Pools : config.counts[p] \in 1 .. MaxCount
    BY <2>1, ConfigType
  <2>3. config.version \in Nat /\ config.version >= 1
    BY <2>1, ConfigType, Numbers DEF Versions
  <2>4. /\ azure' \in Clusters /\ azure'.masters = {config.version}
        /\ \A p \in Pools : azure'.agents[p].size = config.counts[p]
    BY <1>0, <1>5, <2>1, ClusterOfType DEF CreateStep
  <2> QED
    BY <1>0, <2>2, <2>3, <2>4, Numbers DEF Bounded
<1>6. CASE DeleteStep
  BY <1>0, <1>6, NothingType DEF DeleteStep, Bounded
<1>7. CASE Upgrade
  <2>1. config.version \in Versions /\ faults' = faults
    BY <1>7, BeforeUpgrade DEF Upgrade
  <2> QED
    BY <1>7, <2>1, UpgradeEffect DEF Bounded
<1>8. CASE UpgradeFails
  BY <1>8, UpgradeFailsEffect DEF Bounded
<1>9. CASE ResizeStep
  <2>1. PICK p \in Pools, agents \in PoolStates :
             /\ agents.size <= MaxCount \/ agents.size <= azure.agents[p].size
             /\ azure' = WithPool(p, agents)
    BY <1>0, <1>9, ResizeEffect
  <2>2. /\ azure' \in Clusters /\ azure'.masters = azure.masters
        /\ azure'.agents = [azure.agents EXCEPT ![p] = agents]
    BY <1>0, <2>1, PoolType
  <2>3. azure.agents \in [Pools -> PoolStates] /\ agents.size \in Nat
    BY <1>0, Numbers DEF TypeOK, Clusters, PoolStates, MaxSize
  <2>4. \A m \in azure.masters : agents.size <= MaxCount + faults' + m - 1
    BY <1>0, <1>1, <1>2, <2>1, <2>3, Numbers
  <2>5. \A q \in Pools : azure'.agents[q] = azure.agents[q] \/ azure'.agents[q] = agents
    BY <2>2, <2>3
  <2> QED
    BY <1>2, <2>2, <2>4, <2>5 DEF Bounded
<1> QED
  BY <1>3, <1>4, <1>5, <1>6, <1>7, <1>8, <1>9, AzureCases

\* What an apply works on is of its type.
LEMMA ApplyTypes ==
  ASSUME TypeInv
  PROVE  /\ Updating \/ pc = "create" => config \in Configs /\ config \in Models
         /\ Updating \/ pc = "delete" => state \in States
         /\ Updating => /\ PartialState \in States
                        /\ PartialState.api_model = state.api_model
                        /\ PartialState.tainted = state.tainted
                        /\ PartialState.counts = state.counts
         /\ state # NoState => /\ state \in States
                               /\ state.api_model \in Models
                               /\ Refreshed \in States
                               /\ Refreshed.api_model = state.api_model
                               /\ Refreshed.tainted = state.tainted
                               /\ Refreshed.counts = state.api_model.counts
                               /\ Refreshed = ReadFrom(Refreshed.api_model, state.tainted)
<1>1. Updating \/ pc = "create" => config \in Configs /\ config \in Models
  BY ConfigType DEF TypeInv, TypeOK, Applying
<1>2. state # NoState => state \in States
  BY DEF TypeInv, TypeOK
<1>3. Updating \/ pc = "delete" => state \in States
  BY <1>2 DEF TypeInv, Applying
<1>4. Updating => /\ PartialState \in States
                  /\ PartialState.api_model = state.api_model
                  /\ PartialState.tainted = state.tainted
                  /\ PartialState.counts = state.counts
  BY <1>1, <1>3, PartialType
<1>5. state # NoState => state.api_model \in Models /\ state.tainted \in BOOLEAN
  BY <1>2, StateType
<1>6. state # NoState => /\ Refreshed \in States
                         /\ Refreshed.api_model = state.api_model
                         /\ Refreshed.tainted = state.tainted
                         /\ Refreshed.counts = state.api_model.counts
  BY <1>5, ReadType DEF Refreshed
<1>7. state # NoState => Refreshed = ReadFrom(Refreshed.api_model, state.tainted)
  BY <1>6 DEF Refreshed
<1> QED
  BY <1>1, <1>2, <1>3, <1>4, <1>5, <1>6, <1>7

\* What a step can do to the state.
ForgetStep == \E p \in Pools : (ScaleIndexPanics(p) \/ ScaleUp(p)) /\ p # 1 /\ state' = NoState /\ pc' = "idle"

LEMMA StateCases ==
  ASSUME TypeInv, [Next]_vars
  PROVE  \/ state' = state
         \/ DeleteStep /\ state' = NoState /\ Delete
         \/ ForgetStep
         \/ pc = "idle" /\ state # NoState /\ state' = Refreshed /\ azure' = azure /\ running' = running
         \/ CreateStep /\ pc' = "idle" /\ \E tainted \in BOOLEAN : state' = ReadFrom(config, tainted)
         \/ Finish
         \/ Updating /\ pc' = "idle" /\ state' = PartialState
<1>1. CASE Edit \/ DeploymentEnds
  BY <1>1 DEF Edit, DeploymentEnds
<1>2. CASE Apply
  <2>1. CASE PlanCreate \/ PlanDelete \/ PlanUpdate \/ PlanNothing
    BY <2>1 DEF PlanCreate, PlanDelete, PlanUpdate, PlanNothing, Starts
  <2>2. CASE Create \/ Delete
    BY <2>2 DEF Create, Delete, CreateStep, DeleteStep, Return
  <2>3. CASE VersionRefused \/ ClusterGone
    BY <2>3 DEF VersionRefused, ClusterGone, UpdateError, Return, Updating, Scaling
  <2>4. CASE Upgrade \/ VersionUnchanged \/ CountUnchanged \/ PoolsScaled \/ UpdateTags \/ TagsUnchanged
    BY <2>4 DEF Upgrade, VersionUnchanged, CountUnchanged, PoolsScaled, UpdateTags, TagsUnchanged
  <2>5. ASSUME NEW p \in Pools, ScaleIndexPanics(p) PROVE ForgetStep
    <3>1. p # 1
      BY <2>5 DEF ScaleIndexPanics, Scaling, TypeInv, TypeOK, Models, CountLists
    <3> QED
      BY <2>5, <3>1 DEF ScaleIndexPanics, Return, ForgetStep
  <2>6. ASSUME NEW p \in Pools, AtDesiredCount(p) \/ ScaleDown(p) PROVE state' = state
    BY <2>6 DEF AtDesiredCount, ScaleDown
  <2>7. ASSUME NEW p \in Pools, ScaleUp(p) PROVE state' = state \/ ForgetStep
    <3>1. p = 1 => p \in DOMAIN ScaledPool(p)
      BY DEF ScaledPool
    <3> QED
      BY <2>7, <3>1 DEF ScaleUp, Return, ForgetStep
  <2> QED
    BY <1>2, <2>1, <2>2, <2>3, <2>4, <2>5, <2>6, <2>7 DEF Apply
<1>3. CASE Failures
  <2>1. CASE RefreshFails \/ CreateFails \/ DeleteFails \/ TagsDropped \/ Dies
    BY <2>1 DEF RefreshFails, CreateFails, DeleteFails, TagsDropped, Dies, StateAfterDeleteError
  <2>2. CASE CreateUnread
    BY <2>2 DEF CreateUnread, Return, CreateStep
  <2>3. CASE UpgradeFails \/ UpdateTagsFails \/ UpdateFails
    BY <2>3 DEF UpgradeFails, UpdateTagsFails, UpdateFails, UpdateError, Return, Updating
  <2>4. CASE \E p \in Pools : ScaleUpFails(p) \/ ScaleDownFails(p)
    BY <2>4 DEF ScaleUpFails, ScaleDownFails, Deploys, Scaling, UpdateError, Return, Updating
  <2> QED
    BY <1>3, <2>1, <2>2, <2>3, <2>4 DEF Failures
<1>4. CASE UNCHANGED vars
  BY <1>4 DEF vars
<1> QED
  BY <1>1, <1>2, <1>3, <1>4 DEF Next

\* What it can do to the api_model of Update.
LEMMA ModelCases ==
  ASSUME TypeInv, [Next]_vars
  PROVE  \/ UNCHANGED model
         \/ PlanUpdate
         \/ Upgrade
         \/ \E p \in Pools : ScaleDown(p)
         \/ \E p \in Pools : ScaleUp(p) /\ p = 1 /\ state' = state
         \/ UpdateTags
<1>1. CASE Edit \/ DeploymentEnds
  BY <1>1 DEF Edit, DeploymentEnds, update
<1>2. CASE Apply
  <2>1. ASSUME NEW p \in Pools, ScaleUp(p)
        PROVE  UNCHANGED model \/ (p = 1 /\ state' = state)
    BY <2>1 DEF ScaleUp, ScaledPool
  <2>2. ASSUME NEW p \in Pools, ScaleIndexPanics(p) \/ AtDesiredCount(p) PROVE UNCHANGED model
    BY <2>2 DEF ScaleIndexPanics, AtDesiredCount, update
  <2> QED
    BY <1>2, <2>1, <2>2 DEF Apply, PlanCreate, PlanDelete, PlanNothing, Create, Delete, VersionRefused,
            VersionUnchanged, CountUnchanged, ClusterGone, PoolsScaled, TagsUnchanged, Finish, update
<1>3. CASE Failures
  BY <1>3 DEF Failures, RefreshFails, CreateFails, CreateUnread, DeleteFails, UpgradeFails,
              ScaleUpFails, ScaleDownFails, UpdateTagsFails, TagsDropped, UpdateFails, Dies, update
<1>4. CASE UNCHANGED vars
  BY <1>4 DEF vars, update
<1> QED
  BY <1>1, <1>2, <1>3, <1>4 DEF Next

\* And to the deployment that runs.
LEMMA RunningCases ==
  ASSUME TypeInv, [Next]_vars
  PROVE  \/ UNCHANGED running
         \/ running' = None
         \/ \E p \in Pools : /\ ScaleUpFails(p)
                             /\ running' = [pool |-> p, size |-> config.counts[p],
                                            version |-> model.version]
<1>1. CASE Edit \/ DeploymentEnds
  BY <1>1 DEF Edit, DeploymentEnds
<1>2. CASE Apply
  BY <1>2 DEF Apply, PlanCreate, PlanDelete, PlanUpdate, PlanNothing, Starts, Create, Delete,
              VersionRefused, Upgrade, VersionUnchanged, CountUnchanged, ScaleIndexPanics,
              AtDesiredCount, ScaleDown, ScaleUp, ClusterGone, PoolsScaled, UpdateTags,
              TagsUnchanged, Finish
<1>3. CASE Failures
  BY <1>3 DEF Failures, RefreshFails, CreateFails, CreateUnread, DeleteFails, UpgradeFails,
              ScaleUpFails, ScaleDownFails, UpdateTagsFails, TagsDropped, UpdateFails, Dies
<1>4. CASE UNCHANGED vars
  BY <1>4 DEF vars
<1> QED
  BY <1>1, <1>2, <1>3, <1>4 DEF Next

\* The configuration is edited between two applies.
LEMMA ConfigCases ==
  ASSUME [Next]_vars
  PROVE  \/ UNCHANGED config
         \/ Edit
<1>1. CASE Apply
  BY <1>1 DEF Apply, PlanCreate, PlanDelete, PlanUpdate, PlanNothing, Starts, Create, Delete,
              VersionRefused, Upgrade, VersionUnchanged, CountUnchanged, ScaleIndexPanics,
              AtDesiredCount, ScaleDown, ScaleUp, ClusterGone, PoolsScaled, UpdateTags,
              TagsUnchanged, Finish
<1>2. CASE Failures
  BY <1>2 DEF Failures, RefreshFails, CreateFails, CreateUnread, DeleteFails, UpgradeFails,
              ScaleUpFails, ScaleDownFails, UpdateTagsFails, TagsDropped, UpdateFails, Dies
<1>3. CASE UNCHANGED vars \/ DeploymentEnds
  BY <1>3 DEF vars, DeploymentEnds
<1> QED
  BY <1>1, <1>2, <1>3 DEF Next

\* The course of an apply.
LEMMA PcCases ==
  ASSUME TypeInv, [Next]_vars
  PROVE  \/ pc' = pc /\ outcome' = outcome
         \/ pc' = "idle" /\ outcome' \in {"ok", "error"}
         \/ Edit
         \/ PlanCreate \/ PlanDelete \/ PlanUpdate
         \/ Delete /\ pc' = "create" /\ config # Absent
         \/ Upgrade \/ VersionUnchanged \/ PoolsScaled \/ UpdateTags \/ TagsUnchanged
<1>1. CASE Apply
  <2>1. CASE \E p \in Pools : \/ ScaleIndexPanics(p) \/ AtDesiredCount(p)
                              \/ ScaleDown(p) \/ ScaleUp(p)
    BY <2>1 DEF ScaleIndexPanics, AtDesiredCount, ScaleDown, ScaleUp, Return
  <2> QED
    BY <1>1, <2>1 DEF Apply, PlanNothing, Create, Delete, VersionRefused, CountUnchanged,
                      ClusterGone, Finish, Return, UpdateError
<1>2. CASE Failures
  BY <1>2 DEF Failures, RefreshFails, CreateFails, CreateUnread, DeleteFails, UpgradeFails,
              ScaleUpFails, ScaleDownFails, UpdateTagsFails, TagsDropped, UpdateFails, Dies,
              Return, UpdateError
<1>3. CASE UNCHANGED vars \/ DeploymentEnds
  BY <1>3 DEF vars, DeploymentEnds
<1> QED
  BY <1>1, <1>2, <1>3 DEF Next

LEMMA PartialPoolCases ==
  ASSUME TypeInv, [Next]_vars
  PROVE  /\ \/ UNCHANGED partial
            \/ PlanUpdate /\ partial' = {}
            \/ Upgrade /\ partial' = partial \cup {"kubernetes_version"}
            \/ UpdateTags /\ partial' = partial \cup {"tags"}
         /\ \/ UNCHANGED pool
            \/ PlanUpdate /\ pool' = 1
            \/ pc = "scale" /\ pool \in Pools /\ pool' = pool + 1
<1>1. CASE Apply
  <2>1. CASE \E p \in Pools : \/ ScaleIndexPanics(p) \/ AtDesiredCount(p)
                              \/ ScaleDown(p) \/ ScaleUp(p)
    BY <2>1 DEF ScaleIndexPanics, AtDesiredCount, ScaleDown, ScaleUp, Deploys, Scaling, update
  <2> QED
    BY <1>1, <2>1 DEF Apply, PlanCreate, PlanDelete, PlanUpdate, PlanNothing, Create, Delete,
              VersionRefused, Upgrade, VersionUnchanged, CountUnchanged, ClusterGone, PoolsScaled,
              UpdateTags, TagsUnchanged, Finish, update
<1>2. CASE Failures
  BY <1>2 DEF Failures, RefreshFails, CreateFails, CreateUnread, DeleteFails, UpgradeFails,
              ScaleUpFails, ScaleDownFails, UpdateTagsFails, TagsDropped, UpdateFails, Dies, update
<1>3. CASE UNCHANGED vars \/ Edit \/ DeploymentEnds
  BY <1>3 DEF vars, Edit, DeploymentEnds, update
<1> QED
  BY <1>1, <1>2, <1>3 DEF Next

LEMMA TypeOKStep ==
  ASSUME TypeInv, [Next]_vars
  PROVE  TypeOK'
<1>0. TypeOK
  BY DEF TypeInv
<1>1. config' \in Configs \cup {Absent}
  BY <1>0, ConfigCases DEF TypeOK, Edit
<1>2. state' \in States \cup {NoState}
  <2>1. CASE CreateStep /\ \E tainted \in BOOLEAN : state' = ReadFrom(config, tainted)
    <3>1. config \in Models
      BY <2>1, ApplyTypes DEF CreateStep
    <3> QED
      BY <2>1, <3>1, ReadType
  <2>2. CASE Finish
    <3>1. model \in Models
      BY <1>0 DEF TypeOK
    <3> QED
      BY <2>2, <3>1, ReadType DEF Finish
  <2>3. CASE ForgetStep
    BY <2>3 DEF ForgetStep
  <2>4. CASE pc = "idle" /\ state # NoState /\ state' = Refreshed
    BY <2>4, ApplyTypes
  <2>5. CASE Updating /\ state' = PartialState
    BY <2>5, ApplyTypes
  <2>6. state \in States \cup {NoState}
    BY <1>0 DEF TypeOK
  <2> QED
    BY <2>1, <2>2, <2>3, <2>4, <2>5, <2>6, StateCases
<1>3. azure' \in Clusters
  BY ClusterStep
<1>4. running' \in Deployments \cup {None}
  <2>1. ASSUME NEW p \in Pools, ScaleUpFails(p)
        PROVE  [pool |-> p, size |-> config.counts[p], version |-> model.version] \in Deployments
    <3>1. config \in Configs
      BY <2>1, ApplyTypes DEF ScaleUpFails, Deploys, Scaling, Updating
    <3>2. config.counts[p] \in 1 .. MaxCount
      BY <3>1, ConfigType
    <3>3. model.version \in Versions
      BY <1>0 DEF TypeOK, Models
    <3> QED
      BY <3>2, <3>3 DEF Deployments
  <2> QED
    BY <1>0, <2>1, RunningCases DEF TypeOK
<1>5. pc' \in {"idle", "create", "delete", "upgrade", "scale", "tags", "finish"}
      /\ outcome' \in {"none", "working", "ok", "error"}
  <2>1. CASE Edit \/ PlanCreate \/ PlanDelete \/ PlanUpdate \/ VersionUnchanged \/ PoolsScaled \/ TagsUnchanged
    BY <1>0, <2>1 DEF TypeOK, Edit, PlanCreate, PlanDelete, PlanUpdate, VersionUnchanged,
                      PoolsScaled, TagsUnchanged
  <2>2. CASE Delete /\ pc' = "create" /\ config # Absent
    BY <1>0, <2>2 DEF TypeOK, Delete
  <2>3. CASE Upgrade \/ UpdateTags
    BY <1>0, <2>3 DEF TypeOK, Upgrade, UpdateTags
  <2> QED
    BY <1>0, <2>1, <2>2, <2>3, PcCases DEF TypeOK
<1>6. model' \in Models
  <2>1. CASE PlanUpdate
    BY <2>1, ApplyTypes DEF PlanUpdate
  <2>2. CASE Upgrade
    <3>1. config.version \in Versions
      BY <2>2, BeforeUpgrade DEF Upgrade
    <3> QED
      BY <1>0, <2>2, <3>1 DEF TypeOK, Upgrade, Models
  <2>3. ASSUME NEW p \in Pools, Scaling(p) PROVE config.counts[p] \in 1 .. MaxCount
    BY <2>3, ApplyTypes, ConfigType DEF Scaling, Updating
  <2>4. ASSUME NEW p \in Pools, ScaleDown(p) PROVE model' \in Models
    <3>1. config.counts[p] \in 1 .. MaxCount
      BY <2>3, <2>4 DEF ScaleDown
    <3> QED
      BY <1>0, <2>4, <3>1 DEF TypeOK, ScaleDown, Models, CountLists
  <2>5. ASSUME NEW p \in Pools, ScaleUp(p), p = 1, state' = state PROVE model' \in Models
    <3>1. config.counts[p] \in 1 .. MaxCount
      BY <2>3, <2>5 DEF ScaleUp, Deploys
    <3>2. ScaledPool(p) \in CountLists /\ p \in DOMAIN ScaledPool(p)
      BY <2>5, <3>1 DEF ScaledPool, CountLists
    <3> QED
      BY <1>0, <2>5, <3>2 DEF TypeOK, ScaleUp, Models
  <2>6. CASE UpdateTags
    <3>1. config \in Configs
      BY <2>6, ApplyTypes DEF UpdateTags, Updating
    <3> QED
      BY <1>0, <2>6, <3>1, ConfigType DEF TypeOK, UpdateTags, Models
  <2> QED
    BY <1>0, <2>1, <2>2, <2>4, <2>5, <2>6, ModelCases DEF TypeOK
<1>7. partial' \subseteq {"kubernetes_version", "tags"}
  BY <1>0, PartialPoolCases, Zenon DEF TypeOK
<1>8. pool' \in 1 .. NumPools + 1
  BY <1>0, PartialPoolCases, Numbers DEF TypeOK, Pools
<1>9. faults' \in 0 .. MaxFaults
  BY <1>0, FaultsGrow
<1> QED
  BY <1>1, <1>2, <1>3, <1>4, <1>5, <1>6, <1>7, <1>8, <1>9 DEF TypeOK

\* While an apply goes on, it only deletes the state it has.
LEMMA Steady ==
  ASSUME TypeInv, [Next]_vars, pc # "idle", pc' # "idle"
  PROVE  config' = config /\ (state' = state \/ Delete)
<1> QED
  BY StateCases, ConfigCases DEF Finish, Return, ForgetStep, Edit

\* What is recorded stays, but for a cluster that is created or updated to the end.
LEMMA StateKept ==
  ASSUME TypeInv, [Next]_vars, state' # NoState
  PROVE  \/ /\ CreateStep /\ state = NoState /\ config \in Configs
            /\ \E tainted \in BOOLEAN : state' = ReadFrom(config, tainted)
         \/ Finish
         \/ /\ state # NoState
            /\ state'.api_model = state.api_model /\ state'.tainted = state.tainted
<1>1. CASE state' = state
  BY <1>1
<1>2. CASE Updating /\ state' = PartialState
  BY <1>2, ApplyTypes DEF TypeInv, Applying
<1>3. CASE state # NoState /\ state' = Refreshed
  BY <1>3, ApplyTypes
<1>4. CASE CreateStep /\ \E tainted \in BOOLEAN : state' = ReadFrom(config, tainted)
  BY <1>4, ApplyTypes DEF CreateStep, TypeInv, Applying
<1> QED
  BY <1>1, <1>2, <1>3, <1>4, StateCases DEF ForgetStep

LEMMA ApplyingStep ==
  ASSUME TypeInv, [Next]_vars
  PROVE  Applying'
<1>0. TypeOK /\ Applying
  BY DEF TypeInv
<1>1. pc' # "idle" => outcome' = "working"
  BY <1>0, PcCases DEF Applying, Updating, Edit, PlanCreate, PlanDelete, PlanUpdate, Delete, Upgrade,
                       VersionUnchanged, PoolsScaled, UpdateTags, TagsUnchanged
<1>2. pc # "idle" /\ pc' # "idle" =>
        /\ config' = config
        /\ state' = state \/ Delete
  BY Steady
<1>3. pc = "idle" /\ pc' # "idle" => PlanCreate \/ PlanDelete \/ PlanUpdate
  BY PcCases DEF Edit, Delete, Upgrade, VersionUnchanged, PoolsScaled, UpdateTags, TagsUnchanged
<1>4. CASE pc' = "idle"
  BY <1>4 DEF Applying, Updating
<1>5. CASE pc = "idle" /\ pc' # "idle"
  <2>1. CASE PlanCreate
    BY <1>1, <2>1 DEF PlanCreate, Starts, Applying, Updating
  <2>2. CASE PlanDelete
    <3>1. state' # NoState
      BY <2>2, ApplyTypes, ApartAssumption DEF PlanDelete
    <3> QED
      BY <1>1, <2>2, <3>1 DEF PlanDelete, Starts, Applying, Updating
  <2>3. CASE PlanUpdate
    <3>1. /\ state' = Refreshed /\ state # NoState /\ InPlace /\ pc' = "upgrade"
          /\ config' = config /\ model' = state.api_model
      BY <2>3 DEF PlanUpdate, Starts
    <3>2. /\ state' \in States /\ state' # NoState
          /\ state'.api_model = state.api_model
          /\ state'.counts = Refreshed.counts
          /\ state'.counts = state.api_model.counts
          /\ state' = ReadFrom(state'.api_model, state.tainted)
          /\ state.api_model \in Models
      BY <3>1, ApplyTypes, ApartAssumption
    <3>3. /\ config # Absent /\ ~state.tainted
          /\ DOMAIN state'.counts = DOMAIN config.counts
      BY <3>1, <3>2 DEF InPlace
    <3>4. config \in Configs /\ state \in States
      BY <1>0, <3>1, <3>3 DEF TypeOK
    <3>5. state'.counts \in CountLists
      BY <3>2 DEF Models
    <3>6. state'.counts \in [Pools -> 1 .. MaxCount]
      BY <3>3, <3>4, <3>5, ConfigType DEF CountLists
    <3>7. state.tainted = FALSE
      BY <3>3, <3>4, StateType
    <3>8. state' = ReadFrom(state'.api_model, FALSE)
      BY <3>2, <3>7
    <3> QED
      BY <1>1, <3>1, <3>2, <3>3, <3>6, <3>8 DEF Applying, Updating
  <2> QED
    BY <1>3, <1>5, <2>1, <2>2, <2>3
<1>6. CASE pc # "idle" /\ pc' # "idle"
  <2>1. CASE Delete
    BY <1>1, <1>2, <1>6, <2>1 DEF Delete, Return, Applying, Updating
  <2>2. CASE state' = state /\ ~Delete
    <3>1. pc' = pc \/ (Updating /\ Updating' /\ pc' # "upgrade")
      BY <1>6, <2>2, PcCases DEF Edit, PlanCreate, PlanDelete, PlanUpdate, Starts, Upgrade, VersionUnchanged,
                     PoolsScaled, UpdateTags, TagsUnchanged, Updating
    <3>2. pc' = "upgrade" => UNCHANGED model
      BY <3>1, ModelCases DEF PlanUpdate, Starts, Upgrade, ScaleDown, ScaleUp, Deploys, Scaling, UpdateTags, Updating
    <3>3. UNCHANGED <<config, state>>
      BY <1>2, <1>6, <2>2
    <3>4. /\ Updating' => Updating
          /\ pc' = "create" => pc = "create"
          /\ pc' = "delete" => pc = "delete"
          /\ pc' = "upgrade" => pc = "upgrade"
      BY <3>1 DEF Updating
    <3> QED
      BY <1>0, <1>1, <3>2, <3>3, <3>4 DEF Applying
  <2> QED
    BY <1>2, <1>6, <2>1, <2>2
<1> QED
  BY <1>4, <1>5, <1>6

LEMMA PopulatedStep ==
  ASSUME TypeInv, [Next]_vars, Applying'
  PROVE  Populated'
<1>0. TypeOK /\ Applying /\ Populated
  BY DEF TypeInv
<1>1. /\ azure'.deployed =>
           /\ azure'.masters # {}
           /\ \A p \in Pools : azure'.agents[p].versions # {}
      /\ ~azure'.deployed => azure'.masters = {} /\ azure'.agents = NoAgents
      /\ azure'.deployed \/ ~azure.deployed \/ DeleteStep
  <2>1. CASE azure' = azure
    BY <1>0, <2>1 DEF Populated
  <2>2. CASE TagsStep
    BY <1>0, <2>2, TagsType DEF TagsStep, Populated
  <2>3. CASE CreateStep
    BY <1>0, <2>3, ApplyTypes, ClusterOfType DEF CreateStep
  <2>4. CASE DeleteStep
    BY <1>0, <2>4, NothingType DEF DeleteStep
  <2>5. CASE Upgrade
    <3>1. PICK visited \in PoolsVisited(Attempt, Pools, PoolsBehind) :
            \A p \in Pools : IF p \in visited THEN azure'.agents[p] \in AgentsUpgraded(p)
                             ELSE azure'.agents[p] = azure.agents[p]
      BY <2>5, UpgradeEffect
    <3>2. /\ azure'.deployed = azure.deployed /\ azure'.masters = {config.version}
          /\ \A p \in Pools : model.counts[p] \in 1 .. MaxCount
          /\ azure.deployed
      BY <2>5, UpgradeEffect, BeforeUpgrade DEF Upgrade
    <3>3. \A p \in Pools : azure'.agents[p].versions # {}
      <4> TAKE p \in Pools
      <4>1. CASE p \in visited
        BY <1>0, <3>1, <3>2, <4>1, UpgradedPool
      <4>2. CASE p \notin visited
        BY <1>0, <3>1, <3>2, <4>2 DEF Populated
      <4> QED
        BY <4>1, <4>2
    <3> QED
      BY <3>2, <3>3
  <2>6. CASE UpgradeFails
    <3>1. /\ azure'.deployed = azure.deployed /\ azure.deployed
          /\ azure'.masters # {}
          /\ \A p \in Pools : azure'.agents[p] \in AgentsInterrupted(p) \cup AgentsDuringMasters(p)
          /\ \A p \in Pools : model.counts[p] \in 1 .. MaxCount
          /\ config \in Configs
      BY <2>6, UpgradeFailsEffect, BeforeUpgrade DEF UpgradeFails
    <3>2. \A p \in Pools : azure'.agents[p].versions # {}
      BY <1>0, <3>1, InterruptedPool, PoolDuringMasters
    <3> QED
      BY <3>1, <3>2
  <2>7. CASE ResizeStep
    <3>1. PICK p \in Pools, agents \in PoolStates :
             azure.deployed /\ agents.versions # {} /\ azure' = WithPool(p, agents)
      BY <1>0, <2>7, ResizeEffect
    <3>2. /\ azure'.masters = azure.masters /\ azure'.deployed = azure.deployed
          /\ azure'.agents = [azure.agents EXCEPT ![p] = agents]
      BY <1>0, <3>1, PoolType
    <3>3. \A q \in Pools : azure'.agents[q] = agents \/ azure'.agents[q] = azure.agents[q]
      BY <1>0, <3>2 DEF TypeOK, Clusters
    <3> QED
      BY <1>0, <3>1, <3>2, <3>3 DEF Populated
  <2> QED
    BY <2>1, <2>2, <2>3, <2>4, <2>5, <2>6, <2>7, AzureCases
<1>2. ASSUME UNCHANGED running, running # None
      PROVE  /\ azure'.deployed /\ state' # NoState
             /\ Updating' => model'.counts \in [Pools -> 1 .. MaxCount]
  <2>1. /\ azure.deployed /\ state # NoState
        /\ Updating => model.counts \in [Pools -> 1 .. MaxCount]
    BY <1>0, <1>2 DEF Populated
  <2>2. azure'.deployed
    BY <1>1, <1>2, <2>1 DEF DeleteStep
  <2>3. state' # NoState
    <3>1. ~ForgetStep
      BY <1>0, <1>2, <2>1, ResourceAssumption
         DEF ForgetStep, ScaleIndexPanics, ScaleUp, Deploys, Scaling, Updating
    <3>2. CASE Finish \/ (CreateStep /\ \E tainted \in BOOLEAN : state' = ReadFrom(config, tainted))
      <4>1. model \in Models /\ (pc = "create" => config \in Models)
        BY <1>0, ApplyTypes DEF TypeOK
      <4>2. state' \in States
        <5>1. CASE Finish
          BY <4>1, <5>1, ReadType DEF Finish
        <5>2. CASE CreateStep /\ \E tainted \in BOOLEAN : state' = ReadFrom(config, tainted)
          <6>1. PICK tainted \in BOOLEAN : state' = ReadFrom(config, tainted)
            BY <5>2
          <6>2. config \in Models
            BY <4>1, <5>2 DEF CreateStep
          <6> QED
            BY <6>1, <6>2, ReadType
        <5> QED
          BY <3>2, <5>1, <5>2
      <4> QED
        BY <4>2, ApartAssumption
    <3> QED
      BY <1>2, <2>1, <3>1, <3>2, StateCases, ApplyTypes, ApartAssumption DEF DeleteStep
  <2>4. ASSUME Updating' PROVE model'.counts \in [Pools -> 1 .. MaxCount]
    <3>1. CASE PlanUpdate
      <4>1. /\ model' = state'.api_model /\ state' = ReadFrom(state'.api_model, FALSE)
            /\ state'.counts \in [Pools -> 1 .. MaxCount]
            /\ state'.api_model \in Models
        BY <2>4, <3>1, ApplyTypes DEF PlanUpdate, Applying
      <4>2. ReadFrom(state'.api_model, FALSE).counts = state'.api_model.counts
        BY <4>1, ReadType
      <4> QED
        BY <4>1, <4>2
    <3>2. CASE ~PlanUpdate
      <4>1. Updating
        BY <2>4, <3>2, PcCases DEF Updating, Edit, PlanCreate, PlanDelete, Delete, Upgrade,
                             VersionUnchanged, PoolsScaled, UpdateTags, TagsUnchanged
      <4>2. model \in Models /\ model.counts \in [Pools -> 1 .. MaxCount] /\ config \in Configs
        BY <1>0, <2>1, <4>1, ApplyTypes DEF TypeOK
      <4>3. CASE Upgrade \/ UpdateTags
        BY <4>2, <4>3 DEF Upgrade, UpdateTags, Models
      <4>4. ASSUME NEW p \in Pools, ScaleDown(p) PROVE model'.counts \in [Pools -> 1 .. MaxCount]
        BY <4>2, <4>4, ConfigType DEF ScaleDown, Models
      <4>5. ~\E p \in Pools : ScaleUp(p)
        BY <1>2 DEF ScaleUp, Deploys
      <4> QED
        BY <3>2, <4>2, <4>3, <4>4, <4>5, ModelCases
    <3> QED
      BY <3>1, <3>2
  <2> QED
    BY <2>2, <2>3, <2>4
<1>3. ASSUME NEW p \in Pools, ScaleUpFails(p)
      PROVE  azure'.deployed /\ state' # NoState /\ ~Updating'
  <2>1. pc = "scale" /\ azure.deployed /\ pc' = "idle" /\ state' = PartialState
    BY <1>3 DEF ScaleUpFails, Deploys, Scaling, Reaches, UpdateError, Return
  <2> QED
    BY <1>1, <2>1, ApplyTypes, ApartAssumption DEF DeleteStep, Updating
<1> QED
  BY <1>1, <1>2, <1>3, RunningCases DEF Populated

\* What a step can do to the masters.
LEMMA MastersCases ==
  ASSUME TypeInv, [Next]_vars
  PROVE  \/ azure'.masters = azure.masters
         \/ DeleteStep /\ azure'.masters = {}
         \/ CreateStep /\ config \in Configs /\ state = NoState /\ azure'.masters = {config.version}
         \/ Upgrade /\ azure'.masters = {config.version}
         \/ UpgradeFails /\ azure'.masters \subseteq azure.masters \cup {config.version}
<1>0. TypeOK /\ Applying
  BY DEF TypeInv
<1>1. CASE TagsStep
  BY <1>0, <1>1, TagsType DEF TagsStep
<1>2. CASE CreateStep
  BY <1>0, <1>2, ApplyTypes, ClusterOfType DEF CreateStep, Applying
<1>3. CASE DeleteStep
  BY <1>0, <1>3, NothingType DEF DeleteStep
<1>4. CASE Upgrade
  BY <1>4, UpgradeEffect
<1>5. CASE UpgradeFails
  <2>1. azure'.masters \in {azure.masters, azure.masters \cup {config.version}, {config.version}}
    BY <1>5, UpgradeFailsEffect
  <2> QED
    BY <1>5, <2>1
<1>6. CASE ResizeStep
  <2>1. PICK p \in Pools, agents \in PoolStates : azure' = WithPool(p, agents)
    BY <1>0, <1>6, ResizeEffect
  <2> QED
    BY <1>0, <2>1, PoolType
<1> QED
  BY <1>1, <1>2, <1>3, <1>4, <1>5, <1>6, AzureCases

LEMMA MastersNearStep ==
  ASSUME TypeInv, [Next]_vars, TypeOK', Populated'
  PROVE  MastersNear'
<1>0. TypeOK /\ Applying /\ MastersNear
  BY DEF TypeInv
<1>1. \A m \in azure.masters : m \in Int
  BY <1>0 DEF TypeOK, Clusters, Versions
<1>2. Upgrade \/ UpgradeFails =>
        /\ config.version \in Int /\ config.version = state.api_model.version + 1
        /\ state # NoState
        /\ \A m \in azure.masters : m \in {config.version - 1, config.version}
        /\ \E m \in azure.masters : TRUE
        /\ pc = "upgrade"
  <2>1. SUFFICES ASSUME Upgrade \/ UpgradeFails
        PROVE  /\ config.version \in Int /\ config.version = state.api_model.version + 1
               /\ state # NoState
               /\ \A m \in azure.masters : m \in {config.version - 1, config.version}
               /\ \E m \in azure.masters : TRUE
               /\ pc = "upgrade"
    OBVIOUS
  <2>2. pc = "upgrade" /\ azure.deployed /\ config.version # state.version /\ VersionAllowed
    BY <2>1 DEF Upgrade, UpgradeFails
  <2>3. config.version \in Versions
    BY <2>2, BeforeUpgrade
  <2>4. config.version \in Int
    BY <2>3 DEF Versions
  <2> QED
    BY <2>2, <2>4, BeforeUpgrade
<1>3. ASSUME state' # NoState
      PROVE  \A m \in azure'.masters : m \in {state'.api_model.version, state'.api_model.version + 1}
  <2>1. CASE CreateStep /\ \E tainted \in BOOLEAN : state' = ReadFrom(config, tainted)
    BY <1>0, <2>1, ApplyTypes, ClusterOfType, ReadType DEF CreateStep
  <2>2. CASE Finish
    <3>1. model \in Models /\ azure' = azure /\ pc = "finish"
      BY <1>0, <2>2 DEF TypeOK, Finish
    <3>2. /\ model.version \in {state.api_model.version, state.api_model.version + 1}
          /\ \A m \in azure.masters : model.version <= m
          /\ state # NoState
      BY <1>0, <3>1 DEF MastersNear, Applying, Updating
    <3>3. /\ state.api_model.version \in Int
          /\ \A m \in azure.masters : m \in {state.api_model.version, state.api_model.version + 1}
      BY <1>0, <3>2, ApplyTypes DEF MastersNear, Models, Versions
    <3>4. state'.api_model.version = model.version
      BY <2>2, <3>1, ReadType DEF Finish
    <3> QED
      BY <1>1, <3>1, <3>2, <3>3, <3>4
  <2>3. CASE state # NoState /\ state'.api_model = state.api_model
    <3>1. \A m \in azure.masters : m \in {state.api_model.version, state.api_model.version + 1}
      BY <1>0, <2>3 DEF MastersNear
    <3>2. \A m \in azure'.masters : m \in azure.masters \/ m = state.api_model.version + 1
      BY <1>2, <2>3, MastersCases
    <3> QED
      BY <2>3, <3>1, <3>2
  <2> QED
    BY <1>3, <2>1, <2>2, <2>3, StateKept
<1>4. ASSUME pc' \in {"scale", "tags", "finish"}
      PROVE  /\ model'.version = config'.version
             /\ model'.version \in {state'.api_model.version, state'.api_model.version + 1}
             /\ \A m \in azure'.masters : model'.version <= m
  <2>1. CASE Upgrade
    <3>1. /\ model \in Models /\ model' = [model EXCEPT !.version = config.version]
          /\ UNCHANGED <<config, state>>
      BY <1>0, <2>1 DEF TypeOK, Upgrade
    <3>2. model'.version = config.version
      BY <3>1 DEF Models
    <3> QED
      BY <1>2, <2>1, <3>1, <3>2, UpgradeEffect
  <2>2. CASE VersionUnchanged
    <3>1. /\ state = ReadFrom(state.api_model, FALSE) /\ model = state.api_model
          /\ state # NoState /\ config.version = state.version
          /\ UNCHANGED <<config, state, azure, model>>
      BY <1>0, <2>2 DEF Applying, Updating, VersionUnchanged, update
    <3>2. state.version = state.api_model.version /\ state.api_model.version \in Int
      <4>1. state.api_model \in Models
        BY <3>1, ApplyTypes
      <4>2. ReadFrom(state.api_model, FALSE).version = state.api_model.version
        BY <4>1, ReadType
      <4>3. state.api_model.version \in Int
        BY <4>1 DEF Models, Versions
      <4> QED
        BY <3>1, <4>2, <4>3
    <3> QED
      BY <1>0, <1>1, <3>1, <3>2 DEF MastersNear
  <2>3. CASE ~Upgrade /\ ~VersionUnchanged
    <3>1. pc \in {"scale", "tags", "finish"}
      BY <1>4, <2>3, PcCases DEF Edit, PlanCreate, PlanDelete, PlanUpdate, Delete, PoolsScaled,
                                 UpdateTags, TagsUnchanged
    <3>2. model'.version = model.version
      <4>1. model \in Models
        BY <1>0 DEF TypeOK
      <4>2. CASE PlanUpdate
        BY <3>1, <4>2 DEF PlanUpdate, Starts
      <4>3. CASE UpdateTags
        BY <4>1, <4>3 DEF UpdateTags, Models
      <4>4. ASSUME NEW p \in Pools, ScaleDown(p) PROVE model'.version = model.version
        BY <4>1, <4>4 DEF ScaleDown, Models
      <4>5. ASSUME NEW p \in Pools, ScaleUp(p), p = 1 PROVE model'.version = model.version
        BY <4>1, <4>5 DEF ScaleUp, ScaledPool, Models
      <4> QED
        BY <2>3, <4>2, <4>3, <4>4, <4>5, ModelCases
    <3>3. UNCHANGED config
      BY <3>1, ConfigCases DEF Edit
    <3>4. UNCHANGED state
      BY <1>4, <3>1, StateCases DEF DeleteStep, ForgetStep, Finish, Return
    <3>5. azure'.masters = azure.masters
      BY <1>2, <3>1, MastersCases, StateCases DEF DeleteStep, CreateStep
    <3> QED
      BY <1>0, <3>1, <3>2, <3>3, <3>4, <3>5 DEF MastersNear
  <2> QED
    BY <2>1, <2>2, <2>3
<1>5. ASSUME running' # None
      PROVE  \A m \in azure'.masters : running'.version <= m
  <2>1. CASE UNCHANGED running
    <3>1. /\ \A m \in azure.masters : running.version <= m
          /\ running.version \in Int
      BY <1>0, <1>5, <2>1 DEF MastersNear, TypeOK, Deployments, Versions
    <3>2. state # NoState
      BY <1>5, <2>1 DEF TypeInv, Populated
    <3>3. \A m \in azure'.masters : \E old \in azure.masters : old <= m
      <4>1. CASE azure'.masters = azure.masters
        BY <1>1, <4>1
      <4>2. CASE azure'.masters \subseteq azure.masters \cup {config.version} /\ (Upgrade \/ UpgradeFails)
        BY <1>1, <1>2, <4>2
      <4> QED
        BY <1>5, <3>2, <4>1, <4>2, <2>1, MastersCases DEF DeleteStep
    <3> QED
      BY <1>1, <2>1, <3>1, <3>3, <1>0, TypeOK' DEF TypeOK, Clusters, Versions
  <2>2. ASSUME NEW p \in Pools, ScaleUpFails(p),
               running' = [pool |-> p, size |-> config.counts[p], version |-> model.version]
        PROVE  \A m \in azure'.masters : running'.version <= m
    <3>1. pc = "scale"
      BY <2>2 DEF ScaleUpFails, Deploys, Scaling
    <3>2. \A m \in azure.masters : model.version <= m
      BY <1>0, <3>1 DEF MastersNear
    <3>3. azure'.masters = azure.masters
      BY <1>2, <3>1, MastersCases DEF DeleteStep, CreateStep
    <3> QED
      BY <2>2, <3>2, <3>3
  <2> QED
    BY <1>5, <2>1, <2>2, RunningCases
<1> QED
  BY <1>3, <1>4, <1>5 DEF MastersNear

LEMMA TypeStep ==
  ASSUME TypeInv, [Next]_vars
  PROVE  TypeInv'
<1>1. TypeOK' /\ Applying'
  BY TypeOKStep, ApplyingStep
<1>2. Populated'
  BY <1>1, PopulatedStep
<1>3. MastersNear'
  BY <1>1, <1>2, MastersNearStep
<1> QED
  BY <1>1, <1>2, <1>3, ClusterStep DEF TypeInv

LEMMA TypeInvariant == Spec => []TypeInv
<1>1. TypeInv /\ [Next]_vars => TypeInv'
  BY TypeStep
<1> QED
  BY <1>1, InitTypeInv, PTL DEF Spec

\* Every variable keeps its type, whatever fails and whatever the configuration
\* is changed to; in particular the sizes of the pools stay below the bound of
\* Clusters, and Update has a state and a configuration to work on.
THEOREM TypeCorrect == Spec => []TypeOK
<1>1. TypeInv => TypeOK
  BY DEF TypeInv
<1> QED
  BY <1>1, TypeInvariant, PTL

-----------------------------------------------------------------------------
(* The versions of the nodes. *)

\* The masters before an upgrade, and those after any other step, are not newer
\* than those it leaves.
LEMMA MastersGrow ==
  ASSUME TypeInv, [Next]_vars, ~DeleteStep, ~CreateStep, NEW new \in azure'.masters
  PROVE  \E old \in azure.masters : old <= new
<1>1. \A m \in azure.masters : m \in Int
  BY DEF TypeInv, TypeOK, Clusters, Versions
<1>2. CASE azure'.masters = azure.masters
  BY <1>1, <1>2
<1>3. CASE (Upgrade \/ UpgradeFails) /\ azure'.masters \subseteq azure.masters \cup {config.version}
  <2>1. pc = "upgrade" /\ azure.deployed /\ config.version # state.version /\ VersionAllowed
    BY <1>3 DEF Upgrade, UpgradeFails
  <2>2. /\ \E m \in azure.masters : TRUE
        /\ \A m \in azure.masters : m \in {config.version - 1, config.version}
        /\ config.version \in Int
    BY <2>1, BeforeUpgrade DEF Versions
  <2> QED
    BY <1>1, <1>3, <2>2
<1> QED
  BY <1>2, <1>3, MastersCases

\* No update puts a master of an older version among its masters: the version of
\* the api_model is that of the masters or the one before, and an upgrade goes one
\* version further than the api_model.
THEOREM ForwardOnly == Spec => MastersOnlyForward
<1>1. ASSUME TypeInv, [Next]_vars, state # NoState, state' # NoState, NEW new \in azure'.masters
      PROVE  \E old \in azure.masters : old <= new
  <2>1. CASE DeleteStep
    BY <1>1, <2>1, NothingType DEF DeleteStep, TypeInv
  <2>2. CASE ~DeleteStep
    BY <1>1, <2>2, MastersGrow DEF CreateStep, TypeInv, Applying
  <2> QED
    BY <2>1, <2>2
<1>2. TypeInv /\ [Next]_vars =>
        [(state # NoState /\ state' # NoState) =>
           \A new \in azure'.masters : \E old \in azure.masters : old <= new]_vars
  BY <1>1
<1> QED
  BY <1>2, TypeInvariant, PTL DEF Spec, MastersOnlyForward

LEMMA AsRecordedStep ==
  ASSUME TypeInv, AsRecorded, [Next]_vars
  PROVE  AsRecorded'
<1>0. TypeOK /\ Applying /\ TypeOK'
  BY TypeOKStep DEF TypeInv
<1>1. SUFFICES ASSUME faults' = 0 PROVE AsRecorded'
  BY DEF AsRecorded
<1>2. /\ faults = 0 /\ ~Fault /\ running = None
      /\ state # NoState => /\ azure.deployed
                            /\ azure.scaleSets => \A p \in DOMAIN Recorded :
                                                    azure.agents[p].size = Recorded[p]
  <2>1. faults = 0 /\ ~Fault
    BY <1>0, <1>1, FaultsGrow, Numbers DEF TypeOK, Fault
  <2> QED
    BY <2>1 DEF AsRecorded
<1>3. Edit \/ Apply \/ UNCHANGED vars
  BY <1>2 DEF Next, DeploymentEnds, Failures, RefreshFails, CreateFails, CreateUnread, DeleteFails,
              UpgradeFails, ScaleUpFails, ScaleDownFails, UpdateTagsFails, TagsDropped, UpdateFails, Dies
<1>4. running' = None
  BY <1>2, RunningCases DEF ScaleUpFails
<1>5. SUFFICES ASSUME state' # NoState
               PROVE  /\ azure'.deployed
                      /\ azure'.scaleSets => \A p \in DOMAIN Recorded' :
                                               azure'.agents[p].size = Recorded'[p]
  BY <1>4 DEF AsRecorded
<1>6. CASE UNCHANGED vars \/ Edit \/ VersionUnchanged \/ CountUnchanged \/ PoolsScaled \/ TagsUnchanged
  <2>1. UNCHANGED <<state, azure, model>> /\ Recorded' = Recorded
    BY <1>6 DEF vars, update, Edit, VersionUnchanged, CountUnchanged, PoolsScaled, TagsUnchanged,
                Recorded, Updating
  <2> QED
    BY <1>2, <1>5, <2>1
<1>7. CASE PlanCreate \/ PlanDelete \/ PlanUpdate \/ PlanNothing
  <2>1. /\ azure' = azure /\ ~Updating
        /\ state # NoState /\ (state' = state \/ state' = Refreshed)
        /\ Updating' => model' = state.api_model
    BY <1>5, <1>7 DEF PlanCreate, PlanDelete, PlanUpdate, PlanNothing, Starts, Return, Updating
  <2>2. state'.api_model = state.api_model
    BY <2>1, ApplyTypes
  <2>3. Recorded' = Recorded
    BY <2>1, <2>2 DEF Recorded
  <2> QED
    BY <1>2, <2>1, <2>3
<1>8. CASE Create
  <2>1. config \in Configs /\ config \in Models /\ azure' = ClusterOf(config)
        /\ state' = ReadFrom(config, FALSE) /\ ~Updating'
    BY <1>8, ApplyTypes DEF Create, Return, Updating
  <2>2. Recorded' = config.counts /\ DOMAIN config.counts = Pools
    BY <2>1, ReadType, ConfigType DEF Recorded
  <2> QED
    BY <1>0, <2>1, <2>2, ClusterOfType
<1>9. CASE Delete
  BY <1>5, <1>9 DEF Delete
<1>10. CASE VersionRefused
  <2>1. /\ Updating /\ model = state.api_model /\ state # NoState /\ azure' = azure /\ ~Updating'
        /\ state' = PartialState
    BY <1>0, <1>10 DEF VersionRefused, UpdateError, Return, Updating, Applying
  <2>2. Recorded' = Recorded
    BY <2>1, ApplyTypes DEF Recorded
  <2> QED
    BY <1>2, <2>1, <2>2
<1>11. CASE Upgrade
  <2>1. /\ Updating /\ Updating' /\ state # NoState
        /\ model' = [model EXCEPT !.version = config.version] /\ model \in Models
    BY <1>0, <1>11 DEF Upgrade, Updating, Applying, TypeOK
  <2>2. Recorded' = model.counts /\ Recorded = model.counts
    BY <2>1 DEF Recorded, Models
  <2>3. PICK visited \in PoolsVisited(Attempt, Pools, PoolsBehind) :
          \A p \in Pools : IF p \in visited THEN azure'.agents[p] \in AgentsUpgraded(p)
                           ELSE azure'.agents[p] = azure.agents[p]
    BY <1>11, UpgradeEffect
  <2>4. /\ azure'.deployed = azure.deployed /\ azure'.scaleSets = azure.scaleSets
        /\ \A p \in Pools : model.counts[p] \in 1 .. MaxCount
    BY <1>11, UpgradeEffect, BeforeUpgrade DEF Upgrade
  <2>5. DOMAIN model.counts \subseteq Pools
    BY <2>1, Numbers DEF Models, CountLists, Pools
  <2>6. ASSUME azure.scaleSets, NEW p \in DOMAIN model.counts
        PROVE  azure'.agents[p].size = model.counts[p]
    <3>1. p \in Pools /\ azure.agents[p].size = model.counts[p]
      BY <1>2, <2>1, <2>2, <2>5, <2>6
    <3> QED
      BY <1>0, <2>3, <2>4, <2>6, <3>1, UpgradedPool
  <2> QED
    BY <1>2, <2>1, <2>2, <2>4, <2>6
<1>12. CASE \E p \in Pools : ScaleIndexPanics(p)
  BY <1>5, <1>12 DEF ScaleIndexPanics
<1>13. ASSUME NEW p \in Pools, AtDesiredCount(p) \/ ScaleDown(p)
       PROVE  azure'.deployed /\ ~azure'.scaleSets
  <2>1. CASE azure' = azure
    BY <1>13, <2>1 DEF AtDesiredCount, ScaleDown, Reaches
  <2>2. CASE ScaleDown(p)
    <3>1. ResizeStep
      BY <2>2, Resizing
    <3>2. PICK q \in Pools, agents \in PoolStates : azure' = WithPool(q, agents)
      BY <1>0, <3>1, ResizeEffect
    <3> QED
      BY <1>0, <2>2, <3>2, PoolType DEF ScaleDown, Reaches
  <2> QED
    BY <1>13, <2>1, <2>2 DEF AtDesiredCount
<1>14. ASSUME NEW p \in Pools, ScaleUp(p)
       PROVE  /\ azure'.deployed
              /\ azure'.scaleSets => \A q \in DOMAIN Recorded' :
                                       azure'.agents[q].size = Recorded'[q]
  <2>1. p \in DOMAIN ScaledPool(p) /\ model' = [model EXCEPT !.counts = ScaledPool(p)]
        /\ pc' = pc /\ Updating
    BY <1>5, <1>14 DEF ScaleUp, Deploys, Scaling, Updating
  <2>2. Recorded' = ScaledPool(p) /\ DOMAIN ScaledPool(p) = {p} /\ ScaledPool(p)[p] = config.counts[p]
    BY <1>0, <2>1 DEF Recorded, Updating, TypeOK, Models, ScaledPool
  <2>3. PICK agents \in Resized(p, config.counts[p], model.version) : azure' = WithPool(p, agents)
    BY <1>14 DEF ScaleUp, WithPool
  <2>4. config.counts[p] \in 0 .. MaxSize /\ model.version \in Versions
    <3>1. config.counts[p] \in 1 .. MaxCount
      BY <2>1, ApplyTypes, ConfigType
    <3> QED
      BY <1>0, <3>1, Numbers DEF MaxSize, TypeOK, Models
  <2>5. agents \in PoolStates /\ agents.size = config.counts[p]
    BY <1>0, <2>4, ResizedType
  <2>6. azure'.deployed = azure.deployed /\ azure'.agents[p].size = config.counts[p] /\ azure.deployed
    <3>1. azure'.agents = [azure.agents EXCEPT ![p] = agents] /\ azure'.deployed = azure.deployed
      BY <1>0, <2>3, <2>5, PoolType
    <3>2. azure'.agents[p] = agents
      BY <1>0, <3>1 DEF TypeOK, Clusters
    <3> QED
      BY <1>14, <2>5, <3>1, <3>2 DEF ScaleUp, Deploys, Reaches
  <2> QED
    BY <2>2, <2>6
<1>15. CASE ClusterGone
  <2>1. Updating /\ ~azure.deployed
    BY <1>15 DEF ClusterGone, Scaling, Updating
  <2> QED
    BY <1>0, <1>2, <2>1 DEF Applying
<1>16. CASE UpdateTags
  <2>1. /\ azure' = WithTags(config.tags) /\ config.tags \in Tags /\ state # NoState
        /\ model' = [model EXCEPT !.tags = config.tags] /\ model \in Models /\ Updating /\ Updating'
    BY <1>0, <1>16, ApplyTypes, ConfigType DEF UpdateTags, WithTags, Updating, Applying, TypeOK
  <2>2. Recorded' = Recorded
    BY <2>1 DEF Recorded, Models
  <2> QED
    BY <1>0, <1>2, <2>1, <2>2, TagsType
<1>17. CASE Finish
  <2>1. /\ state' = ReadFrom(model, FALSE) /\ model \in Models /\ azure' = azure
        /\ Updating /\ ~Updating' /\ state # NoState
    BY <1>0, <1>17 DEF Finish, Return, Updating, Applying, TypeOK
  <2>2. Recorded' = Recorded
    BY <2>1, ReadType DEF Recorded
  <2> QED
    BY <1>2, <2>1, <2>2
<1> QED
  BY <1>3, <1>6, <1>7, <1>8, <1>9, <1>10, <1>11, <1>12, <1>13, <1>14, <1>15, <1>16, <1>17 DEF Apply

LEMMA NoSkewStep ==
  ASSUME TypeInv, AsRecorded, NoSkew, [Next]_vars
  PROVE  NoSkew'
<1>0. /\ TypeOK /\ Applying /\ Populated /\ MastersNear
      /\ faults \in Nat /\ faults' \in Nat /\ faults <= faults'
  BY FaultsGrow, Numbers DEF TypeInv, TypeOK
<1>1. /\ \A m \in azure.masters : m \in Int
      /\ \A p \in Pools : azure.agents[p].versions \subseteq Int
  BY <1>0 DEF TypeOK, Clusters, Versions
<1>2. \A p \in Pools, m \in azure.masters : \A agent \in azure.agents[p].versions :
        agent <= m \/ (azure.scaleSets /\ faults' > 1)
  BY <1>0 DEF NoSkew
\* The rest goes by what the step does to the resource group.
<1>3. SUFFICES /\ azure'.scaleSets = azure.scaleSets
               /\ \A p \in Pools, new \in azure'.masters : \A agent \in azure'.agents[p].versions :
                    \/ agent <= new
                    \/ azure.scaleSets /\ faults' > 1
  BY DEF NoSkew
<1>4. CASE azure' = azure
  BY <1>2, <1>4
<1>5. CASE TagsStep
  BY <1>0, <1>2, <1>5, TagsType DEF TagsStep
<1>6. CASE CreateStep
  <2>1. config \in Configs /\ config.version \in Int
    BY <1>6, ApplyTypes, ConfigType DEF CreateStep, Versions
  <2>2. /\ azure'.masters = {config.version} /\ azure'.scaleSets = azure.scaleSets
        /\ \A p \in Pools : azure'.agents[p].versions = {config.version}
    BY <1>0, <1>6, <2>1, ClusterOfType DEF CreateStep
  <2> QED
    BY <2>1, <2>2
<1>7. CASE DeleteStep
  BY <1>0, <1>7, NothingType DEF DeleteStep
<1>8. ASSUME Upgrade \/ UpgradeFails
      PROVE  /\ config \in Configs /\ config.version \in Int /\ azure'.scaleSets = azure.scaleSets
             /\ \A p \in Pools : model.counts[p] \in 1 .. MaxCount
             /\ \A p \in Pools : \A agent \in azure.agents[p].versions :
                  agent <= config.version \/ (azure.scaleSets /\ faults' > 1)
  <2>1. pc = "upgrade" /\ azure.deployed /\ config.version # state.version /\ VersionAllowed
    BY <1>8 DEF Upgrade, UpgradeFails
  <2>2. /\ \A p \in Pools : model.counts[p] \in 1 .. MaxCount
        /\ \E m \in azure.masters : TRUE
        /\ \A m \in azure.masters : m \in {config.version - 1, config.version}
        /\ config \in Configs /\ config.version \in Int
    BY <2>1, BeforeUpgrade DEF Versions
  <2>3. PICK m \in azure.masters : m <= config.version
    BY <2>2
  <2>4. ASSUME NEW p \in Pools, NEW agent \in azure.agents[p].versions
        PROVE  agent <= config.version \/ (azure.scaleSets /\ faults' > 1)
    BY <1>1, <1>2, <2>2, <2>3
  <2>5. azure'.scaleSets = azure.scaleSets
    BY <1>8, UpgradeEffect, UpgradeFailsEffect
  <2> QED
    BY <2>2, <2>4, <2>5
<1>9. CASE Upgrade
  <2>1. PICK visited \in PoolsVisited(Attempt, Pools, PoolsBehind) :
          \A p \in Pools : IF p \in visited THEN azure'.agents[p] \in AgentsUpgraded(p)
                           ELSE azure'.agents[p] = azure.agents[p]
    BY <1>9, UpgradeEffect
  <2>2. azure'.masters = {config.version}
    BY <1>9, UpgradeEffect
  <2>3. ASSUME NEW p \in Pools, NEW agent \in azure'.agents[p].versions
        PROVE  agent <= config.version \/ (azure.scaleSets /\ faults' > 1)
    <3>1. CASE p \in visited
      BY <1>0, <1>8, <1>9, <2>1, <2>3, <3>1, UpgradedPool
    <3>2. CASE p \notin visited
      BY <1>8, <1>9, <2>1, <2>3, <3>2
    <3> QED
      BY <3>1, <3>2
  <2> QED
    BY <1>8, <1>9, <2>2, <2>3
<1>10. CASE UpgradeFails
  <2>1. CASE /\ azure'.masters \in {azure.masters, azure.masters \cup {config.version}}
             /\ \A p \in Pools : azure'.agents[p] \in AgentsDuringMasters(p)
    <3>1. ASSUME NEW p \in Pools, ~azure.scaleSets \/ azure.agents[p].size = model.counts[p]
          PROVE  azure'.agents[p].versions \subseteq azure.agents[p].versions
      BY <1>0, <1>8, <1>10, <2>1, <3>1, PoolDuringMasters
    <3>2. ASSUME NEW p \in Pools, azure.scaleSets, azure.agents[p].size # model.counts[p]
          PROVE  faults' > 1
      <4>1. Updating /\ state # NoState /\ faults' = faults + 1
        BY <1>0, <1>10 DEF UpgradeFails, Fault, Updating, Applying
      <4>2. Recorded = model.counts
        BY <4>1 DEF Recorded
      <4>3. p \in DOMAIN model.counts
        <5>1. model = state.api_model /\ state = ReadFrom(state.api_model, FALSE)
              /\ state.counts \in [Pools -> 1 .. MaxCount] /\ state.api_model \in Models
          BY <1>0, <1>10, <4>1, ApplyTypes DEF UpgradeFails, Applying
        <5>2. ReadFrom(state.api_model, FALSE).counts = state.api_model.counts
          BY <5>1, ReadType
        <5> QED
          BY <5>1, <5>2
      <4>4. faults # 0
        BY <3>2, <4>1, <4>2, <4>3 DEF AsRecorded
      <4> QED
        BY <1>0, <4>1, <4>4
    <3>3. ASSUME NEW p \in Pools, NEW new \in azure'.masters, NEW agent \in azure'.agents[p].versions
          PROVE  agent <= new \/ (azure.scaleSets /\ faults' > 1)
      <4>1. CASE agent \in azure.agents[p].versions
        BY <1>2, <1>8, <1>10, <2>1, <3>3, <4>1
      <4>2. CASE agent \notin azure.agents[p].versions
        BY <3>1, <3>2, <3>3, <4>2
      <4> QED
        BY <4>1, <4>2
    <3> QED
      BY <1>8, <1>10, <3>3
  <2>2. CASE /\ azure'.masters = {config.version}
             /\ \A p \in Pools :
                  azure'.agents[p] \in AgentsInterrupted(p) \cup AgentsDuringMasters(p)
    <3>1. ASSUME NEW p \in Pools
          PROVE  azure'.agents[p].versions \subseteq azure.agents[p].versions \cup {config.version}
      BY <1>0, <1>8, <1>10, <2>2, InterruptedPool, PoolDuringMasters
    <3> QED
      BY <1>8, <1>10, <2>2, <3>1
  <2> QED
    BY <1>10, <2>1, <2>2, UpgradeFailsEffect
<1>11. CASE ResizeStep
  <2>1. PICK p \in Pools, version \in Versions, agents \in PoolStates :
           /\ agents.versions \subseteq azure.agents[p].versions \cup {version}
           /\ \/ pc = "scale" /\ version = model.version
              \/ running # None /\ version = running.version
           /\ azure' = WithPool(p, agents)
    BY <1>0, <1>11, ResizeEffect
  <2>2. \A m \in azure.masters : version <= m
    BY <1>0, <2>1 DEF MastersNear
  <2>3. /\ azure'.masters = azure.masters /\ azure'.scaleSets = azure.scaleSets
        /\ azure'.agents = [azure.agents EXCEPT ![p] = agents]
    BY <1>0, <2>1, PoolType
  <2>4. \A q \in Pools : azure'.agents[q].versions \subseteq azure.agents[q].versions \cup {version}
    BY <1>0, <2>1, <2>3 DEF TypeOK, Clusters
  <2> QED
    BY <1>2, <2>2, <2>3, <2>4
<1> QED
  BY <1>4, <1>5, <1>6, <1>7, <1>9, <1>10, <1>11, AzureCases

LEMMA InitSkew == Init => AsRecorded /\ NoSkew
  BY DEF Init, AsRecorded, NoSkew, NoAgents

LEMMA SkewInvariant == Spec => []GInv
<1>1. Init => GInv
  BY InitTypeInv, InitSkew DEF GInv
<1>2. GInv /\ [Next]_vars => GInv'
  BY TypeStep, AsRecordedStep, NoSkewStep DEF GInv
<1> QED
  BY <1>1, <1>2, PTL DEF Spec

\* No agent is newer than a master, but for a scale set after two failures:
\* whatever the user applies, wherever it stops, and for any number of pools.  New
\* agents have the version of the api_model the update goes by, which is one of
\* the masters'; those of the new version wait for the last master.
THEOREM SkewFree == Spec => []NoSkew
<1>1. GInv => NoSkew
  BY DEF GInv
<1> QED
  BY <1>1, SkewInvariant, PTL

-----------------------------------------------------------------------------
(* One pool, and a user who repeats an apply.                               *)

Nodes == azure.masters \cup UNION {azure.agents[p].versions : p \in Pools}

\* What is left when the user repeats every failed apply, and then changes the
\* version by one at most: the configuration's version is the recorded one or the
\* next, and nodes and tags are of what is recorded or of what is configured.
Aim ==
  /\ state # NoState => \A v \in Nodes : v >= state.api_model.version
  /\ config # Absent /\ state # NoState =>
       /\ config.version \in {state.api_model.version, state.api_model.version + 1}
       /\ Nodes \subseteq {state.api_model.version, config.version}
       /\ azure.tags \in {state.api_model.tags, config.tags, NoTags}
       /\ ~state.tainted => azure.deployed
  /\ outcome = "ok" /\ config = Absent => state = NoState
  /\ outcome = "ok" /\ config # Absent =>
       /\ state # NoState /\ ~state.tainted
       /\ state.api_model.version = config.version
       /\ state.api_model.tags = config.tags

\* How an update gets there.
Course ==
  /\ pc # "idle" => running = None
  /\ running # None =>
       /\ outcome = "error" /\ config # Absent
       /\ running.version = config.version
       /\ running.size = config.counts[running.pool]
  /\ pc = "delete" => config = Absent \/ state.tainted
  /\ pc = "upgrade" => pool = 1
  /\ pc \in {"upgrade", "scale", "tags"} =>
       "tags" \notin partial /\ model.tags = state.api_model.tags
  /\ pc \in {"scale", "tags", "finish"} => Nodes \subseteq {config.version}
  /\ pc = "finish" => azure.tags \in {config.tags, NoTags} /\ model.tags = config.tags
  /\ "tags" \in partial => azure.tags # NoTags

\* A scale set has as many machines as are recorded or as many as are configured.
Sets ==
  azure.scaleSets =>
    /\ config # Absent /\ state # NoState /\ ~state.tainted =>
         \A p \in Pools :
           azure.agents[p].size >= Smaller(state.api_model.counts[p], config.counts[p])
    /\ pc = "scale" /\ pool = 1 => model.counts = state.counts
    /\ (pc = "scale" /\ pool # 1) \/ pc \in {"tags", "finish"} =>
         /\ model.counts = config.counts
         /\ \A p \in Pools : azure.agents[p].size >= config.counts[p]
    /\ outcome = "ok" /\ config # Absent => state = ReadFrom(config, FALSE)

CInv == TypeInv /\ Aim /\ Course /\ Sets

-----------------------------------------------------------------------------
(* A single pool. *)

LEMMA OnePool ==
  ASSUME NumPools = 1
  PROVE  Pools = {1} /\ CountLists = [Pools -> 1 .. MaxCount]
<1>1. 1 .. 1 = {1}
  OBVIOUS
<1> QED
  BY <1>1 DEF Pools, CountLists

\* With a single pool, no error of Read, Update or Delete makes terraform forget a
\* cluster that is still there: only a deletion that has succeeded removes the
\* state.  (With more, saveScaledApimodel panics and the state is lost.)
THEOREM Remembered ==
  ASSUME NumPools = 1
  PROVE  Spec => NeverForgotten
<1>1. ASSUME TypeInv, [Next]_vars, state # NoState, state' = NoState
      PROVE  ~azure'.deployed
  <2>1. ~ForgetStep
    BY OnePool DEF ForgetStep
  <2>2. ~(CreateStep /\ \E tainted \in BOOLEAN : state' = ReadFrom(config, tainted))
    BY <1>1 DEF CreateStep, TypeInv, Applying
  <2>3. ~Finish
    <3>1. model \in Models
      BY <1>1 DEF TypeInv, TypeOK
    <3> QED
      BY <1>1, <3>1, ReadType, ApartAssumption DEF Finish
  <2>4. ~(Updating /\ state' = PartialState) /\ ~(state' = Refreshed)
    BY <1>1, ApplyTypes, ApartAssumption
  <2>5. DeleteStep
    BY <1>1, <2>1, <2>2, <2>3, <2>4, StateCases
  <2> QED
    BY <1>1, <2>5, NothingType DEF DeleteStep, TypeInv
<1>2. TypeInv /\ [Next]_vars =>
        [(state # NoState /\ state' = NoState) => ~azure'.deployed]_vars
  BY <1>1
<1> QED
  BY <1>2, TypeInvariant, PTL DEF Spec, NeverForgotten

LEMMA DeletesOnly ==
  ASSUME NumPools = 1, TypeInv, [Next]_vars, pc = "idle", pc' = "delete"
  PROVE  /\ state # NoState /\ (config = Absent \/ state.tainted)
         /\ UNCHANGED <<config, azure>>
         /\ state'.tainted = state.tainted
<1>1. PlanDelete
  BY PcCases DEF Edit, PlanCreate, PlanUpdate, Delete, Upgrade, VersionUnchanged, PoolsScaled,
                 UpdateTags, TagsUnchanged
<1>2. state # NoState /\ ~InPlace /\ state' = Refreshed /\ UNCHANGED <<config, azure>>
  BY <1>1 DEF PlanDelete, Starts
<1>3. config # Absent => DOMAIN Refreshed.counts = DOMAIN config.counts
  <2>1. /\ Refreshed.counts = state.api_model.counts /\ state.api_model \in Models
        /\ config # Absent => config \in Configs
    BY <1>2, ApplyTypes DEF TypeInv, TypeOK
  <2>2. DOMAIN Refreshed.counts = Pools
    BY <2>1, OnePool DEF Models
  <2> QED
    BY <2>1, <2>2, ConfigType
<1> QED
  BY <1>2, <1>3, ApplyTypes DEF InPlace

\* With a single pool, a change of the version, the counts or the tags never
\* deletes the cluster: the api_model lists the pool, as the configuration does.
\* (With more, one that scaleUpCluster has left out forces a new resource.)
THEOREM Updated ==
  ASSUME NumPools = 1
  PROVE  Spec => UpdatedInPlace
<1>1. TypeInv /\ [Next]_vars =>
        [(pc = "idle" /\ pc' = "delete") => (config = Absent \/ state.tainted)]_vars
  BY DeletesOnly
<1> QED
  BY <1>1, TypeInvariant, PTL DEF Spec, UpdatedInPlace

-----------------------------------------------------------------------------
(* A user who repeats what has failed. *)

\* What a step can do to the nodes.
LEMMA NodesCases ==
  ASSUME TypeInv, [Next]_vars
  PROVE  \/ Nodes' \subseteq Nodes
         \/ CreateStep /\ config \in Configs /\ Nodes' \subseteq {config.version}
         \/ (Upgrade \/ UpgradeFails) /\ Nodes' \subseteq Nodes \cup {config.version}
         \/ pc = "scale" /\ Nodes' \subseteq Nodes \cup {model.version}
         \/ running # None /\ Nodes' \subseteq Nodes \cup {running.version}
<1>0. TypeOK
  BY DEF TypeInv
<1>1. CASE azure' = azure
  BY <1>1 DEF Nodes
<1>2. CASE TagsStep
  BY <1>0, <1>2, TagsType DEF TagsStep, Nodes
<1>3. CASE CreateStep
  <2>1. config \in Configs
    BY <1>3, ApplyTypes DEF CreateStep
  <2> QED
    BY <1>0, <1>3, <2>1, ClusterOfType DEF CreateStep, Nodes
<1>4. CASE DeleteStep
  BY <1>0, <1>4, NothingType DEF DeleteStep, Nodes, NoAgents
<1>5. CASE Upgrade
  <2>1. PICK visited \in PoolsVisited(Attempt, Pools, PoolsBehind) :
          \A p \in Pools : IF p \in visited THEN azure'.agents[p] \in AgentsUpgraded(p)
                           ELSE azure'.agents[p] = azure.agents[p]
    BY <1>5, UpgradeEffect
  <2>2. /\ azure'.masters = {config.version}
        /\ \A p \in Pools : model.counts[p] \in 1 .. MaxCount
    BY <1>5, UpgradeEffect, BeforeUpgrade DEF Upgrade
  <2>3. \A p \in Pools : azure'.agents[p].versions \subseteq azure.agents[p].versions \cup {config.version}
    <3> TAKE p \in Pools
    <3>1. CASE p \in visited
      BY <1>0, <2>1, <2>2, <3>1, UpgradedPool
    <3>2. CASE p \notin visited
      BY <2>1, <3>2
    <3> QED
      BY <3>1, <3>2
  <2> QED
    BY <1>5, <2>2, <2>3 DEF Nodes
<1>6. CASE UpgradeFails
  <2>1. /\ azure'.masters \subseteq azure.masters \cup {config.version}
        /\ \A p \in Pools : azure'.agents[p] \in AgentsInterrupted(p) \cup AgentsDuringMasters(p)
    BY <1>6, UpgradeFailsEffect
  <2>2. config \in Configs /\ \A p \in Pools : model.counts[p] \in 1 .. MaxCount
    BY <1>6, BeforeUpgrade DEF UpgradeFails
  <2>3. \A p \in Pools : azure'.agents[p].versions \subseteq azure.agents[p].versions \cup {config.version}
    BY <1>0, <2>1, <2>2, InterruptedPool, PoolDuringMasters
  <2> QED
    BY <1>6, <2>1, <2>3 DEF Nodes
<1>7. CASE ResizeStep
  <2>1. PICK p \in Pools, version \in Versions, agents \in PoolStates :
           /\ agents.versions \subseteq azure.agents[p].versions \cup {version}
           /\ \/ pc = "scale" /\ version = model.version
              \/ running # None /\ version = running.version
           /\ azure' = WithPool(p, agents)
    BY <1>0, <1>7, ResizeEffect
  <2>2. azure'.masters = azure.masters /\ azure'.agents = [azure.agents EXCEPT ![p] = agents]
    BY <1>0, <2>1, PoolType
  <2>3. \A q \in Pools : azure'.agents[q].versions \subseteq azure.agents[q].versions \cup {version}
    BY <1>0, <2>1, <2>2 DEF TypeOK, Clusters
  <2>4. Nodes' \subseteq Nodes \cup {version}
    BY <2>2, <2>3 DEF Nodes
  <2> QED
    BY <2>1, <2>4
<1> QED
  BY <1>1, <1>2, <1>3, <1>4, <1>5, <1>6, <1>7, AzureCases

\* What it can do to the rest of the resource group.
LEMMA GroupCases ==
  ASSUME TypeInv, [Next]_vars
  PROVE  /\ \/ azure'.tags = azure.tags
            \/ pc \in {"create", "tags"} /\ azure'.tags = config.tags
            \/ pc \in {"upgrade", "scale"} /\ azure'.tags = NoTags
         /\ \/ azure'.deployed = azure.deployed
            \/ DeleteStep
            \/ CreateStep /\ azure'.deployed
         /\ azure'.scaleSets = azure.scaleSets
<1>0. TypeOK
  BY DEF TypeInv
<1>1. CASE azure' = azure
  BY <1>1
<1>2. CASE TagsStep
  BY <1>0, <1>2, TagsType DEF TagsStep
<1>3. CASE CreateStep
  BY <1>0, <1>3, ApplyTypes, ClusterOfType DEF CreateStep
<1>4. CASE DeleteStep
  BY <1>0, <1>4, NothingType DEF DeleteStep
<1>5. CASE Upgrade \/ UpgradeFails
  BY <1>5, UpgradeEffect, UpgradeFailsEffect
<1>6. CASE ResizeStep
  <2>1. PICK p \in Pools, agents \in PoolStates : azure' = WithPool(p, agents)
    BY <1>0, <1>6, ResizeEffect
  <2> QED
    BY <1>0, <2>1, PoolType
<1> QED
  BY <1>1, <1>2, <1>3, <1>4, <1>5, <1>6, AzureCases

\* An upgrade that ends without an error reaches the only pool.
LEMMA UpgradedNodes ==
  ASSUME NumPools = 1, TypeInv, Upgrade
  PROVE  Nodes' \subseteq {config.version}
<1>0. TypeOK
  BY DEF TypeInv
<1>1. PICK visited \in PoolsVisited(Attempt, Pools, PoolsBehind) :
        \A p \in Pools : IF p \in visited THEN azure'.agents[p] \in AgentsUpgraded(p)
                         ELSE azure'.agents[p] = azure.agents[p]
  BY UpgradeEffect
<1>2. visited = Pools
  <2>1. CASE Attempt.scaleSets \/ PoolsBehind = Pools
    BY <1>1, <2>1 DEF PoolsVisited
  <2>2. CASE ~(Attempt.scaleSets \/ PoolsBehind = Pools)
    <3>1. PoolsBehind = {}
      BY <2>2, OnePool DEF PoolsBehind
    <3>2. visited \in SUBSET Pools /\ Cardinality(visited \ PoolsBehind) = 1
      BY <1>1, <2>2 DEF PoolsVisited
    <3>3. visited # {}
      BY <3>1, <3>2, FS_EmptySet
    <3> QED
      BY <3>2, <3>3, OnePool
  <2> QED
    BY <2>1, <2>2
<1>3. /\ azure'.masters = {config.version}
      /\ \A p \in Pools : model.counts[p] \in 1 .. MaxCount
  BY UpgradeEffect, BeforeUpgrade DEF Upgrade
<1>4. \A p \in Pools : azure'.agents[p].versions = {config.version}
  BY <1>0, <1>1, <1>2, <1>3, UpgradedPool
<1> QED
  BY <1>3, <1>4 DEF Nodes

\* How an apply can have ended without an error.
LEMMA OkCases ==
  ASSUME TypeInv, [Next]_vars, outcome' = "ok"
  PROVE  \/ UNCHANGED vars
         \/ DeploymentEnds
         \/ PlanNothing
         \/ Create
         \/ Delete /\ config = Absent
         \/ Finish
<1>1. pc # "idle" => outcome # "ok"
  BY DEF TypeInv, Applying
<1>2. CASE Edit
  BY <1>2 DEF Edit
<1>3. CASE Apply
  <2>1. CASE \E p \in Pools : \/ ScaleIndexPanics(p) \/ AtDesiredCount(p)
                              \/ ScaleDown(p) \/ ScaleUp(p)
    BY <1>1, <2>1 DEF ScaleIndexPanics, AtDesiredCount, ScaleDown, ScaleUp, Deploys, Scaling, Return
  <2> QED
    BY <1>1, <1>3, <2>1 DEF Apply, PlanCreate, PlanDelete, PlanUpdate, Delete, VersionRefused,
              Upgrade, VersionUnchanged, CountUnchanged, ClusterGone, PoolsScaled, UpdateTags,
              TagsUnchanged, UpdateError, Return
<1>4. CASE Failures
  <2>1. CASE TagsDropped
    BY <1>1, <2>1 DEF TagsDropped, Scaling
  <2> QED
    BY <1>4, <2>1 DEF Failures, RefreshFails, CreateFails, CreateUnread, DeleteFails, UpgradeFails,
              ScaleUpFails, ScaleDownFails, UpdateTagsFails, UpdateFails, Dies, UpdateError, Return
<1> QED
  BY <1>2, <1>3, <1>4 DEF Next

\* Between two applies.
LEMMA IdleCases ==
  ASSUME [Next]_vars, pc = "idle"
  PROVE  \/ Edit
         \/ PlanCreate \/ PlanDelete \/ PlanUpdate \/ PlanNothing
         \/ RefreshFails
         \/ DeploymentEnds
         \/ UNCHANGED vars
<1>1. ~\E p \in Pools : \/ ScaleIndexPanics(p) \/ AtDesiredCount(p) \/ ScaleDown(p) \/ ScaleUp(p)
                        \/ ScaleUpFails(p) \/ ScaleDownFails(p)
  BY DEF ScaleIndexPanics, AtDesiredCount, ScaleDown, ScaleUp, ScaleUpFails, ScaleDownFails, Deploys, Scaling
<1>2. ~ClusterGone /\ ~TagsDropped
  BY DEF ClusterGone, TagsDropped, Scaling
<1> QED
  BY <1>1, <1>2 DEF Next, Apply, Failures, Create, Delete, VersionRefused, Upgrade, VersionUnchanged,
          CountUnchanged, PoolsScaled, UpdateTags, TagsUnchanged, Finish, CreateFails, CreateUnread,
          DeleteFails, UpgradeFails, UpdateTagsFails, UpdateFails, Dies

\* What TypeInv says of an update, in the words of Aim.
LEMMA UpdateFacts ==
  ASSUME TypeInv, Updating
  PROVE  /\ config \in Configs /\ config # Absent /\ config.version \in Int
         /\ state # NoState /\ state.tainted = FALSE
         /\ state.version = state.api_model.version
         /\ state.counts = state.api_model.counts
         /\ state.tags = state.api_model.tags
         /\ state.api_model.version \in Int
         /\ state.api_model.counts \in [Pools -> 1 .. MaxCount]
         /\ pc = "upgrade" => model = state.api_model
         /\ pc \in {"scale", "tags", "finish"} => model.version = config.version
         /\ model \in Models
<1>1. /\ state = ReadFrom(state.api_model, FALSE) /\ state # NoState /\ config # Absent
      /\ state.counts \in [Pools -> 1 .. MaxCount]
      /\ pc = "upgrade" => model = state.api_model
      /\ pc \in {"scale", "tags", "finish"} => model.version = config.version
      /\ config \in Configs /\ model \in Models
  BY DEF TypeInv, TypeOK, Applying, MastersNear
<1>2. state.api_model \in Models
  BY <1>1, ApplyTypes
<1>3. /\ ReadFrom(state.api_model, FALSE).version = state.api_model.version
      /\ ReadFrom(state.api_model, FALSE).counts = state.api_model.counts
      /\ ReadFrom(state.api_model, FALSE).tags = state.api_model.tags
      /\ ReadFrom(state.api_model, FALSE).tainted = FALSE
  BY <1>2, ReadType
<1>4. state.api_model.version \in Int /\ config.version \in Int
  BY <1>1, <1>2, ConfigType DEF Models, Versions
<1> QED
  BY <1>1, <1>3, <1>4

LEMMA CourseStep ==
  ASSUME NumPools = 1, Careful, TypeInv, Aim, Course, [Next]_vars, TypeInv'
  PROVE  Course'
<1>0. TypeOK /\ Applying /\ TypeOK' /\ Applying'
  BY DEF TypeInv
<1>1. pc' # "idle" => running' = None
  <2>1. CASE pc = "idle"
    BY <2>1, IdleCases DEF Edit, PlanCreate, PlanDelete, PlanUpdate, PlanNothing, Starts, Return,
                           RefreshFails, DeploymentEnds, vars
  <2>2. CASE pc # "idle"
    BY <2>2, RunningCases DEF Course, ScaleUpFails, UpdateError, Return
  <2> QED
    BY <2>1, <2>2
<1>2. ASSUME running' # None
      PROVE  /\ outcome' = "error" /\ config' # Absent
             /\ running'.version = config'.version
             /\ running'.size = config'.counts[running'.pool]
  <2>1. CASE UNCHANGED running
    <3>1. pc = "idle" /\ outcome = "error"
      BY <1>2, <2>1 DEF Course
    <3>2. UNCHANGED <<config, outcome>>
      BY <1>2, <2>1, <3>1, IdleCases
         DEF Edit, PlanCreate, PlanDelete, PlanUpdate, PlanNothing, Starts, RefreshFails, Return,
             DeploymentEnds, vars
    <3> QED
      BY <1>2, <2>1, <3>2 DEF Course
  <2>2. ASSUME NEW p \in Pools, ScaleUpFails(p),
               running' = [pool |-> p, size |-> config.counts[p], version |-> model.version]
        PROVE  /\ outcome' = "error" /\ config' # Absent
               /\ running'.version = config'.version
               /\ running'.size = config'.counts[running'.pool]
    <3>1. Updating /\ pc = "scale" /\ outcome' = "error" /\ config' = config
      BY <2>2 DEF ScaleUpFails, Deploys, Scaling, Updating, UpdateError, Return
    <3> QED
      BY <2>2, <3>1, UpdateFacts
  <2> QED
    BY <1>2, <2>1, <2>2, RunningCases
<1>3. ASSUME pc' = "delete"
      PROVE  config' = Absent \/ state'.tainted
  <2>1. CASE pc = "idle"
    BY <1>3, <2>1, DeletesOnly
  <2>2. CASE pc # "idle"
    <3>1. pc = "delete" /\ ~Delete
      BY <1>3, <2>2, PcCases DEF Edit, PlanCreate, PlanDelete, PlanUpdate, Starts, Delete, Return, Upgrade,
                     VersionUnchanged, PoolsScaled, UpdateTags, TagsUnchanged
    <3> QED
      BY <1>3, <2>2, <3>1, Steady DEF Course
  <2> QED
    BY <2>1, <2>2
<1>4. ASSUME pc' = "upgrade"
      PROVE  pool' = 1
  <2>1. PlanUpdate \/ pc = "upgrade"
    BY <1>4, PcCases DEF Edit, PlanCreate, PlanDelete, Delete, Return, Upgrade,
                     VersionUnchanged, PoolsScaled, UpdateTags, TagsUnchanged
  <2> QED
    BY <2>1, PartialPoolCases DEF Course, PlanUpdate
\* How an update goes on.
<1>5. ASSUME pc' \in {"upgrade", "scale", "tags", "finish"}, ~PlanUpdate
      PROVE  /\ Updating /\ config' = config /\ state' = state
             /\ running = None /\ running' = None
             /\ \/ pc = pc' \/ Upgrade \/ VersionUnchanged \/ PoolsScaled \/ UpdateTags \/ TagsUnchanged
  <2>1. pc = pc' \/ Upgrade \/ VersionUnchanged \/ PoolsScaled \/ UpdateTags \/ TagsUnchanged
    BY <1>5, PcCases DEF Edit, PlanCreate, PlanDelete, Delete, Return
  <2>2. Updating
    BY <1>5, <2>1 DEF Updating, Upgrade, VersionUnchanged, PoolsScaled, UpdateTags, TagsUnchanged
  <2>3. pc # "idle" /\ pc' # "idle" /\ ~Delete
    BY <1>5, <2>2 DEF Updating, Delete
  <2> QED
    BY <1>1, <2>1, <2>2, <2>3, Steady DEF Course
<1>6. ASSUME pc' \in {"upgrade", "scale", "tags"}
      PROVE  "tags" \notin partial' /\ model'.tags = state'.api_model.tags
  <2>1. CASE PlanUpdate
    BY <2>1, ApplyTypes DEF PlanUpdate
  <2>2. CASE ~PlanUpdate
    <3>1. pc \in {"upgrade", "scale", "tags"} /\ ~UpdateTags
      BY <1>5, <1>6, <2>2 DEF Upgrade, VersionUnchanged, PoolsScaled, UpdateTags, TagsUnchanged
    <3>2. "tags" \notin partial'
      BY <2>2, <3>1, PartialPoolCases DEF Course
    <3>3. model \in Models
      BY <1>0 DEF TypeOK
    <3>4. model'.tags = model.tags
      <4>1. CASE Upgrade
        BY <3>3, <4>1 DEF Upgrade, Models
      <4>2. ASSUME NEW p \in Pools, ScaleDown(p) PROVE model'.tags = model.tags
        BY <3>3, <4>2 DEF ScaleDown, Models
      <4>3. ASSUME NEW p \in Pools, ScaleUp(p), p = 1 PROVE model'.tags = model.tags
        BY <3>3, <4>3 DEF ScaleUp, ScaledPool, Models
      <4> QED
        BY <2>2, <3>1, <4>1, <4>2, <4>3, ModelCases
    <3> QED
      BY <1>5, <1>6, <2>2, <3>1, <3>2, <3>4 DEF Course
  <2> QED
    BY <2>1, <2>2
<1>7. ASSUME pc' \in {"scale", "tags", "finish"}
      PROVE  Nodes' \subseteq {config'.version}
  <2>0. ~PlanUpdate
    BY <1>7 DEF PlanUpdate
  <2>1. CASE Upgrade
    BY <1>5, <1>7, <2>0, <2>1, UpgradedNodes
  <2>2. CASE VersionUnchanged
    <3>1. config.version = state.version /\ azure' = azure
      BY <2>2 DEF VersionUnchanged
    <3>2. Nodes \subseteq {config.version}
      BY <1>5, <1>7, <2>0, <3>1, UpdateFacts DEF Aim
    <3> QED
      BY <1>5, <1>7, <2>0, <3>1, <3>2 DEF Nodes
  <2>3. CASE ~Upgrade /\ ~VersionUnchanged
    <3>1. pc \in {"scale", "tags", "finish"}
      BY <1>5, <1>7, <2>0, <2>3 DEF PoolsScaled, UpdateTags, TagsUnchanged
    <3>2. Nodes \subseteq {config.version} /\ model.version = config.version
      BY <1>5, <1>7, <2>0, <3>1, UpdateFacts DEF Course
    <3>3. Nodes' \subseteq Nodes \cup {config.version}
      BY <1>5, <1>7, <2>0, <2>3, <3>1, <3>2, NodesCases DEF CreateStep, UpgradeFails
    <3> QED
      BY <1>5, <1>7, <2>0, <3>2, <3>3
  <2> QED
    BY <2>1, <2>2, <2>3
<1>8. ASSUME pc' = "finish"
      PROVE  azure'.tags \in {config'.tags, NoTags} /\ model'.tags = config'.tags
  <2>0. ~PlanUpdate
    BY <1>8 DEF PlanUpdate
  <2>1. CASE UpdateTags
    <3>1. /\ azure' = WithTags(config.tags) /\ config.tags \in Tags
          /\ model' = [model EXCEPT !.tags = config.tags] /\ model \in Models
          /\ config' = config
      BY <1>5, <1>8, <2>0, <2>1, UpdateFacts, ConfigType DEF UpdateTags, WithTags
    <3>2. model'.tags = config.tags
      BY <3>1 DEF Models
    <3> QED
      BY <1>0, <3>1, <3>2, TagsType
  <2>2. CASE TagsUnchanged
    <3>1. /\ pc = "tags" /\ config.tags = state.tags /\ UNCHANGED <<azure, model, config>>
      BY <2>2 DEF TagsUnchanged, update
    <3>2. /\ config # Absent /\ state # NoState /\ state.tags = state.api_model.tags
      BY <1>5, <1>8, <2>0, UpdateFacts
    <3>3. model.tags = state.api_model.tags
      BY <3>1 DEF Course
    <3>4. azure.tags \in {state.api_model.tags, config.tags, NoTags}
      BY <3>2 DEF Aim
    <3> QED
      BY <3>1, <3>2, <3>3, <3>4
  <2>3. CASE ~UpdateTags /\ ~TagsUnchanged
    <3>1. pc = "finish"
      BY <1>5, <1>8, <2>0, <2>3 DEF Upgrade, VersionUnchanged, PoolsScaled
    <3>2. UNCHANGED model
      BY <2>3, <3>1, ModelCases DEF PlanUpdate, Starts, Upgrade, ScaleDown, ScaleUp, Deploys, Scaling
    <3>3. azure'.tags = azure.tags
      BY <3>1, GroupCases
    <3> QED
      BY <1>5, <1>8, <2>0, <3>1, <3>2, <3>3 DEF Course
  <2> QED
    BY <2>1, <2>2, <2>3
<1>9. ASSUME "tags" \in partial'
      PROVE  azure'.tags # NoTags
  <2>1. CASE UpdateTags
    <3>1. azure' = WithTags(config.tags) /\ pc = "tags"
      BY <2>1 DEF UpdateTags, WithTags
    <3>2. config.tags \in Tags
      BY <3>1, ApplyTypes, ConfigType DEF Updating
    <3>3. azure'.tags = config.tags
      BY <1>0, <3>1, <3>2, TagsType
    <3> QED
      BY <3>2, <3>3, ApartAssumption
  <2>2. CASE ~UpdateTags
    <3>1. "tags" \in partial
      BY <1>9, <2>2, PartialPoolCases
    <3>2. azure.tags # NoTags /\ pc \notin {"upgrade", "scale"}
      BY <3>1 DEF Course
    <3>3. pc \in {"create", "tags"} => config.tags \in Tags
      BY ApplyTypes, ConfigType DEF Updating
    <3> QED
      BY <3>2, <3>3, GroupCases, ApartAssumption
  <2> QED
    BY <2>1, <2>2
<1> QED
  BY <1>1, <1>2, <1>3, <1>4, <1>6, <1>7, <1>8, <1>9 DEF Course

\* A cluster that Create leaves, or Update, is the one configured.
LEMMA CreatedState ==
  ASSUME TypeInv, CreateStep, NEW tainted \in BOOLEAN, state' = ReadFrom(config, tainted)
  PROVE  /\ config \in Configs /\ state' \in States
         /\ state'.api_model = config /\ state'.tainted = tainted
<1>1. config \in Configs /\ config \in Models
  BY ApplyTypes DEF CreateStep
<1> QED
  BY <1>1, ReadType

LEMMA FinishedState ==
  ASSUME TypeInv, Course, Finish
  PROVE  /\ state'.api_model = model /\ state'.tainted = FALSE /\ model \in Models
         /\ config \in Configs /\ config' = config /\ azure' = azure
         /\ model.version = config.version /\ config.version \in Int
         /\ Nodes \subseteq {config.version}
         /\ azure.tags \in {config.tags, NoTags} /\ model.tags = config.tags
         /\ Updating
<1>1. pc = "finish" /\ state' = ReadFrom(model, FALSE) /\ config' = config /\ azure' = azure
  BY DEF Finish
<1>2. Updating
  BY <1>1 DEF Updating
<1>3. model \in Models /\ config \in Configs /\ model.version = config.version /\ config.version \in Int
  BY <1>1, <1>2, UpdateFacts
<1> QED
  BY <1>1, <1>2, <1>3, ReadType DEF Course

LEMMA AimStep ==
  ASSUME NumPools = 1, Careful, TypeInv, Aim, Course, [Next]_vars, TypeInv'
  PROVE  Aim'
<1>0. TypeOK /\ Applying
  BY DEF TypeInv
<1>1. ASSUME state' # NoState
      PROVE  \A v \in Nodes' : v >= state'.api_model.version
  <2>1. CASE CreateStep /\ \E tainted \in BOOLEAN : state' = ReadFrom(config, tainted)
    <3>1. state'.api_model = config /\ config \in Configs
      BY <2>1, CreatedState
    <3>2. config.version \in Int
      BY <3>1, ConfigType DEF Versions
    <3>3. Nodes' \subseteq {config.version}
      BY <1>0, <2>1, <3>1, ClusterOfType DEF CreateStep, Nodes
    <3> QED
      BY <3>1, <3>2, <3>3
  <2>2. CASE Finish
    <3>1. /\ state'.api_model = model /\ model.version = config.version /\ config.version \in Int
          /\ Nodes \subseteq {config.version} /\ azure' = azure
      BY <2>2, FinishedState
    <3> QED
      BY <3>1 DEF Nodes
  <2>3. CASE state # NoState /\ state'.api_model = state.api_model
    <3>1. state.api_model.version \in Int
      BY <2>3, ApplyTypes DEF Models, Versions
    <3>2. \A v \in Nodes : v >= state.api_model.version
      BY <2>3 DEF Aim
    <3>3. Upgrade \/ UpgradeFails => config.version = state.api_model.version + 1
      BY BeforeUpgrade DEF Upgrade, UpgradeFails
    <3>4. pc = "scale" => model.version \in {state.api_model.version, state.api_model.version + 1}
      BY <2>3 DEF TypeInv, MastersNear
    <3>5. running # None => running.version \in {state.api_model.version, state.api_model.version + 1}
      BY <2>3 DEF Aim, Course
    <3>6. ~CreateStep
      BY <1>0, <2>3 DEF CreateStep, Applying
    <3> QED
      BY <2>3, <3>1, <3>2, <3>3, <3>4, <3>5, <3>6, NodesCases
  <2> QED
    BY <1>1, <2>1, <2>2, <2>3, StateKept
<1>2. ASSUME config' # Absent, state' # NoState
      PROVE  /\ config'.version \in {state'.api_model.version, state'.api_model.version + 1}
             /\ Nodes' \subseteq {state'.api_model.version, config'.version}
             /\ azure'.tags \in {state'.api_model.tags, config'.tags, NoTags}
             /\ ~state'.tainted => azure'.deployed
  <2>1. CASE CreateStep /\ \E tainted \in BOOLEAN : state' = ReadFrom(config, tainted)
    <3>1. state'.api_model = config /\ config \in Configs
      BY <2>1, CreatedState
    <3>2. config' = config
      BY <2>1, ConfigCases DEF CreateStep, Edit
    <3>3. Nodes' \subseteq {config.version} /\ azure'.deployed /\ azure'.tags = config.tags
      BY <1>0, <2>1, <3>1, ClusterOfType DEF CreateStep, Nodes
    <3> QED
      BY <3>1, <3>2, <3>3
  <2>2. CASE Finish
    <3>1. /\ state'.api_model = model /\ model.version = config.version
          /\ Nodes \subseteq {config.version} /\ azure' = azure /\ config' = config
          /\ azure.tags \in {config.tags, NoTags} /\ model.tags = config.tags
          /\ Updating
      BY <2>2, FinishedState
    <3>2. azure.deployed
      BY <3>1, UpdateFacts DEF Aim
    <3> QED
      BY <3>1, <3>2 DEF Nodes
  <2>3. CASE /\ state # NoState
             /\ state'.api_model = state.api_model /\ state'.tainted = state.tainted
    <3>1. CASE Edit
      <4>1. /\ outcome = "ok" /\ azure' = azure /\ state' = state
            /\ config # Absent /\ config' # Absent =>
                 \/ config'.version = config.version
                 \/ config'.version = config.version + 1
        BY <3>1 DEF Edit, UpgradeAllowed
      <4>2. /\ config # Absent /\ ~state.tainted
            /\ state.api_model.version = config.version
            /\ state.api_model.tags = config.tags
        BY <2>3, <4>1 DEF Aim
      <4>3. /\ Nodes \subseteq {state.api_model.version}
            /\ azure.tags \in {state.api_model.tags, NoTags} /\ azure.deployed
        BY <2>3, <4>2 DEF Aim
      <4> QED
        BY <1>2, <4>1, <4>2, <4>3 DEF Nodes
    <3>2. CASE config' = config
      <4>1. /\ config.version \in {state.api_model.version, state.api_model.version + 1}
            /\ Nodes \subseteq {state.api_model.version, config.version}
            /\ azure.tags \in {state.api_model.tags, config.tags, NoTags}
            /\ ~state.tainted => azure.deployed
        BY <1>2, <2>3, <3>2 DEF Aim
      <4>2. ~CreateStep
        BY <1>0, <2>3 DEF CreateStep, Applying
      <4>3. Nodes' \subseteq {state.api_model.version, config.version}
        <5>1. pc = "scale" => model.version = config.version
          BY DEF TypeInv, MastersNear
        <5>2. running # None => running.version = config.version
          BY DEF Course
        <5> QED
          BY <4>1, <4>2, <5>1, <5>2, NodesCases
      <4>4. azure'.tags \in {state.api_model.tags, config.tags, NoTags}
        BY <4>1, GroupCases
      <4>5. ~state.tainted => azure'.deployed
        BY <1>2, <3>2, <4>1, <4>2, GroupCases DEF DeleteStep, Course
      <4> QED
        BY <2>3, <3>2, <4>1, <4>3, <4>4, <4>5
    <3> QED
      BY <3>1, <3>2, ConfigCases
  <2> QED
    BY <1>2, <2>1, <2>2, <2>3, StateKept
<1>3. ASSUME outcome' = "ok"
      PROVE  /\ config' = Absent => state' = NoState
             /\ config' # Absent =>
                  /\ state' # NoState /\ ~state'.tainted
                  /\ state'.api_model.version = config'.version
                  /\ state'.api_model.tags = config'.tags
  <2>1. CASE UNCHANGED vars \/ DeploymentEnds
    <3>1. UNCHANGED <<config, state, outcome>>
      BY <2>1 DEF vars, DeploymentEnds
    <3> QED
      BY <1>3, <3>1 DEF Aim
  <2>2. CASE PlanNothing
    <3>1. CASE state = NoState
      BY <2>2, <3>1 DEF PlanNothing, Starts
    <3>2. CASE state # NoState
      <4>1. /\ config' = config /\ state' = ReadFrom(config, FALSE) /\ config # Absent
        BY <2>2, <3>2 DEF PlanNothing, Starts, InPlace
      <4>2. config \in Models
        BY <1>0, <4>1, ConfigType DEF TypeOK
      <4>3. state' \in States /\ state'.api_model = config /\ state'.tainted = FALSE
        BY <4>1, <4>2, ReadType
      <4> QED
        BY <4>1, <4>3, ApartAssumption
    <3> QED
      BY <3>1, <3>2
  <2>3. CASE Create
    <3>1. CreateStep /\ state' = ReadFrom(config, FALSE) /\ config' = config /\ config # Absent
      BY <1>0, <2>3 DEF Create, CreateStep, Applying
    <3>2. state' \in States /\ state'.api_model = config /\ state'.tainted = FALSE
      BY <3>1, CreatedState
    <3> QED
      BY <3>1, <3>2, ApartAssumption
  <2>4. CASE Delete /\ config = Absent
    BY <2>4 DEF Delete
  <2>5. CASE Finish
    <3>1. /\ state'.api_model = model /\ state'.tainted = FALSE
          /\ model.version = config.version /\ config' = config
          /\ model.tags = config.tags /\ Updating /\ model \in Models
      BY <2>5, FinishedState
    <3>2. state' \in States /\ config # Absent
      BY <1>0, <2>5, <3>1, ReadType DEF Finish, Applying
    <3> QED
      BY <3>1, <3>2, ApartAssumption
  <2> QED
    BY <1>3, <2>1, <2>2, <2>3, <2>4, <2>5, OkCases
<1> QED
  BY <1>1, <1>2, <1>3 DEF Aim

LEMMA InitAim == Init => Aim /\ Course /\ Sets
<1> SUFFICES ASSUME Init PROVE Aim /\ Course /\ Sets
  OBVIOUS
<1>1. /\ state = NoState /\ outcome = "none" /\ pc = "idle" /\ running = None /\ partial = {}
  BY DEF Init
<1> QED
  BY <1>1 DEF Aim, Course, Sets

LEMMA RetriesInvariant ==
  ASSUME NumPools = 1, Careful
  PROVE  Spec => [](TypeInv /\ Aim /\ Course)
<1>1. Init => TypeInv /\ Aim /\ Course
  BY InitTypeInv, InitAim
<1>2. (TypeInv /\ Aim /\ Course) /\ [Next]_vars => (TypeInv /\ Aim /\ Course)'
  <2>1. TypeInv /\ [Next]_vars => TypeInv'
    BY TypeStep
  <2> QED
    BY <2>1, AimStep, CourseStep
<1> QED
  BY <1>1, <1>2, PTL DEF Spec

\* No recorded version is beyond that of a node.
THEOREM NoOverclaims ==
  ASSUME NumPools = 1, Careful
  PROVE  Spec => []NeverOverclaims
<1>1. Aim => NeverOverclaims
  BY DEF Aim, NeverOverclaims, Nodes
<1> QED
  BY <1>1, RetriesInvariant, PTL

\* After an apply without an error, every node has the version of the configuration,
\* and the group its tags.
THEOREM Agreement ==
  ASSUME NumPools = 1, Careful
  PROVE  Spec => []NodesAgree
<1>1. ASSUME TypeInv, Aim, Course, Rests, config # Absent
      PROVE  /\ azure.deployed
             /\ azure.tags = config.tags \/ (azure.tags = NoTags /\ "tags" \notin partial)
             /\ azure.masters = {config.version}
             /\ \A p \in Pools : azure.agents[p].versions = {config.version}
  <2>1. /\ state # NoState /\ ~state.tainted
        /\ state.api_model.version = config.version
        /\ state.api_model.tags = config.tags
    BY <1>1 DEF Aim, Rests
  <2>2. Nodes \subseteq {config.version} /\ azure.tags \in {config.tags, NoTags} /\ azure.deployed
    BY <1>1, <2>1 DEF Aim
  <2>3. azure.tags = NoTags => "tags" \notin partial
    BY <1>1 DEF Course
  <2>4. azure.masters # {} /\ \A p \in Pools : azure.agents[p].versions # {}
    BY <1>1, <2>2 DEF TypeInv, Populated
  <2>5. /\ azure.masters \subseteq {config.version}
        /\ \A p \in Pools : azure.agents[p].versions \subseteq {config.version}
    BY <2>2 DEF Nodes
  <2> QED
    BY <2>2, <2>3, <2>4, <2>5
<1>2. TypeInv /\ Aim /\ Course => NodesAgree
  BY <1>1 DEF NodesAgree
<1> QED
  BY <1>2, RetriesInvariant, PTL

-----------------------------------------------------------------------------
(* The sizes of scale sets. *)

\* What a step can do to the size of a scale set.
LEMMA SizesCases ==
  ASSUME TypeInv, azure.scaleSets, [Next]_vars, NEW p \in Pools
  PROVE  \/ azure'.agents[p].size = azure.agents[p].size
         \/ DeleteStep
         \/ CreateStep /\ config \in Configs /\ azure'.agents[p].size = config.counts[p]
         \/ /\ Upgrade \/ UpgradeFails
            /\ model.counts[p] \in Int
            /\ azure'.agents[p].size >= Smaller(model.counts[p], azure.agents[p].size)
         \/ ScaleUp(p) /\ azure'.agents[p].size = config.counts[p]
         \/ /\ ScaleUpFails(p)
            /\ azure'.agents[p].size >= Smaller(config.counts[p], azure.agents[p].size)
         \/ running # None /\ running.pool = p /\ azure'.agents[p].size = running.size
<1>0. TypeOK /\ azure.agents[p].size \in Int
  BY Numbers DEF TypeInv, TypeOK, Clusters
<1>1. CASE azure' = azure
  BY <1>1
<1>2. CASE TagsStep
  BY <1>0, <1>2, TagsType DEF TagsStep
<1>3. CASE CreateStep
  <2>1. config \in Configs
    BY <1>3, ApplyTypes DEF CreateStep
  <2> QED
    BY <1>0, <1>3, <2>1, ClusterOfType DEF CreateStep
<1>4. CASE Upgrade
  <2>1. PICK visited \in PoolsVisited(Attempt, Pools, PoolsBehind) :
          \A q \in Pools : IF q \in visited THEN azure'.agents[q] \in AgentsUpgraded(q)
                           ELSE azure'.agents[q] = azure.agents[q]
    BY <1>4, UpgradeEffect
  <2>2. model.counts[p] \in 1 .. MaxCount
    BY <1>4, BeforeUpgrade DEF Upgrade
  <2>3. p \in visited => azure'.agents[p].size >= Smaller(model.counts[p], azure.agents[p].size)
    BY <1>0, <2>1, <2>2, UpgradedPool
  <2> QED
    BY <1>4, <2>1, <2>2, <2>3
<1>5. CASE UpgradeFails
  <2>1. azure'.agents[p] \in AgentsInterrupted(p) \cup AgentsDuringMasters(p)
    BY <1>5, UpgradeFailsEffect
  <2>2. config \in Configs /\ model.counts[p] \in 1 .. MaxCount /\ model.counts[p] \in Int
    <3>1. config \in Configs /\ model.counts[p] \in 1 .. MaxCount
      BY <1>5, BeforeUpgrade DEF UpgradeFails
    <3> QED
      BY <3>1, Numbers
  <2>3. CASE azure'.agents[p] \in AgentsInterrupted(p)
    BY <1>0, <1>5, <2>2, <2>3, InterruptedPool
  <2>4. CASE azure'.agents[p] \in AgentsDuringMasters(p)
    <3>1. azure'.agents[p].size \in {azure.agents[p].size, model.counts[p]}
      BY <1>0, <2>2, <2>4, PoolDuringMasters
    <3>2. azure'.agents[p].size >= Smaller(model.counts[p], azure.agents[p].size)
      BY <1>0, <2>2, <3>1 DEF Smaller
    <3> QED
      BY <1>5, <2>2, <3>2
  <2> QED
    BY <2>1, <2>3, <2>4
\* A pool that is resized has the size asked for.
<1>6. ASSUME NEW q \in Pools, NEW size \in 0 .. MaxSize, NEW version \in Versions,
             NEW agents \in Resized(q, size, version), azure' = WithPool(q, agents)
      PROVE  azure'.agents[p].size = IF p = q THEN size ELSE azure.agents[p].size
  <2>1. agents \in PoolStates /\ agents.size = size
    BY <1>0, ResizedType
  <2>2. azure'.agents = [azure.agents EXCEPT ![q] = agents]
    BY <1>0, <1>6, <2>1, PoolType
  <2> QED
    BY <1>0, <2>1, <2>2 DEF TypeOK, Clusters
<1>7. ASSUME NEW q \in Pools, Scaling(q)
      PROVE  /\ config.counts[q] \in 1 .. MaxCount /\ config.counts[q] \in 0 .. MaxSize
             /\ model.version \in Versions
  <2>1. config.counts[q] \in 1 .. MaxCount
    BY <1>7, ApplyTypes, ConfigType DEF Scaling, Updating
  <2> QED
    BY <1>0, <2>1, Numbers DEF MaxSize, TypeOK, Models
<1>8. ASSUME NEW q \in Pools, ScaleUp(q)
      PROVE  \/ azure'.agents[p].size = azure.agents[p].size
             \/ ScaleUp(p) /\ azure'.agents[p].size = config.counts[p]
  <2>1. Scaling(q) /\ \E agents \in Resized(q, config.counts[q], model.version) :
                        azure' = WithPool(q, agents)
    BY <1>8 DEF ScaleUp, Deploys, WithPool
  <2>2. azure'.agents[p].size = IF p = q THEN config.counts[q] ELSE azure.agents[p].size
    BY <1>6, <1>7, <2>1
  <2> QED
    BY <1>8, <2>2
<1>9. ASSUME NEW q \in Pools, ScaleUpFails(q)
      PROVE  \/ azure'.agents[p].size = azure.agents[p].size
             \/ /\ ScaleUpFails(p)
                /\ azure'.agents[p].size >= Smaller(config.counts[p], azure.agents[p].size)
  <2>1. PICK size \in azure.agents[q].size .. config.counts[q] \cup
                      config.counts[q] .. azure.agents[q].size :
          \E agents \in Resized(q, size, model.version) : azure' = WithPool(q, agents)
    BY <1>9 DEF ScaleUpFails, WithPool
  <2>2. Scaling(q)
    BY <1>9 DEF ScaleUpFails, Deploys
  <2>3. azure.agents[q].size \in 0 .. MaxSize /\ config.counts[q] \in 0 .. MaxSize
        /\ model.version \in Versions
    BY <1>0, <1>7, <2>2 DEF TypeOK, Clusters, MaxSize
  <2>4. size \in 0 .. MaxSize
    BY <2>1, <2>3, Numbers DEF MaxSize
  <2>5. size >= Smaller(config.counts[q], azure.agents[q].size)
    BY <2>1, <2>3, Numbers DEF MaxSize, Smaller
  <2>6. azure'.agents[p].size = IF p = q THEN size ELSE azure.agents[p].size
    BY <1>6, <2>1, <2>3, <2>4
  <2> QED
    BY <1>9, <2>5, <2>6
<1>10. CASE DeploymentEnds
  <2>1. running \in Deployments /\ running # None
    BY <1>0, <1>10 DEF DeploymentEnds, TypeOK
  <2>2. /\ running.pool \in Pools /\ running.size \in 0 .. MaxSize /\ running.version \in Versions
    BY <2>1, Numbers DEF Deployments, MaxSize
  <2>3. \E agents \in Resized(running.pool, running.size, running.version) :
          azure' = WithPool(running.pool, agents)
    BY <1>10 DEF DeploymentEnds, WithPool
  <2>4. azure'.agents[p].size = IF p = running.pool THEN running.size ELSE azure.agents[p].size
    BY <1>6, <2>2, <2>3
  <2> QED
    BY <2>1, <2>4
<1>11. CASE azure' # azure /\ ~TagsStep /\ ~CreateStep /\ ~DeleteStep /\ ~Upgrade /\ ~UpgradeFails
  <2>1. ~\E q \in Pools : ScaleDown(q) \/ ScaleDownFails(q)
    BY DEF ScaleDown, ScaleDownFails
  <2>2. \/ DeploymentEnds
        \/ \E q \in Pools : ScaleUp(q) \/ ScaleUpFails(q)
    <3>1. ~Edit /\ ~UNCHANGED vars
      BY <1>11 DEF Edit, vars
    <3>2. ~(Apply /\ ~\E q \in Pools : ScaleUp(q))
      <4>1. ~Create /\ ~Delete
        BY <1>11 DEF Create, Delete, CreateStep, DeleteStep
      <4>2. ~UpdateTags
        BY <1>11, ApplyTypes, ConfigType DEF UpdateTags, TagsStep, WithTags, Updating
      <4>3. ~\E q \in Pools : ScaleIndexPanics(q) \/ AtDesiredCount(q)
        BY <1>11 DEF ScaleIndexPanics, AtDesiredCount
      <4> QED
        BY <1>11, <2>1, <4>1, <4>2, <4>3
           DEF Apply, PlanCreate, PlanDelete, PlanUpdate, PlanNothing, Starts, VersionRefused,
               VersionUnchanged, CountUnchanged, ClusterGone, PoolsScaled, TagsUnchanged, Finish
    <3>3. ~(Failures /\ ~\E q \in Pools : ScaleUpFails(q))
      <4>1. ~CreateFails /\ ~CreateUnread
        BY <1>11, ApplyTypes, ConfigType DEF CreateFails, CreateUnread, CreateStep, TagsStep, WithTags
      <4>2. ~UpdateTagsFails /\ ~TagsDropped
        BY <1>11, ApplyTypes, ConfigType DEF UpdateTagsFails, TagsDropped, Scaling, TagsStep, WithTags, Updating
      <4>3. ~DeleteFails
        BY <1>11 DEF DeleteFails, DeleteStep
      <4> QED
        BY <1>11, <2>1, <4>1, <4>2, <4>3 DEF Failures, RefreshFails, UpdateFails, Dies
    <3> QED
      BY <3>1, <3>2, <3>3 DEF Next
  <2> QED
    BY <1>8, <1>9, <1>10, <2>2
<1> QED
  BY <1>1, <1>2, <1>3, <1>4, <1>5, <1>11

LEMMA SetsStep ==
  ASSUME NumPools = 1, Careful, TypeInv, Aim, Course, Sets, [Next]_vars, TypeInv', Aim', Course'
  PROVE  Sets'
<1>0. TypeOK /\ Applying /\ TypeOK' /\ Applying'
  BY DEF TypeInv
<1>1. SUFFICES ASSUME azure.scaleSets PROVE Sets'
  BY GroupCases DEF Sets
<1>2. /\ 1 \in Pools /\ Pools = {1}
      /\ azure.agents[1].size \in Int /\ azure'.agents[1].size \in Int
  <2>1. 1 \in Pools /\ Pools = {1}
    BY OnePool
  <2> QED
    BY <1>0, <2>1, Numbers DEF TypeOK, Clusters
<1>3. config # Absent => config.counts[1] \in Int /\ DOMAIN config.counts = Pools
  BY <1>0, <1>2, ConfigType, Numbers DEF TypeOK
<1>4. state # NoState => /\ state.api_model \in Models
                         /\ state.api_model.counts[1] \in Int
  BY <1>2, ApplyTypes, OnePool, Numbers DEF Models
\* The sizes while an apply works and after it has failed.
<1>5. ASSUME config # Absent, state # NoState, ~state.tainted, ~ScaleUp(1)
      PROVE  DeleteStep \/
               azure'.agents[1].size >= Smaller(state.api_model.counts[1], config.counts[1])
  <2>1. azure.agents[1].size >= Smaller(state.api_model.counts[1], config.counts[1])
    BY <1>1, <1>2, <1>5 DEF Sets
  <2>2. ~CreateStep
    BY <1>0, <1>5 DEF CreateStep, Applying
  <2>3. Upgrade \/ UpgradeFails => model = state.api_model
    BY <1>0 DEF Upgrade, UpgradeFails, Applying
  <2>4. running # None => running.size = config.counts[running.pool]
    BY DEF Course
  <2>5. \/ azure'.agents[1].size = azure.agents[1].size
        \/ DeleteStep
        \/ azure'.agents[1].size >= Smaller(state.api_model.counts[1], azure.agents[1].size)
        \/ azure'.agents[1].size >= Smaller(config.counts[1], azure.agents[1].size)
        \/ azure'.agents[1].size = config.counts[1]
    BY <1>1, <1>2, <1>5, <2>2, <2>3, <2>4, SizesCases
  <2> QED
    BY <1>2, <1>3, <1>4, <1>5, <2>1, <2>5 DEF Smaller
<1>6. ASSUME ScaleUp(1)
      PROVE  /\ azure'.agents[1].size = config.counts[1]
             /\ model'.counts = config.counts
             /\ pc' = "scale" /\ pool' = 2
             /\ UNCHANGED <<config, state, outcome>> /\ config # Absent
  <2>1. 1 \in DOMAIN ScaledPool(1)
    BY DEF ScaledPool
  <2>2. Updating /\ pc = "scale" /\ pool = 1 /\ 1 \in DOMAIN ScaledPool(1)
    BY <1>6, <2>1 DEF ScaleUp, Deploys, Scaling, Updating
  <2>3. /\ model' = [model EXCEPT !.counts = ScaledPool(1)] /\ pool' = 2
        /\ UNCHANGED <<config, state, outcome, pc>>
    BY <1>6, <2>2 DEF ScaleUp
  <2>4. config \in Configs /\ config # Absent /\ model \in Models
    BY <2>2, UpdateFacts
  <2>5. ScaledPool(1) = config.counts
    BY <1>2, <2>4, ConfigType DEF ScaledPool
  <2>6. azure'.agents[1].size = config.counts[1]
    <3>1. PICK agents \in Resized(1, config.counts[1], model.version) : azure' = WithPool(1, agents)
      BY <1>6 DEF ScaleUp, WithPool
    <3>2. config.counts[1] \in 0 .. MaxSize /\ model.version \in Versions
      <4>1. config.counts[1] \in 1 .. MaxCount
        BY <1>2, <2>4, ConfigType
      <4> QED
        BY <2>4, <4>1, Numbers DEF MaxSize, Models
    <3>3. agents \in PoolStates /\ agents.size = config.counts[1]
      BY <1>0, <1>2, <3>1, <3>2, ResizedType
    <3>4. azure'.agents = [azure.agents EXCEPT ![1] = agents]
      BY <1>0, <1>2, <3>1, <3>3, PoolType
    <3> QED
      BY <1>0, <1>2, <3>3, <3>4 DEF TypeOK, Clusters
  <2> QED
    BY <2>2, <2>3, <2>4, <2>5, <2>6 DEF Models
<1>7. ASSUME Finish
      PROVE  state' = ReadFrom(config, FALSE) /\ state'.api_model = config
             /\ azure'.agents[1].size >= config.counts[1]
             /\ config' = config /\ pc' = "idle"
  <2>1. /\ state'.api_model = model /\ model \in Models /\ config \in Configs
        /\ config' = config /\ azure' = azure
        /\ model.version = config.version /\ model.tags = config.tags
        /\ state' = ReadFrom(model, FALSE)
        /\ pc = "finish" /\ pc' = "idle"
    BY <1>7, FinishedState DEF Finish, Return
  <2>2. model.counts = config.counts /\ azure.agents[1].size >= config.counts[1]
    BY <1>1, <1>2, <2>1 DEF Sets
  <2>3. model = config
    BY <2>1, <2>2 DEF Models, Configs
  <2> QED
    BY <2>1, <2>2, <2>3
<1>8. ASSUME config' # Absent, state' # NoState, ~state'.tainted
      PROVE  azure'.agents[1].size >= Smaller(state'.api_model.counts[1], config'.counts[1])
  <2>1. CASE CreateStep /\ \E tainted \in BOOLEAN : state' = ReadFrom(config, tainted)
    <3>1. state'.api_model = config /\ config \in Configs
      BY <2>1, CreatedState
    <3>2. config' = config
      BY <2>1, ConfigCases DEF CreateStep, Edit
    <3>3. azure'.agents[1].size = config.counts[1]
      BY <1>0, <1>2, <2>1, <3>1, ClusterOfType DEF CreateStep
    <3> QED
      BY <1>2, <1>3, <1>8, <3>1, <3>2, <3>3 DEF Smaller
  <2>2. CASE Finish
    BY <1>2, <1>3, <1>7, <1>8, <2>2 DEF Smaller
  <2>3. CASE /\ state # NoState
             /\ state'.api_model = state.api_model /\ state'.tainted = state.tainted
    <3>1. CASE Edit
      <4>1. outcome = "ok" /\ azure' = azure /\ state' = state /\ config' \in Configs
        BY <1>8, <3>1 DEF Edit
      <4>2. config # Absent /\ config \in Models
        BY <1>0, <2>3, <4>1, ConfigType DEF Aim, TypeOK
      <4>3. state = ReadFrom(config, FALSE)
        BY <1>1, <4>1, <4>2 DEF Sets
      <4>4. state.api_model = config
        BY <4>2, <4>3, ReadType
      <4>5. azure.agents[1].size >= Smaller(config.counts[1], config.counts[1])
        BY <1>1, <1>2, <1>8, <2>3, <4>2, <4>4 DEF Sets
      <4>6. config.counts[1] \in Int /\ config'.counts[1] \in Int
        BY <1>2, <1>3, <4>1, <4>2, ConfigType, Numbers
      <4> QED
        BY <1>2, <2>3, <4>1, <4>4, <4>5, <4>6 DEF Smaller
    <3>2. CASE config' = config
      <4>1. CASE ScaleUp(1)
        BY <1>2, <1>3, <1>4, <1>6, <1>8, <2>3, <4>1 DEF Smaller
      <4>2. CASE ~ScaleUp(1)
        <5>1. ~DeleteStep
          BY <1>8, <2>3, <3>2 DEF DeleteStep, Course
        <5> QED
          BY <1>5, <1>8, <2>3, <3>2, <4>2, <5>1
      <4> QED
        BY <4>1, <4>2
    <3> QED
      BY <3>1, <3>2, ConfigCases
  <2> QED
    BY <1>8, <2>1, <2>2, <2>3, StateKept
\* How an update goes on.
<1>9. ASSUME pc' \in {"scale", "tags", "finish"}
      PROVE  /\ Updating /\ config' = config /\ state' = state /\ config # Absent
             /\ ~DeleteStep /\ ~PlanUpdate
             /\ \/ pc = pc' \/ Upgrade \/ VersionUnchanged \/ PoolsScaled \/ UpdateTags \/ TagsUnchanged
  <2>1. pc = pc' \/ Upgrade \/ VersionUnchanged \/ PoolsScaled \/ UpdateTags \/ TagsUnchanged
    BY <1>9, PcCases DEF Edit, PlanCreate, PlanDelete, PlanUpdate, Delete, Return
  <2>2. Updating
    BY <1>9, <2>1 DEF Updating, Upgrade, VersionUnchanged, PoolsScaled, UpdateTags, TagsUnchanged
  <2>3. pc # "idle" /\ pc' # "idle" /\ ~Delete /\ ~DeleteStep /\ ~PlanUpdate
    BY <1>9, <2>2 DEF Updating, Delete, DeleteStep, PlanUpdate
  <2> QED
    BY <2>1, <2>2, <2>3, Steady, UpdateFacts
<1>10. ASSUME pc' = "scale", pool' = 1
       PROVE  model'.counts = state'.counts
  <2>1. CASE Upgrade
    <3>1. model' = [model EXCEPT !.version = config.version] /\ model \in Models
          /\ model = state.api_model /\ state' = state
      BY <1>9, <1>10, <2>1, UpdateFacts DEF Upgrade
    <3> QED
      BY <1>9, <1>10, <3>1, UpdateFacts DEF Models
  <2>2. CASE VersionUnchanged
    BY <1>9, <1>10, <2>2, UpdateFacts DEF VersionUnchanged, update
  <2>3. CASE ~Upgrade /\ ~VersionUnchanged
    <3>1. pc = "scale"
      BY <1>9, <1>10, <2>3 DEF PoolsScaled, UpdateTags, TagsUnchanged
    <3>2. pool = 1
      BY <1>2, <1>9, <1>10, <3>1, PartialPoolCases
    <3>3. ~ScaleUp(1) /\ ~\E p \in Pools : ScaleDown(p)
      BY <1>1, <1>6, <1>10 DEF ScaleDown
    <3>4. UNCHANGED model
      BY <1>2, <1>9, <1>10, <2>3, <3>1, <3>3, ModelCases DEF UpdateTags
    <3> QED
      BY <1>1, <1>9, <1>10, <3>1, <3>2, <3>4 DEF Sets
  <2> QED
    BY <2>1, <2>2, <2>3
<1>11. ASSUME (pc' = "scale" /\ pool' # 1) \/ pc' \in {"tags", "finish"}
       PROVE  /\ model'.counts = config'.counts
              /\ azure'.agents[1].size >= config'.counts[1]
  <2>1. CASE ScaleUp(1)
    BY <1>2, <1>3, <1>6, <2>1
  <2>2. CASE ~ScaleUp(1)
    <3>1. Upgrade \/ VersionUnchanged => pool' = 1 /\ pc' = "scale"
      BY DEF Upgrade, VersionUnchanged, Course, update
    <3>2. /\ pc = pc' \/ PoolsScaled \/ UpdateTags \/ TagsUnchanged
          /\ pc \in {"scale", "tags", "finish"}
          /\ ~Upgrade /\ ~UpgradeFails
      BY <1>9, <1>11, <3>1 DEF PoolsScaled, UpdateTags, TagsUnchanged, Upgrade, UpgradeFails
    <3>3. model'.counts = model.counts
      <4>1. model \in Models
        BY <1>0 DEF TypeOK
      <4>2. ~\E p \in Pools : ScaleDown(p)
        BY <1>1 DEF ScaleDown
      <4>3. UpdateTags => model'.counts = model.counts
        BY <4>1 DEF UpdateTags, Models
      <4> QED
        BY <1>2, <1>9, <1>11, <2>2, <3>2, <4>2, <4>3, ModelCases
    <3>4. CASE pc = "scale" /\ pool = 1
      \* The count is as recorded, and the loop goes on.
      <4>1. CountUnchanged
        <5>1. pc' = "scale" /\ pool' # 1
          BY <1>2, <1>9, <1>11, <3>2, <3>4 DEF PoolsScaled, UpdateTags, TagsUnchanged
        <5>2. ~AtDesiredCount(1) /\ ~ScaleDown(1) /\ ~ScaleIndexPanics(1)
          BY <1>1, <5>1 DEF AtDesiredCount, ScaleDown, ScaleIndexPanics, Return
        <5>3. Next /\ ~Failures /\ ~Edit /\ ~DeploymentEnds
          <6>1. ~UNCHANGED vars
            BY <3>4, <5>1 DEF vars, update
          <6>2. ~Failures
            BY <3>4, <5>1 DEF Failures, RefreshFails, CreateFails, CreateUnread, DeleteFails, UpgradeFails,
                ScaleUpFails, ScaleDownFails, UpdateTagsFails, TagsDropped, UpdateFails, Dies, update
          <6> QED
            BY <3>4, <5>1, <6>1, <6>2 DEF Edit, DeploymentEnds, update
        <5> QED
          BY <1>2, <2>2, <3>2, <3>4, <5>1, <5>2, <5>3
             DEF Next, Apply, PlanCreate, PlanDelete, PlanUpdate, PlanNothing, Create, Delete, Starts,
                 VersionRefused, Upgrade, VersionUnchanged, ClusterGone, PoolsScaled, UpdateTags,
                 TagsUnchanged, Finish, UpdateError, Return
      <4>2. config.counts[1] = state.counts[1] /\ azure' = azure
        BY <3>4, <4>1 DEF CountUnchanged
      <4>3. config.counts = state.counts /\ state.counts = state.api_model.counts
        <5>1. config.counts \in [Pools -> 1 .. MaxCount] /\ state.counts \in [Pools -> 1 .. MaxCount]
              /\ state.counts = state.api_model.counts
          BY <1>9, <1>11, UpdateFacts, ConfigType
        <5> QED
          BY <1>2, <4>2, <5>1
      <4>4. model.counts = state.counts
        BY <1>1, <3>4 DEF Sets
      <4>5. azure.agents[1].size >= Smaller(state.api_model.counts[1], config.counts[1])
        BY <1>1, <1>2, <1>9, <1>11, UpdateFacts DEF Sets
      <4> QED
        BY <1>3, <1>9, <1>11, <3>3, <4>2, <4>3, <4>4, <4>5 DEF Smaller
    <3>5. CASE ~(pc = "scale" /\ pool = 1)
      <4>1. model.counts = config.counts /\ azure.agents[1].size >= config.counts[1]
        BY <1>1, <1>2, <3>2, <3>5 DEF Sets
      <4>2. azure'.agents[1].size = azure.agents[1].size
        <5>1. running = None /\ ~CreateStep /\ ~ScaleUpFails(1)
          BY <1>2, <3>2, <3>5 DEF Course, CreateStep, ScaleUpFails, Deploys, Scaling
        <5> QED
          BY <1>1, <1>2, <1>9, <1>11, <2>2, <3>2, <5>1, SizesCases
      <4> QED
        BY <1>9, <1>11, <3>3, <4>1, <4>2
    <3> QED
      BY <3>4, <3>5
  <2> QED
    BY <2>1, <2>2
<1>12. ASSUME outcome' = "ok", config' # Absent
       PROVE  state' = ReadFrom(config', FALSE)
  <2>1. CASE UNCHANGED vars \/ DeploymentEnds
    <3>1. UNCHANGED <<config, state, outcome>>
      BY <2>1 DEF vars, DeploymentEnds
    <3> QED
      BY <1>1, <1>12, <3>1 DEF Sets
  <2>2. CASE PlanNothing
    BY <1>12, <2>2 DEF PlanNothing, Starts
  <2>3. CASE Create
    BY <2>3 DEF Create
  <2>4. CASE Delete /\ config = Absent
    BY <1>12, <2>4 DEF Delete
  <2> QED
    BY <1>7, <1>12, <2>1, <2>2, <2>3, <2>4, OkCases
<1> QED
  BY <1>2, <1>8, <1>10, <1>11, <1>12 DEF Sets

LEMMA SetsInvariant ==
  ASSUME NumPools = 1, Careful
  PROVE  Spec => []CInv
<1>1. Init => CInv
  BY InitTypeInv, InitAim DEF CInv
<1>2. CInv /\ [Next]_vars => CInv'
  <2>1. CInv /\ [Next]_vars => TypeInv'
    BY TypeStep DEF CInv
  <2>2. CInv /\ [Next]_vars => Aim' /\ Course'
    BY <2>1, AimStep, CourseStep DEF CInv
  <2> QED
    BY <2>1, <2>2, SetsStep DEF CInv
<1> QED
  BY <1>1, <1>2, PTL DEF Spec

\* After an apply without an error, a scale set has its machines and the state says
\* what the configuration says.
THEOREM SetsAgreement ==
  ASSUME NumPools = 1, Careful
  PROVE  Spec => []ScaleSetsAgree
<1>1. ASSUME CInv, Rests, config # Absent, azure.scaleSets, NEW p \in Pools
      PROVE  state = ReadFrom(config, FALSE) /\ azure.agents[p].size >= config.counts[p]
  <2>1. state = ReadFrom(config, FALSE) /\ config \in Configs
    BY <1>1 DEF CInv, TypeInv, TypeOK, Sets, Rests
  <2>2. state # NoState /\ ~state.tainted /\ state.api_model = config
    BY <1>1, <2>1, ConfigType, ReadType DEF CInv, Aim, Rests
  <2>3. azure.agents[p].size >= Smaller(config.counts[p], config.counts[p])
    BY <1>1, <2>2 DEF CInv, Sets
  <2>4. config.counts[p] \in Int
    BY <2>1, ConfigType, Numbers
  <2> QED
    BY <2>1, <2>3, <2>4 DEF Smaller
<1>2. CInv => ScaleSetsAgree
  BY <1>1, OnePool DEF ScaleSetsAgree
<1> QED
  BY <1>2, SetsInvariant, PTL
=============================================================================
