------------------------ MODULE UpgradeOutcome_proofs ------------------------
(***************************************************************************)
(* What TLAPS proves of the scale sets in ClusterUpgrade and of how an     *)
(* upgrade ends, for any numbers of masters, agents, failures and pages:   *)
(*                                                                         *)
(*   - a scale set never has too few instances (SetsKeepCount);            *)
(*   - with one pool, a successful upgrade has replaced every node         *)
(*     (SuccessMeansUpgraded) and has left the recorded number of agents   *)
(*     (SuccessMeansCounted);                                              *)
(*   - with any number of pools, an attempt ends in one of the outcomes    *)
(*     that UpgradeOutcome lists (OutcomesAreComplete).                    *)
(*                                                                         *)
(* With two pools a success may leave one of them behind, as the run       *)
(* upgrade_two_pools shows.                                                *)
(*                                                                         *)
(* The invariants added to that of ClusterUpgrade_proofs:                  *)
(*                                                                         *)
(*   SetsInv    of scale sets: SizesInv weighs the capacity the upgrader   *)
(*              works with against the pages it has left, VersionsInv says *)
(*              that the old instances are on its list, or that the        *)
(*              masters' deployments have failed;                          *)
(*   PoolInv    of availability sets: no pool has more than one agent too  *)
(*              many, and none that has been visited has an old one;       *)
(*   BegunInv   the list of machines and the ghost begun describe the same *)
(*              cluster;                                                   *)
(*   GrowInv    how far the pool that is visited is from Target agents,    *)
(*              and from losing its extra one;                             *)
(*   PassedInv  the pools left behind are as an outcome has them;          *)
(*   RaisedAll  what each scale set has gained and lost since the attempt  *)
(*              began.                                                     *)
(***************************************************************************)
EXTENDS ClusterUpgrade_proofs

Nodes(p)   == Present(vms[p], OldStates \cup Fresh)
Renewed(p) == Present(vms[p], Fresh)

\* A pool never has more than one agent too many.
UpperInv == \A p \in Pools :
  /\ Cardinality(Nodes(p)) <= AgentCount + 1
  /\ Cardinality(Renewed(p)) <= AgentCount

SeenInv == pc # "idle" => \A p \in Pools :
  /\ Cardinality(Present(seen[p], OldStates \cup Fresh)) <= AgentCount + 1
  /\ Cardinality(Present(seen[p], Fresh)) <= AgentCount

UpperVisit ==
  /\ pc \in Visiting =>
       /\ Cardinality(Up) + Cardinality(Not) <= AgentCount + 1
       /\ Cardinality(Up) <= AgentCount
  /\ pc \in {"replace", "swapping"} => Replaced

\* A pool without agents is not visited.
Unseen(p) == Present(seen[p], {"none"}) = Indices

First == {"masters", "master", "scaleSets", "capacity", "instance"}

PoolsInv ==
  /\ pc # "idle" => \A p \in Pools :
       Unseen(p) => p \notin poolsTodo /\ \A i \in Indices : vms[p][i] = "none"
  /\ pc \in Visiting => ~Unseen(pool)
  /\ pc \in First => \A p \in Pools : p \in poolsTodo \/ Unseen(p)

\* A pool that needs nothing any more.
Finished(p) ==
  /\ \A i \in Indices : vms[p][i] # "old"
  /\ Cardinality(Renewed(p)) = AgentCount \/ Unseen(p)

DoneInv ==
  pc = "save" \/ outcome = "ok" \/ (pc = "pools" /\ poolsTodo = {}) =>
    \A p \in Pools : Finished(p)

-----------------------------------------------------------------------------
LEMMA VMCount ==
  ASSUME Inv, NEW p \in Pools, NEW q \in Pools, NEW i \in Indices, NEW state, Becomes(q, i, state),
         NEW states
  PROVE  /\ Cardinality(Present(vms[p], states)) \in Nat
         /\ Cardinality(Present(vms'[p], states)) \in Nat
         /\ p # q => Present(vms'[p], states) = Present(vms[p], states)
         /\ Cardinality(Present(vms'[p], states)) <= Cardinality(Present(vms[p], states)) + 1
         /\ state \notin states \/ vms[q][i] \in states =>
              Cardinality(Present(vms'[p], states)) <= Cardinality(Present(vms[p], states))
         /\ (state \in states <=> vms[q][i] \in states) => Present(vms'[p], states) = Present(vms[p], states)
<1>1. vms \in [Pools -> [Indices -> VMStates]] /\ vms' \in [Pools -> [Indices -> VMStates]]
  BY DEF Inv, TypeOK, Becomes
<1>2. /\ IsFiniteSet(DOMAIN vms[p]) /\ DOMAIN vms[p] = Indices /\ DOMAIN vms'[p] = Indices
      /\ IsFiniteSet(DOMAIN vms'[p])
  BY <1>1, IndicesFinite
<1>3. Cardinality(Present(vms[p], states)) \in Nat /\ Cardinality(Present(vms'[p], states)) \in Nat
  BY <1>2, PresentFinite
<1>4. CASE p # q
  <2>1. \A j \in Indices : vms'[p][j] = vms[p][j]
    BY <1>4 DEF Becomes
  <2>2. Present(vms'[p], states) = Present(vms[p], states)
    BY <1>2, <2>1 DEF Present
  <2> QED
    BY <1>3, <1>4, <2>2
<1>5. CASE p = q
  <2>1. (\A j \in DOMAIN vms[p] : j # i => vms'[p][j] = vms[p][j]) /\ vms'[p][i] = state
    BY <1>2, <1>5 DEF Becomes
  <2>2. /\ vms'[p][i] \in states /\ vms[p][i] \notin states =>
             Cardinality(Present(vms'[p], states)) = Cardinality(Present(vms[p], states)) + 1
        /\ vms'[p][i] \notin states /\ vms[p][i] \in states =>
             Cardinality(Present(vms'[p], states)) = Cardinality(Present(vms[p], states)) - 1
        /\ (vms'[p][i] \in states <=> vms[p][i] \in states) =>
             Present(vms'[p], states) = Present(vms[p], states)
    BY <1>2, <2>1, PresentCount
  <2> QED
    BY <1>3, <1>5, <2>1, <2>2
<1> QED
  BY <1>4, <1>5

\* While no agent is being created, agentVMs knows all nodes.
LEMMA NodesListed ==
  ASSUME Inv, pc \in {"fill", "swap", "replace"}
  PROVE  /\ Nodes(pool) \subseteq Up \cup Not
         /\ pc = "replace" => index \notin Nodes(pool) /\ index \in Not
         /\ Renewed(pool) = Up
         /\ Present(vms[pool], {"old"}) \subseteq Not
<1>1. pool \in Pools /\ agentVMs \in [Indices -> {"none", "upgraded", "notUpgraded", "ignored"}]
      /\ vms \in [Pools -> [Indices -> VMStates]]
  BY DEF Inv, TypeOK
<1>2. ASSUME NEW i \in Indices
      PROVE  /\ vms[pool][i] \in OldStates \cup Fresh => agentVMs[i] \in {"upgraded", "notUpgraded"}
             /\ vms[pool][i] \in Fresh <=> agentVMs[i] = "upgraded"
             /\ vms[pool][i] = "old" => agentVMs[i] = "notUpgraded"
  <2>1. Known(i)
    BY DEF Inv, VisitInv, Visiting
  <2> QED
    BY <2>1 DEF Known, OldStates, Fresh
<1>3. pc = "replace" => vms[pool][index] = "none" /\ index \in Indices /\ agentVMs[index] = "notUpgraded"
  BY DEF Inv, VisitInv, Visiting
<1> QED
  BY <1>1, <1>2, <1>3 DEF Nodes, Renewed, Up, Not, Present, OldStates, Fresh

LEMMA UpperKept ==
  ASSUME Inv, UpperInv, UpperVisit, [Next]_vars
  PROVE  UpperInv'
<1>1. /\ pool \in Pools /\ count \in Nat /\ todo \in Nat
      /\ Cardinality(Up) \in Nat /\ Cardinality(Not) \in Nat
      /\ IsFiniteSet(Up \cup Not) /\ Cardinality(Up \cup Not) = Cardinality(Up) + Cardinality(Not)
  BY AgentsListed, UnionCount DEF Inv, TypeOK
<1> SUFFICES ASSUME NEW p \in Pools
             PROVE  /\ Cardinality(Nodes(p)') <= AgentCount + 1
                    /\ Cardinality(Renewed(p)') <= AgentCount
  BY DEF UpperInv
<1>2. Cardinality(Nodes(p)) <= AgentCount + 1 /\ Cardinality(Renewed(p)) <= AgentCount
  BY DEF UpperInv
<1>3. CASE vms' = vms
  BY <1>2, <1>3 DEF Nodes, Renewed
<1>4. ASSUME NEW q \in Pools, NEW i \in Indices, NEW state, Becomes(q, i, state),
             /\ state \in Fresh => vms[q][i] \in Fresh
             /\ state \in OldStates => vms[q][i] \in OldStates \cup Fresh
      PROVE  /\ Cardinality(Nodes(p)') <= AgentCount + 1
             /\ Cardinality(Renewed(p)') <= AgentCount
  <2>1. /\ Cardinality(Present(vms[p], OldStates \cup Fresh)) \in Nat
        /\ Cardinality(Present(vms'[p], OldStates \cup Fresh)) \in Nat
        /\ Cardinality(Present(vms'[p], OldStates \cup Fresh)) <= Cardinality(Present(vms[p], OldStates \cup Fresh))
    BY <1>4, VMCount
  <2>2. /\ Cardinality(Present(vms[p], Fresh)) \in Nat
        /\ Cardinality(Present(vms'[p], Fresh)) \in Nat
        /\ Cardinality(Present(vms'[p], Fresh)) <= Cardinality(Present(vms[p], Fresh))
    BY <1>4, VMCount
  <2> QED
    BY <1>2, <2>1, <2>2, Numbers DEF Nodes, Renewed
<1>5. ASSUME NEW i \in Indices, Becomes(pool, i, "Creating"),
             Cardinality(Nodes(pool)) <= AgentCount, Cardinality(Renewed(pool)) < AgentCount
      PROVE  /\ Cardinality(Nodes(p)') <= AgentCount + 1
             /\ Cardinality(Renewed(p)') <= AgentCount
  <2>1. /\ Cardinality(Present(vms[p], OldStates \cup Fresh)) \in Nat
        /\ Cardinality(Present(vms'[p], OldStates \cup Fresh)) \in Nat
        /\ p # pool => Present(vms'[p], OldStates \cup Fresh) = Present(vms[p], OldStates \cup Fresh)
        /\ Cardinality(Present(vms'[p], OldStates \cup Fresh)) <= Cardinality(Present(vms[p], OldStates \cup Fresh)) + 1
    BY <1>1, <1>5, VMCount
  <2>2. /\ Cardinality(Present(vms[p], Fresh)) \in Nat
        /\ Cardinality(Present(vms'[p], Fresh)) \in Nat
        /\ p # pool => Present(vms'[p], Fresh) = Present(vms[p], Fresh)
        /\ Cardinality(Present(vms'[p], Fresh)) <= Cardinality(Present(vms[p], Fresh)) + 1
    BY <1>1, <1>5, VMCount
  <2>3. CASE p = pool
    BY <1>5, <2>1, <2>2, <2>3, Numbers DEF Nodes, Renewed
  <2>4. CASE p # pool
    BY <1>2, <2>1, <2>2, <2>4 DEF Nodes, Renewed
  <2> QED
    BY <2>3, <2>4
<1>6. CASE (\E i \in Indices : DeleteFailedNode(i)) \/ (\E i \in Indices : DeleteAgent(i))
  <2>1. "none" \notin OldStates \cup Fresh
    BY DEF OldStates, Fresh
  <2> QED
    BY <1>4, <1>6, <2>1, Purges, Deletes DEF Inv
<1>7. CASE CreateMissingAgent
  <2>1. /\ pc = "fill" /\ index' \in Indices /\ Becomes(pool, index', "Creating")
        /\ count + todo < AgentsNeeded /\ count = Cardinality(Up) /\ todo = Cardinality(Not)
    BY <1>7, Fills DEF Inv, CountInv
  <2>2. count + todo <= AgentCount /\ count < AgentCount
    BY <1>1, <2>1, Numbers DEF AgentsNeeded
  <2>3. Cardinality(Nodes(pool)) <= Cardinality(Up \cup Not) /\ Cardinality(Nodes(pool)) \in Nat
    BY <1>1, <2>1, NodesListed, FS_Subset, FS_CardinalityType
  <2>4. Renewed(pool) = Up
    BY <2>1, NodesListed
  <2> QED
    BY <1>1, <1>5, <2>1, <2>2, <2>3, <2>4, Numbers
<1>8. CASE CreateAgent
  <2>1. pc = "replace" /\ index \in Indices /\ Becomes(pool, index, "Creating")
    BY <1>8, Replaces DEF Inv
  <2>2. /\ count < todo - 1 /\ count + Cardinality(Not) = todo
        /\ Cardinality(Up) + Cardinality(Not) <= AgentCount + 1
    BY <2>1 DEF UpperVisit, Replaced, Visiting, Inv, CountInv, Swapping
  <2>3. Cardinality(Up) < AgentCount
    BY <1>1, <2>2, Numbers
  <2>4. Nodes(pool) \subseteq (Up \cup Not) \ {index} /\ index \in Up \cup Not /\ Renewed(pool) = Up
    BY <2>1, NodesListed
  <2>5. /\ IsFiniteSet((Up \cup Not) \ {index})
        /\ Cardinality((Up \cup Not) \ {index}) = Cardinality(Up \cup Not) - 1
    BY <1>1, <2>4, FS_RemoveElement
  <2>6. Cardinality(Nodes(pool)) <= Cardinality((Up \cup Not) \ {index}) /\ Cardinality(Nodes(pool)) \in Nat
    BY <2>4, <2>5, FS_Subset, FS_CardinalityType
  <2> QED
    BY <1>1, <1>5, <2>1, <2>2, <2>3, <2>4, <2>5, <2>6, Numbers
<1>9. ASSUME NEW i \in Indices, DeletionFails(i)
      PROVE  /\ Cardinality(Nodes(p)') <= AgentCount + 1
             /\ Cardinality(Renewed(p)') <= AgentCount
  <2>1. PICK state \in {"none", "leaving", "Deleting"} : Becomes(pool, i, state)
    BY <1>9, FailsToDelete DEF Inv
  <2>2. vms[pool][i] \in OldStates \cup Fresh
    BY <1>9, FailsToDelete DEF Inv, Fresh
  <2>3. state \notin Fresh
    BY DEF Fresh
  <2> QED
    BY <1>1, <1>4, <2>1, <2>2, <2>3
<1>10. CASE AzureStep
  <2>1. \E q \in Pools : \E i \in Indices : \E state \in VMStates :
          /\ Becomes(q, i, state)
          /\ state \in Fresh => vms[q][i] \in Fresh
          /\ state \in OldStates => vms[q][i] \in OldStates \cup Fresh
    BY <1>10, AzureMoving DEF Inv, AzureMoves, Fresh, OldStates
  <2> QED
    BY <1>4, <2>1
<1> QED
  BY <1>3, <1>6, <1>7, <1>8, <1>9, <1>10, VMSteps

LEMMA SeenKept ==
  ASSUME Inv, UpperInv, SeenInv, [Next]_vars
  PROVE  SeenInv'
<1> SUFFICES ASSUME pc' # "idle"
             PROVE  SeenInv'
  BY DEF SeenInv
<1>1. CASE Start
  BY <1>1 DEF Start, UpperInv, SeenInv, Nodes, Renewed
<1>2. CASE ~Start
  BY <1>2, Continues DEF SeenInv
<1> QED
  BY <1>1, <1>2

LEMMA UpperVisitKept ==
  ASSUME Inv, UpperInv, SeenInv, UpperVisit, [Next]_vars
  PROVE  UpperVisit'
<1> SUFFICES ASSUME pc' \in Visiting
             PROVE  UpperVisit'
  BY DEF UpperVisit, Visiting
<1>1. count \in Nat /\ todo \in Nat /\ Cardinality(Up) \in Nat /\ Cardinality(Not) \in Nat
  BY AgentsListed DEF Inv, TypeOK
<1>2. ASSUME NEW p \in Pools, VisitPool(p)
      PROVE  UpperVisit'
  <2>1. pc = "pools" /\ pc' = "purge" /\ agentVMs' = [i \in Indices |-> StatusOf(seen[p][i])]
    BY <1>2 DEF VisitPool
  <2>2. seen[p] \in [Indices -> VMStates] /\ IsFiniteSet(DOMAIN seen[p])
    BY IndicesFinite DEF Inv, TypeOK
  <2>3. /\ Up' \subseteq Present(seen[p], Fresh)
        /\ Up' \cup Not' \subseteq Present(seen[p], OldStates \cup Fresh)
        /\ Up' \cap Not' = {}
    BY <2>1, <2>2 DEF Up, Not, Present, StatusOf, Fresh, OldStates
  <2>4. /\ IsFiniteSet(Present(seen[p], Fresh)) /\ Cardinality(Present(seen[p], Fresh)) \in Nat
        /\ IsFiniteSet(Present(seen[p], OldStates \cup Fresh))
        /\ Cardinality(Present(seen[p], OldStates \cup Fresh)) \in Nat
    BY <2>2, PresentFinite
  <2>5. /\ Cardinality(Up') <= Cardinality(Present(seen[p], Fresh))
        /\ Cardinality(Up' \cup Not') <= Cardinality(Present(seen[p], OldStates \cup Fresh))
        /\ IsFiniteSet(Up') /\ IsFiniteSet(Not')
    <3>1. Not' \subseteq Present(seen[p], OldStates \cup Fresh)
      BY <2>3
    <3> QED
      BY <2>3, <2>4, <3>1, FS_Subset
  <2>6. /\ Cardinality(Up' \cup Not') = Cardinality(Up') + Cardinality(Not')
        /\ Cardinality(Up') \in Nat /\ Cardinality(Not') \in Nat
    BY <2>3, <2>5, UnionCount, FS_CardinalityType
  <2>7. /\ Cardinality(Present(seen[p], OldStates \cup Fresh)) <= AgentCount + 1
        /\ Cardinality(Present(seen[p], Fresh)) <= AgentCount
    BY <2>1 DEF SeenInv
  <2> QED
    BY <2>1, <2>4, <2>5, <2>6, <2>7, Numbers DEF UpperVisit
<1>3. ASSUME UNCHANGED <<agentVMs, count, todo>>
      PROVE  Up' = Up /\ Not' = Not /\ Replaced' = Replaced
  BY <1>3 DEF Up, Not, Present, Replaced
<1>4. CASE UNCHANGED <<pc, agentVMs, count, todo>>
  BY <1>3, <1>4 DEF UpperVisit
<1>5. CASE \E i \in Indices : DeleteFailedNode(i)
  BY <1>4, <1>5, Purges DEF Inv
<1>6. CASE FailedNodesDeleted
  <2>1. pc = "purge" /\ pc' = "fill" /\ UNCHANGED <<agentVMs, count, todo>>
    BY <1>6 DEF FailedNodesDeleted, visit
  <2> QED
    BY <1>3, <2>1 DEF UpperVisit, Visiting
<1>7. CASE CreateMissingAgent
  BY <1>3, <1>7, Fills DEF Inv, UpperVisit, Visiting
<1>8. CASE PoolFilled
  <2>1. pc = "fill" /\ pc' = "swap" /\ UNCHANGED <<agentVMs, todo>>
    BY <1>8 DEF PoolFilled, Visiting
  <2>2. Up' = Up /\ Not' = Not
    BY <2>1 DEF Up, Not
  <2> QED
    BY <2>1, <2>2 DEF UpperVisit, Visiting
<1>9. ASSUME NEW i \in Indices, DeleteAgent(i)
      PROVE  UpperVisit'
  <2>1. pc = "swap" /\ agentVMs[i] = "notUpgraded" /\ todo' = todo
    BY <1>9, Deletes DEF Inv
  <2>2. CASE Replaced /\ pc' = "replace" /\ UNCHANGED <<agentVMs, count>>
    BY <1>3, <2>1, <2>2 DEF UpperVisit, Visiting
  <2>3. CASE pc' = "swap" /\ Turns(i, "none")
    <3>1. Up' = Up /\ Cardinality(Not') = Cardinality(Not) - 1
      BY <2>1, <2>3, TurnedCount DEF Inv
    <3> QED
      BY <1>1, <2>1, <2>3, <3>1, Numbers DEF UpperVisit, Visiting
  <2> QED
    BY <1>9, <2>2, <2>3, Deletes, Turned DEF Inv
<1>10. CASE CreateAgent
  BY <1>3, <1>10, Replaces DEF Inv, UpperVisit, Visiting
<1>11. CASE AgentUpgraded
  <2>1. pc \in {"filling", "swapping"} /\ pc' = IF pc = "filling" THEN "fill" ELSE "swap"
    BY <1>11 DEF AgentUpgraded
  <2>2. index \in Indices /\ agentVMs[index] = IF pc = "filling" THEN "none" ELSE "notUpgraded"
    BY <2>1 DEF Inv, VisitInv, Visiting
  <2>3. Turns(index, "upgraded")
    BY <1>11, <2>2, Turned DEF AgentUpgraded, Inv
  <2>4. Cardinality(Up') = Cardinality(Up) + 1
    BY <2>2, <2>3, TurnedCount DEF Inv
  <2>5. CASE pc = "filling"
    <3>1. Not' = Not
      BY <2>2, <2>3, <2>5, TurnedCount DEF Inv
    <3>2. count = Cardinality(Up) /\ todo = Cardinality(Not) /\ count + todo < AgentsNeeded
      BY <2>5 DEF Inv, CountInv
    <3>3. count + todo <= AgentCount /\ count < AgentCount
      BY <1>1, <3>2, Numbers DEF AgentsNeeded
    <3> QED
      BY <1>1, <2>1, <2>4, <2>5, <3>1, <3>2, <3>3, Numbers DEF UpperVisit
  <2>6. CASE pc = "swapping"
    <3>1. Cardinality(Not') = Cardinality(Not) - 1
      BY <2>2, <2>3, <2>6, TurnedCount DEF Inv
    <3>2. /\ count < todo - 1 /\ count + Cardinality(Not) = todo
          /\ Cardinality(Up) + Cardinality(Not) <= AgentCount + 1
      BY <2>6 DEF UpperVisit, Replaced, Visiting, Inv, CountInv, Swapping
    <3>3. Cardinality(Up) < AgentCount
      BY <1>1, <3>2, Numbers
    <3> QED
      BY <1>1, <2>1, <2>4, <2>6, <3>1, <3>2, <3>3, Numbers DEF UpperVisit
  <2> QED
    BY <2>1, <2>5, <2>6
<1>12. CASE AzureStep
  <2>1. UNCHANGED <<pc, agentVMs, count, todo>>
    BY <1>12, AzureMoving DEF AzureMoves, Inv
  <2> QED
    BY <1>4, <2>1
<1>13. CASE UNCHANGED vars
  BY <1>4, <1>13 DEF vars, visit
<1> QED
  BY <1>2, <1>5, <1>6, <1>7, <1>8, <1>9, <1>10, <1>11, <1>12, <1>13, VisitSteps

-----------------------------------------------------------------------------
(* Which pools are visited. *)

LEMMA FirstSteps ==
  ASSUME [Next]_vars, pc' \in First, ~Start
  PROVE  pc \in First /\ poolsTodo' = poolsTodo /\ seen' = seen
<1>1. CASE (\E i \in MasterIndices : DeleteMaster(i)) \/ FindMissingMaster \/ CreateMaster \/ MastersUpgraded
  BY <1>1 DEF DeleteMaster, FindMissingMaster, CreateMaster, MastersUpgraded, topology, listing, before,
     stages, First
<1>2. CASE UpgradeScaleSets
  <2>1. seen' = seen /\ poolsTodo' = poolsTodo
    BY <1>2 DEF UpgradeScaleSets, before, stages
  <2>2. pc \in First
    BY <1>2 DEF UpgradeScaleSets, ScaleSetStep, NextEntry, SetSku, DeleteInstance, InstanceNotFound,
       ScaleSetsUpgraded, First
  <2> QED
    BY <2>1, <2>2
<1>3. ~(\E p \in Pools : VisitPool(p)) /\ ~FailedNodesDeleted /\ ~CreateMissingAgent /\ ~PoolFilled
      /\ ~CreateAgent /\ ~AgentUpgraded
  BY DEF VisitPool, FailedNodesDeleted, CreateMissingAgent, PoolFilled, CreateAgent, AgentUpgraded, First
<1>4. ~(\E i \in Indices : DeleteFailedNode(i)) /\ ~(\E i \in Indices : DeleteAgent(i))
      /\ ~PoolUpgraded /\ ~PoolsUpgraded /\ ~Succeed
  BY DEF DeleteFailedNode, DeleteAgent, PoolUpgraded, PoolsUpgraded, Succeed, First
<1>5. ~(\E i \in Indices : AgentNotFound(i)) /\ ~AgentNotUpgraded /\ ~Failures
  BY DEF AgentNotFound, AgentNotUpgraded, Failures, CallFails, MasterNotReady, InstanceFails,
     ScaleSetCallFails, DeletionFails, Fail, ScaleSetsFail, First
<1>6. CASE AzureStep \/ Upgraded \/ UNCHANGED vars
  BY <1>6 DEF AzureStep, NodeComesUp, NodeDoesNot, NodeGone, Upgraded, vars, topology, listing, before,
     stages
<1> QED
  BY <1>1, <1>2, <1>3, <1>4, <1>5, <1>6 DEF Next, Advance

LEMMA PoolsKept ==
  ASSUME Inv, PoolsInv, [Next]_vars
  PROVE  PoolsInv'
<1>1. /\ seen \in [Pools -> [Indices -> VMStates]] /\ vms \in [Pools -> [Indices -> VMStates]]
      /\ poolsTodo \subseteq Pools /\ pool \in Pools
  BY DEF Inv, TypeOK
<1>2. CASE Start
  <2>1. /\ vms' = vms /\ seen' = vms /\ poolsTodo' = {p \in Pools : Agents(p) # {}} /\ pc' = "masters"
    BY <1>2 DEF Start, azure, agents
  <2>2. ASSUME NEW p \in Pools
        PROVE  Unseen(p)' <=> Agents(p) = {}
    BY <1>1, <2>1 DEF Unseen, Agents, Present, VMStates
  <2>3. ASSUME NEW p \in Pools, Agents(p) = {}
        PROVE  \A i \in Indices : vms[p][i] = "none"
    BY <1>1, <2>3 DEF Agents, Present
  <2> QED
    BY <2>1, <2>2, <2>3 DEF PoolsInv, Visiting
<1>3. CASE ~Start
  <2>1. pc' # "idle" => pc # "idle" /\ seen' = seen /\ poolsTodo' \subseteq poolsTodo
    BY <1>3, Continues
  <2>2. ASSUME pc' # "idle", NEW p \in Pools, Unseen(p)'
        PROVE  p \notin poolsTodo' /\ \A i \in Indices : vms'[p][i] = "none"
    <3>1. Unseen(p)
      BY <2>1, <2>2 DEF Unseen
    <3>2. p \notin poolsTodo /\ \A i \in Indices : vms[p][i] = "none"
      BY <2>1, <2>2, <3>1 DEF PoolsInv
    <3>3. pc \in Visiting => p # pool
      BY <3>1 DEF PoolsInv
    <3>4. CASE vms' = vms
      BY <2>1, <2>2, <3>2, <3>4
    <3>5. ASSUME NEW i \in Indices, NEW state, pc \in Visiting, Becomes(pool, i, state)
          PROVE  \A j \in Indices : vms'[p][j] = "none"
      BY <1>1, <3>2, <3>3, <3>5 DEF Becomes
    <3>6. CASE (\E i \in Indices : DeleteFailedNode(i)) \/ CreateMissingAgent
               \/ (\E i \in Indices : DeleteAgent(i)) \/ CreateAgent
      <4>1. \E i \in Indices : \E state \in {"none", "Creating"} : pc \in Visiting /\ Becomes(pool, i, state)
        BY <3>6, Purges, Fills, Deletes, Replaces DEF Visiting, Inv
      <4> QED
        BY <2>1, <2>2, <3>2, <3>5, <4>1
    <3>7. CASE \E i \in Indices : DeletionFails(i)
      BY <2>2, <3>7, FailsToDelete DEF Inv
    <3>8. CASE AzureStep
      <4>1. \E q \in Pools : \E i \in Indices : \E state \in VMStates :
              Becomes(q, i, state) /\ vms[q][i] # "none"
        BY <3>8, AzureMoving DEF Inv, AzureMoves
      <4>2. \A i \in Indices : vms'[p][i] = vms[p][i]
        BY <3>2, <4>1 DEF Becomes
      <4> QED
        BY <2>1, <2>2, <3>2, <4>2
    <3> QED
      BY <3>4, <3>6, <3>7, <3>8, VMSteps
  <2>3. ASSUME pc' \in Visiting
        PROVE  ~Unseen(pool)'
    <3>1. CASE \E p \in Pools : VisitPool(p)
      <4>1. PICK p \in Pools : VisitPool(p)
        BY <3>1
      <4>2. p \in poolsTodo /\ pool' = p /\ seen' = seen /\ pc # "idle"
        BY <4>1 DEF VisitPool, listing, before
      <4>3. ~Unseen(p)
        BY <4>2 DEF PoolsInv
      <4> QED
        BY <4>2, <4>3 DEF Unseen
    <3>2. CASE ~(\E p \in Pools : VisitPool(p))
      <4>1. pool' = pool /\ pc \in Visiting
        <5>1. CASE (\E i \in Indices : DeleteFailedNode(i)) \/ FailedNodesDeleted \/ CreateMissingAgent
                   \/ PoolFilled
          BY <5>1 DEF DeleteFailedNode, FailedNodesDeleted, CreateMissingAgent, PoolFilled, visit, Visiting
        <5>2. CASE (\E i \in Indices : DeleteAgent(i)) \/ CreateAgent \/ AgentUpgraded
          BY <5>2 DEF DeleteAgent, CreateAgent, AgentUpgraded, visit, Visiting
        <5>3. CASE AzureStep
          BY <2>3, <5>3 DEF AzureStep, NodeComesUp, NodeDoesNot, NodeGone, visit
        <5>4. CASE UNCHANGED vars
          BY <2>3, <5>4 DEF vars, visit
        <5> QED
          BY <2>3, <3>2, <5>1, <5>2, <5>3, <5>4, VisitSteps
      <4>2. seen' = seen
        BY <2>1, <2>3 DEF Visiting
      <4> QED
        BY <4>1, <4>2 DEF PoolsInv, Unseen
    <3> QED
      BY <3>1, <3>2
  <2>4. ASSUME pc' \in First, NEW p \in Pools
        PROVE  p \in poolsTodo' \/ Unseen(p)'
    BY <1>3, <2>4, FirstSteps DEF PoolsInv, Unseen
  <2> QED
    BY <2>2, <2>3, <2>4 DEF PoolsInv
<1> QED
  BY <1>2, <1>3

-----------------------------------------------------------------------------
(* What an attempt without error leaves. *)

LEMMA FinishSteps ==
  ASSUME MastersInv, [Next]_vars,
         pc' \in {"pools", "save"} \/ outcome' = "ok"
  PROVE  \/ PoolFilled /\ pc' = "save"
         \/ PoolUpgraded
         \/ PoolsUpgraded
         \/ Succeed
         \/ ScaleSetsUpgraded /\ UpgradeScaleSets
         \/ AzureStep
         \/ UNCHANGED vars
<1>1. outcome = "ok" => pc = "idle"
  BY DEF MastersInv
<1>2. ~Start /\ ~(\E i \in MasterIndices : DeleteMaster(i)) /\ ~FindMissingMaster /\ ~CreateMaster
      /\ ~MastersUpgraded
  BY <1>1 DEF Start, DeleteMaster, FindMissingMaster, CreateMaster, MastersUpgraded
<1>3. CASE UpgradeScaleSets /\ ~ScaleSetsUpgraded
  <2>1. outcome' # "ok"
    BY <1>1, <1>3 DEF UpgradeScaleSets, ScaleSetStep, NextEntry, SetSku, DeleteInstance, InstanceNotFound,
       ScaleSetsFail
  <2>2. pc' \notin {"save", "pools"}
    BY <1>3 DEF UpgradeScaleSets, ScaleSetStep, NextEntry, SetSku, DeleteInstance, InstanceNotFound,
       InstanceDone, ScaleSetsFail
  <2> QED
    BY <2>1, <2>2
<1>4. ~(\E p \in Pools : VisitPool(p)) /\ ~(\E i \in Indices : DeleteFailedNode(i))
      /\ ~FailedNodesDeleted /\ ~CreateMissingAgent
  BY <1>1 DEF VisitPool, DeleteFailedNode, FailedNodesDeleted, CreateMissingAgent
<1>5. CASE PoolFilled
  BY <1>1, <1>5 DEF PoolFilled
<1>6. ~(\E i \in Indices : DeleteAgent(i)) /\ ~CreateAgent /\ ~AgentUpgraded
  BY <1>1 DEF DeleteAgent, CreateAgent, AgentUpgraded
<1>7. ~(\E i \in Indices : AgentNotFound(i)) /\ ~AgentNotUpgraded /\ ~Failures
  BY DEF AgentNotFound, AgentNotUpgraded, Failures, CallFails, MasterNotReady, InstanceFails,
     ScaleSetCallFails, DeletionFails, Fail, ScaleSetsFail
<1> QED
  BY <1>2, <1>3, <1>4, <1>5, <1>6, <1>7 DEF Next, Advance, Upgraded

LEMMA DoneKept ==
  ASSUME NEW p, Pools = {p}, Inv, UpperInv, UpperVisit, PoolsInv, DoneInv, [Next]_vars
  PROVE  DoneInv'
<1> SUFFICES ASSUME pc' = "save" \/ outcome' = "ok" \/ (pc' = "pools" /\ poolsTodo' = {})
             PROVE  Finished(p)'
  BY DEF DoneInv
<1>1. /\ pool = p /\ poolsTodo \subseteq Pools /\ p \in Pools
      /\ vms \in [Pools -> [Indices -> VMStates]]
      /\ count \in Nat /\ todo \in Nat /\ Cardinality(Up) \in Nat /\ Cardinality(Not) \in Nat
  BY AgentsListed DEF Inv, TypeOK
<1>2. ASSUME Finished(p), vms' = vms, seen' = seen
      PROVE  Finished(p)'
  BY <1>2 DEF Finished, Renewed, Unseen
<1>3. ASSUME pc \in {"fill", "swap"}, Not = {}, Cardinality(Up) = AgentCount
      PROVE  Finished(p)
  <2>1. Renewed(p) = Up /\ Present(vms[p], {"old"}) = {}
    BY <1>1, <1>3, NodesListed
  <2> QED
    BY <1>1, <1>3, <2>1 DEF Finished, Present
<1>4. CASE PoolFilled /\ pc' = "save"
  <2>1. /\ pc = "fill" /\ count + todo >= AgentsNeeded /\ todo = 0 /\ UNCHANGED <<vms, seen>>
    BY <1>4 DEF PoolFilled, azure, agents, topology, listing, before
  <2>2. count = Cardinality(Up) /\ todo = Cardinality(Not) /\ Cardinality(Up) <= AgentCount
    BY <2>1 DEF Inv, CountInv, UpperVisit, Visiting
  <2>3. Not = {}
    BY <2>1, <2>2, AgentsListed, FS_EmptySet DEF Inv
  <2>4. Cardinality(Up) = AgentCount
    BY <1>1, <2>1, <2>2, Numbers DEF AgentsNeeded
  <2> QED
    BY <1>2, <1>3, <2>1, <2>3, <2>4
<1>5. CASE PoolUpgraded
  <2>1. pc = "swap" /\ Not = {} /\ UNCHANGED <<vms, seen>>
    BY <1>5 DEF PoolUpgraded, Not, azure, agents, topology, listing, before
  <2>2. Cardinality(Up) + Cardinality(Not) >= AgentCount /\ Cardinality(Up) <= AgentCount
    BY <2>1 DEF Inv, CountInv, Swapping, UpperVisit, Visiting
  <2>3. Cardinality(Not) = 0
    BY <2>1, FS_EmptySet
  <2>4. Cardinality(Up) = AgentCount
    BY <1>1, <2>2, <2>3, Numbers
  <2> QED
    BY <1>2, <1>3, <2>1, <2>4
<1>6. CASE PoolsUpgraded \/ Succeed
  <2>1. UNCHANGED <<vms, seen>> /\ (pc = "save" \/ (pc = "pools" /\ poolsTodo = {}))
    BY <1>6 DEF PoolsUpgraded, Succeed, azure, agents, topology, listing, before
  <2> QED
    BY <1>1, <1>2, <2>1 DEF DoneInv
<1>7. CASE ScaleSetsUpgraded /\ UpgradeScaleSets
  <2>1. /\ pc = "scaleSets" /\ pc' = "pools" /\ poolsTodo' = poolsTodo /\ UNCHANGED <<vms, seen, outcome>>
    BY <1>7 DEF ScaleSetsUpgraded, UpgradeScaleSets, before, stages
  <2>2. poolsTodo = {}
    BY <2>1 DEF Inv, MastersInv
  <2>3. Unseen(p) /\ \A i \in Indices : vms[p][i] = "none"
    BY <1>1, <2>1, <2>2 DEF PoolsInv, First
  <2> QED
    BY <1>2, <2>1, <2>3 DEF Finished
<1>8. CASE AzureStep
  <2>1. PICK q \in Pools : \E i \in Indices : \E state \in VMStates : AzureMoves(q, i, state)
    BY <1>8, AzureMoving DEF Inv
  <2>2. PICK i \in Indices : \E state \in VMStates : AzureMoves(q, i, state)
    BY <2>1
  <2>3. PICK state \in VMStates : AzureMoves(q, i, state)
    BY <2>2
  <2>4. /\ Becomes(q, i, state) /\ state # "old" /\ (state \in Fresh <=> vms[q][i] \in Fresh)
        /\ UNCHANGED <<pc, seen, poolsTodo, outcome>>
    BY <2>3 DEF AzureMoves, Fresh
  <2>5. Present(vms'[p], Fresh) = Present(vms[p], Fresh)
    BY <1>1, <2>4, VMCount
  <2>6. Finished(p)
    BY <1>1, <2>4 DEF DoneInv
  <2>7. \A j \in Indices : vms'[p][j] # "old"
    BY <1>1, <2>4, <2>6 DEF Finished, Becomes
  <2> QED
    BY <2>4, <2>5, <2>6, <2>7 DEF Finished, Renewed, Unseen
<1>9. CASE UNCHANGED vars
  <2>1. UNCHANGED <<vms, seen, pc, outcome, poolsTodo>>
    BY <1>9 DEF vars, azure, agents, topology, listing, before, stages
  <2> QED
    BY <1>1, <1>2, <2>1 DEF DoneInv
<1> QED
  BY <1>4, <1>5, <1>6, <1>7, <1>8, <1>9, FinishSteps DEF Inv

-----------------------------------------------------------------------------
(* The instances of scale sets. *)

Size(s)   == Cardinality(Instances(s))
Old(s)    == Present(instances[s], {"old"})
New(s)    == Present(instances[s], {"new"})
OnList(s) == UNION {listed[s][n] : n \in Pages}
Stale(s)  == OnList(s) \ Instances(s)

\* NewIDs always finds as many IDs as are free: among the sets with enough IDs that
\* leave out none lower than theirs, the smallest has no ID too many.
LEMMA Lowest ==
  ASSUME NEW free \in SUBSET Nat, IsFiniteSet(free), NEW k \in Nat, k <= Cardinality(free)
  PROVE  \E ids \in SUBSET free : Cardinality(ids) = k /\ \A i \in ids, j \in free \ ids : i < j
<1> DEFINE Low(ids) == \A i \in ids, j \in free \ ids : i < j
           T == {ids \in SUBSET free : k <= Cardinality(ids) /\ Low(ids)}
<1>1. IsWellFoundedOn(StrictSubsetOrdering(free), SUBSET free)
  BY FS_StrictSubsetOrderingWellFounded, FS_FiniteSubsetsOfFinite
<1>2. T \subseteq SUBSET free /\ free \in T
  OBVIOUS
<1>3. \E t \in T : \A u \in T : ~(<<u, t>> \in StrictSubsetOrdering(free))
  <2>1. T # {}
    BY <1>2
  <2> HIDE DEF T
  <2> QED
    BY <1>1, <1>2, <2>1, WFMin
<1>4. PICK ids \in T : \A u \in T : ~(<<u, ids>> \in StrictSubsetOrdering(free))
  BY <1>3
<1>5. /\ ids \subseteq free /\ IsFiniteSet(ids) /\ Cardinality(ids) \in Nat /\ k <= Cardinality(ids)
      /\ \A i \in ids, j \in free \ ids : i < j
  <2>1. ids \subseteq free /\ k <= Cardinality(ids) /\ Low(ids)
    OBVIOUS
  <2> QED
    BY <2>1, FS_Subset, FS_CardinalityType
<1>6. ASSUME k < Cardinality(ids)
      PROVE  FALSE
  <2>1. ids # {} /\ ids \in SUBSET Nat
    BY <1>5, <1>6, FS_EmptySet
  <2>2. PICK last \in ids : \A i \in ids : i <= last
    BY <1>5, <2>1, GreatestMember
  <2>3. Cardinality(ids \ {last}) = Cardinality(ids) - 1
    BY <1>5, FS_RemoveElement
  <2>4. ASSUME NEW i \in ids \ {last}, NEW j \in free \ (ids \ {last})
        PROVE  i < j
    <3>1. i \in Nat /\ last \in Nat /\ i # last /\ i <= last
      BY <2>1, <2>2
    <3>2. i < last
      BY <3>1
    <3> QED
      BY <1>5, <3>2
  <2>5. ids \ {last} \in T
    BY <1>5, <1>6, <2>3, <2>4
  <2>6. <<ids \ {last}, ids>> \in StrictSubsetOrdering(free)
    BY <1>5 DEF StrictSubsetOrdering
  <2> QED
    BY <1>4, <2>5, <2>6
<1>7. Cardinality(ids) = k
  BY <1>5, <1>6
<1> QED
  BY <1>5, <1>7

LEMMA IDsFinite ==
  /\ InstanceIDs \in SUBSET Nat /\ IsFiniteSet(InstanceIDs)
  /\ Cardinality(InstanceIDs) = AgentCount + 2 + MaxPages * (MaxFaults + 2)
<1>1. AgentCount + 2 + MaxPages * (MaxFaults + 2) \in Nat
  BY Numbers
<1> HIDE DEF InstanceIDs
<1> DEFINE most == AgentCount + 2 + MaxPages * (MaxFaults + 2)
<1>2. most \in Nat
  BY <1>1
<1>3. InstanceIDs = 1 .. most
  BY DEF InstanceIDs
<1> HIDE DEF most
<1>4. 1 .. most \in SUBSET Nat /\ IsFiniteSet(1 .. most) /\ Cardinality(1 .. most) = most
  BY <1>2, FS_Interval
<1> QED
  BY <1>3, <1>4 DEF most

LEMMA ListFinite ==
  ASSUME ScaleSetsTypeOK, NEW s \in Pools
  PROVE  /\ OnList(s) \subseteq InstanceIDs
         /\ IsFiniteSet(Stale(s)) /\ Cardinality(Stale(s)) \in Nat
         /\ IsFiniteSet(Instances(s)) /\ Instances(s) \subseteq InstanceIDs /\ Size(s) \in Nat
<1>1. \A n \in Pages : listed[s][n] \subseteq InstanceIDs
  BY DEF ScaleSetsTypeOK
<1>2. OnList(s) \subseteq InstanceIDs /\ Stale(s) \subseteq InstanceIDs
  BY <1>1 DEF OnList, Stale
<1> QED
  BY <1>2, IDsFinite, InstancesFinite, FS_Subset, FS_CardinalityType DEF Size

LEMMA NewIDsRight ==
  ASSUME ScaleSetsTypeOK, NEW s \in Pools, NEW k \in Nat,
         Size(s) + Cardinality(Stale(s)) + k <= Cardinality(InstanceIDs)
  PROVE  /\ NewIDs(s, k) \subseteq InstanceIDs \ (Instances(s) \cup OnList(s))
         /\ Cardinality(NewIDs(s, k)) = k
<1> DEFINE known == Instances(s) \cup OnList(s)
           free == InstanceIDs \ known
<1>1. /\ known = Instances(s) \cup Stale(s) /\ Instances(s) \cap Stale(s) = {}
      /\ known \subseteq InstanceIDs
  BY ListFinite DEF Stale
<1>2. /\ IsFiniteSet(known) /\ Cardinality(known) \in Nat
      /\ Cardinality(known) = Size(s) + Cardinality(Stale(s))
  BY <1>1, ListFinite, UnionCount DEF Size
<1>3. IsFiniteSet(InstanceIDs) /\ Cardinality(InstanceIDs) \in Nat
  BY IDsFinite, FS_CardinalityType
<1>4. Cardinality(free) = Cardinality(InstanceIDs) - Cardinality(known)
  <2>1. InstanceIDs \cap known = known
    BY <1>1
  <2> HIDE DEF known
  <2> QED
    BY <1>3, <2>1, FS_Difference
<1>5. free \in SUBSET Nat /\ IsFiniteSet(free)
  BY IDsFinite, FS_Subset
<1>6. k <= Cardinality(free)
  BY <1>2, <1>3, <1>4, ListFinite
<1>7. \E ids \in SUBSET free : Cardinality(ids) = k /\ \A i \in ids, j \in free \ ids : i < j
  BY <1>5, <1>6, Lowest
<1>8. NewIDs(s, k) = CHOOSE ids \in SUBSET free : Cardinality(ids) = k /\ \A i \in ids, j \in free \ ids : i < j
  BY DEF NewIDs, OnList
<1> HIDE DEF free
<1>9. NewIDs(s, k) \in SUBSET free /\ Cardinality(NewIDs(s, k)) = k
  BY <1>7, <1>8
<1> QED
  BY <1>9 DEF free

\* What raising the capacity makes of a scale set.
LEMMA ScaledUp ==
  ASSUME ScaleSetsTypeOK, NEW s \in Pools, NEW capacity \in Nat, Size(s) <= capacity,
         Cardinality(Stale(s)) + capacity <= Cardinality(InstanceIDs),
         NEW version \in {"old", "new"}, NEW scaled \in Scaled(s, capacity, version)
  PROVE  /\ Cardinality(Present(scaled, {"old", "new"})) = capacity
         /\ Instances(s) \subseteq Present(scaled, {"old", "new"})
         /\ OnList(s) \cap Present(scaled, {"old", "new"}) \subseteq Instances(s)
         /\ version = "new" => Present(scaled, {"old"}) = Old(s)
<1> DEFINE ids == NewIDs(s, capacity - Size(s))
<1>1. /\ Size(s) \in Nat /\ IsFiniteSet(Instances(s)) /\ Cardinality(Stale(s)) \in Nat
      /\ instances[s] \in [InstanceIDs -> {"none", "old", "new"}]
  BY ListFinite DEF ScaleSetsTypeOK
<1>2. /\ ids \subseteq InstanceIDs \ (Instances(s) \cup OnList(s))
      /\ Cardinality(ids) = capacity - Size(s)
  <2>1. Cardinality(InstanceIDs) \in Nat
    BY IDsFinite, FS_CardinalityType
  <2>2. capacity - Size(s) \in Nat
    BY <1>1
  <2>3. Size(s) + Cardinality(Stale(s)) + (capacity - Size(s)) <= Cardinality(InstanceIDs)
    BY <1>1, <2>1
  <2> QED
    BY <2>2, <2>3, NewIDsRight
<1>3. scaled = [i \in InstanceIDs |-> IF i \in ids THEN version ELSE instances[s][i]]
  BY <1>1 DEF Scaled, Size
<1> HIDE DEF ids
<1>4. /\ Present(scaled, {"old", "new"}) = Instances(s) \cup ids
      /\ version = "new" => Present(scaled, {"old"}) = Old(s)
  BY <1>1, <1>2, <1>3 DEF Present, Instances, Old
<1>5. IsFiniteSet(ids) /\ Instances(s) \cap ids = {}
  BY <1>2, IDsFinite, FS_Subset
<1>6. Cardinality(Instances(s) \cup ids) = Size(s) + Cardinality(ids)
  BY <1>1, <1>5, UnionCount DEF Size
<1>7. Cardinality(Instances(s) \cup ids) = capacity
  BY <1>1, <1>2, <1>6
<1> QED
  BY <1>2, <1>4, <1>7

\* What a deployment with the capacity of the api_model does.
LEMMA ScaledDown ==
  ASSUME ScaleSetsTypeOK, NEW s \in Pools, Size(s) >= AgentCount,
         NEW scaled \in Scaled(s, AgentCount, "new")
  PROVE  /\ Cardinality(Present(scaled, {"old", "new"})) = AgentCount
         /\ Present(scaled, {"old", "new"}) \subseteq Instances(s)
         /\ Present(scaled, {"old"}) \subseteq Old(s)
         /\ Present(scaled, {"new"}) \subseteq New(s)
<1>1. /\ Size(s) \in Nat /\ IsFiniteSet(Instances(s)) /\ Cardinality(Stale(s)) \in Nat
      /\ instances[s] \in [InstanceIDs -> {"none", "old", "new"}]
      /\ Instances(s) \subseteq InstanceIDs
  BY ListFinite DEF ScaleSetsTypeOK
<1>2. CASE Size(s) = AgentCount
  <2> DEFINE ids == NewIDs(s, 0)
  <2>1. scaled = [i \in InstanceIDs |-> IF i \in ids THEN "new" ELSE instances[s][i]]
    BY <1>1, <1>2, Numbers DEF Scaled, Size
  <2>2. \E free \in SUBSET InstanceIDs : ids = CHOOSE none \in SUBSET free :
          Cardinality(none) = 0 /\ \A i \in none, j \in free \ none : i < j
    BY DEF NewIDs
  <2>3. PICK free \in SUBSET InstanceIDs : ids = CHOOSE none \in SUBSET free :
          Cardinality(none) = 0 /\ \A i \in none, j \in free \ none : i < j
    BY <2>2
  <2> HIDE DEF ids
  <2>4. \E none \in SUBSET free : Cardinality(none) = 0 /\ \A i \in none, j \in free \ none : i < j
    BY FS_EmptySet
  <2>5. ids \in SUBSET free /\ Cardinality(ids) = 0
    BY <2>3, <2>4
  <2>6. ids = {}
    BY <2>5, IDsFinite, FS_Subset, FS_EmptySet
  <2>7. scaled = instances[s]
    BY <1>1, <2>1, <2>6
  <2> QED
    BY <1>2, <2>7 DEF Size, Instances, Old, New
<1>3. CASE Size(s) # AgentCount
  <2>1. PICK kept \in SUBSET Instances(s) :
          /\ Cardinality(kept) = AgentCount
          /\ scaled = [i \in InstanceIDs |-> IF i \in kept THEN instances[s][i] ELSE "none"]
    BY <1>1, <1>3, Numbers DEF Scaled, Size
  <2>2. /\ Present(scaled, {"old", "new"}) = kept
        /\ Present(scaled, {"old"}) \subseteq Old(s)
        /\ Present(scaled, {"new"}) \subseteq New(s)
    BY <1>1, <2>1 DEF Present, Instances, Old, New
  <2> QED
    BY <2>1, <2>2
<1> QED
  BY <1>2, <1>3

-----------------------------------------------------------------------------
(* How many instances there can be. *)

At(s)   == pc \in {"capacity", "instance"} /\ entry[1] = s
Left(s) == {n \in Pages : listed[s][n] # {} /\ ~(At(s) /\ entry[2] = n)}

\* After this many failures, an attempt that fails leaves so many instances at most:
\* every failed attempt can add one for each page.
Most(f) == AgentCount + 1 + MaxPages * (f + 1)

\* If the attempt deploys masters, these bring all scale sets back to AgentCount.
Limit == IF begun.u.redeploys THEN AgentCount + 1 ELSE Most(faults)

\* The pools are scale sets all or none, and an attempt then visits no pool.
NoVMs ==
  ScaleSets # {} =>
    /\ \A p \in Pools : \A i \in Indices : vms[p][i] = "none"
    /\ pc # "idle" => \A p \in Pools : Unseen(p)

PagesInv ==
  ScaleSets # {} =>
    /\ pc # "idle" => \A s \in Pools : \A m, n \in Pages : m # n => listed[s][m] \cap listed[s][n] = {}
    /\ pc \notin First \cup {"idle"} => listed = NothingListed
    /\ pc # "idle" /\ ~begun.u.redeploys => AllNew

\* The capacity and the pages left, for which it will be raised, are bounded while the
\* loop raises the one and empties the other.  An instance on the list is gone only
\* when a master's deployment has taken the one machine there was too many.
SizeInv(s) ==
  /\ Size(s) >= AgentCount
  /\ ~AllNew => Size(s) <= AgentCount + 1
  /\ pc = "idle" => Size(s) <= IF outcome = "ok" THEN Most(faults) + MaxPages - 1 ELSE Most(faults)
  /\ pc # "idle" =>
       /\ Size(s) <= sku[s]
       /\ sku[s] + Cardinality(Left(s)) <= Limit + MaxPages
       /\ Cardinality(Stale(s)) <= 1
       /\ Stale(s) # {} => begun.u.redeploys
  /\ pc \in {"masters", "master"} =>
       /\ sku[s] <= Limit
       /\ begun.u.redeploys => Size(s) + Cardinality(Stale(s)) <= AgentCount + 1
  /\ At(s) => sku[s] >= AgentCount + 1
  /\ At(s) /\ pc = "instance" => Size(s) = sku[s]
  /\ pc \notin {"idle", "masters", "master"} /\ ~At(s) /\ Left(s) # Pages =>
       Size(s) + Cardinality(Left(s)) <= Most(faults) + MaxPages - 1

SizesInv == \A s \in ScaleSets : SizeInv(s)

\* The instances of the old version are on the list, once a scale set makes new ones.
VersionInv(s) ==
  /\ model[s] = "old" => Cardinality(Present(masters, {"new"})) <= faults
  /\ pc \in {"masters", "master"} \/ (pc # "idle" /\ model[s] = "new") => Old(s) \subseteq OnList(s)
  /\ outcome = "ok" /\ model[s] = "new" => Old(s) = {}

VersionsInv == \A s \in ScaleSets : VersionInv(s)

LEMMA Mosts ==
  /\ \A f \in Nat : Most(f) \in Nat /\ Most(f) >= AgentCount + 1 + MaxPages
  /\ \A f \in Nat : Most(f + 1) = Most(f) + MaxPages
  /\ \A f \in 0 .. MaxFaults : Most(f) + MaxPages + 1 <= Cardinality(InstanceIDs)
  /\ \A f \in Nat : Most(f) + MaxPages - 1 = AgentCount + MaxPages * (f + 2)
<1>1. ASSUME NEW f \in Nat
      PROVE  /\ MaxPages * f \in Nat
             /\ MaxPages * (f + 1) = MaxPages * f + MaxPages
             /\ MaxPages * (f + 1 + 1) = MaxPages * f + MaxPages + MaxPages
             /\ MaxPages * (f + 2) = MaxPages * f + MaxPages + MaxPages
  BY <1>1, Numbers
<1>2. ASSUME NEW f \in 0 .. MaxFaults
      PROVE  MaxPages * (f + 2) <= MaxPages * (MaxFaults + 2)
  <2>1. f + 2 \in Nat /\ MaxFaults + 2 \in Nat /\ f + 2 <= MaxFaults + 2
    BY <1>2, Numbers
  <2>2. ASSUME NEW a \in Nat, NEW b \in Nat, NEW c \in Nat, a <= b
        PROVE  c * a <= c * b
    <3>1. PICK d \in Nat : b = a + d
      <4>1. b - a \in Nat /\ b = a + (b - a)
        BY <2>2
      <4> QED
        BY <4>1
    <3>2. c * (a + d) = c * a + c * d /\ c * d \in Nat /\ c * a \in Nat
      OBVIOUS
    <3> QED
      BY <3>1, <3>2
  <2> QED
    BY <2>1, <2>2, Numbers
<1>3. ASSUME NEW f \in Nat
      PROVE  /\ Most(f) \in Nat /\ Most(f) >= AgentCount + 1 + MaxPages
             /\ Most(f + 1) = Most(f) + MaxPages
             /\ Most(f) + MaxPages - 1 = AgentCount + MaxPages * (f + 2)
  BY <1>1, <1>3, Numbers DEF Most
<1>4. ASSUME NEW f \in 0 .. MaxFaults
      PROVE  Most(f) + MaxPages + 1 <= Cardinality(InstanceIDs)
  <2>1. f \in Nat /\ MaxPages * (f + 2) \in Nat /\ MaxPages * (MaxFaults + 2) \in Nat
    BY Numbers
  <2>2. Most(f) + MaxPages - 1 = AgentCount + MaxPages * (f + 2) /\ Most(f) \in Nat
    BY <1>3, <2>1
  <2> QED
    BY <1>2, <2>1, <2>2, IDsFinite, Numbers
<1> QED
  BY <1>3, <1>4

LEMMA NothingVisited ==
  ASSUME Inv, PoolsInv, NoVMs, ScaleSets # {}
  PROVE  ScaleSets = Pools /\ pc \notin Visiting
<1>1. pool \in Pools /\ ScaleSets = Pools
  BY DEF Inv, TypeOK, ScaleSets
<1>2. ASSUME pc \in Visiting
      PROVE  FALSE
  <2>1. pc # "idle" /\ ~Unseen(pool)
    BY <1>2 DEF Visiting, PoolsInv
  <2> QED
    BY <1>1, <2>1 DEF NoVMs
<1> QED
  BY <1>1, <1>2

LEMMA NoVMsKept ==
  ASSUME Inv, PoolsInv, NoVMs, [Next]_vars
  PROVE  NoVMs'
<1> SUFFICES ASSUME ScaleSets # {}
             PROVE  /\ \A p \in Pools : \A i \in Indices : vms'[p][i] = "none"
                    /\ pc' # "idle" => \A p \in Pools : Unseen(p)'
  BY ProfileKept DEF NoVMs
<1>1. pc \notin Visiting /\ \A p \in Pools : \A i \in Indices : vms[p][i] = "none"
  BY NothingVisited DEF NoVMs
<1>2. vms' = vms
  <2>1. ~(\E i \in Indices : DeleteFailedNode(i)) /\ ~CreateMissingAgent
        /\ ~(\E i \in Indices : DeleteAgent(i)) /\ ~CreateAgent /\ ~(\E i \in Indices : DeletionFails(i))
    BY <1>1 DEF DeleteFailedNode, CreateMissingAgent, DeleteAgent, CreateAgent, DeletionFails, Visiting
  <2>2. ~AzureStep
    BY <1>1 DEF AzureStep, NodeComesUp, NodeDoesNot, NodeGone
  <2> QED
    BY <2>1, <2>2, VMSteps
<1>3. ASSUME pc' # "idle", NEW p \in Pools
      PROVE  Unseen(p)'
  <2>1. CASE Start
    <3>1. seen' = vms
      BY <2>1 DEF Start
    <3>2. vms[p] \in [Indices -> VMStates]
      BY DEF Inv, TypeOK
    <3> QED
      BY <1>1, <3>1, <3>2 DEF Unseen, Present
  <2>2. CASE ~Start
    <3>1. pc # "idle" /\ seen' = seen
      BY <1>3, <2>2, Continues
    <3> QED
      BY <3>1 DEF NoVMs, Unseen
  <2> QED
    BY <2>1, <2>2
<1> QED
  BY <1>1, <1>2, <1>3

\* The steps, as far as scale sets are concerned.
Ends == pc # "idle" /\ ScaleSetsFail /\ begun' = begun /\ faults' = faults + 1

Deploys ==
  /\ pc = "master"
  /\ ScaleSetsDeployed
  /\ begun' = begun
  /\ \/ pc' = "masters" /\ UNCHANGED <<entries, outcome, faults>>
     \/ Ends

Passes ==
  /\ UNCHANGED <<scaleSets, entries, begun>>
  /\ \/ UNCHANGED <<pc, outcome>>
     \/ pc \in {"masters", "master"} /\ pc' \in {"masters", "master", "scaleSets"} /\ outcome' = outcome
     \/ pc = "scaleSets" /\ pc' = "pools" /\ listed = NothingListed /\ outcome' = outcome
     \/ pc \notin First \cup {"idle"} /\ pc' \notin First \cup {"idle"} /\ outcome' = outcome
     \/ pc \notin First \cup {"idle"} /\ pc' = "idle" /\ outcome' = "ok"

LEMMA ScaleSteps ==
  ASSUME [Next]_vars, pc \notin Visiting
  PROVE  \/ Start
         \/ Deploys
         \/ begun' = begun /\ \E s \in Pools, n \in Pages : NextEntry(s, n)
         \/ begun' = begun /\ SetSku
         \/ begun' = begun /\ \E i \in InstanceIDs : DeleteInstance(i) \/ InstanceNotFound(i)
         \/ begun' = begun /\ ScaleSetCallFails
         \/ Ends /\ UNCHANGED scaleSets
         \/ Passes
<1>1. CASE (\E i \in MasterIndices : DeleteMaster(i)) \/ FindMissingMaster \/ MastersUpgraded
  BY <1>1 DEF DeleteMaster, FindMissingMaster, MastersUpgraded, azure, agents, topology, listing, before,
     Passes
<1>2. CASE CreateMaster
  BY <1>2 DEF CreateMaster, Deploys, listing, before
<1>3. CASE UpgradeScaleSets
  <2>1. begun' = begun
    BY <1>3 DEF UpgradeScaleSets, before
  <2>2. ScaleSetsUpgraded => Passes
    BY <2>1 DEF ScaleSetsUpgraded, Passes
  <2> QED
    BY <1>3, <2>1, <2>2 DEF UpgradeScaleSets, ScaleSetStep
<1>4. CASE (\E p \in Pools : VisitPool(p)) \/ PoolsUpgraded \/ Succeed
  BY <1>4 DEF VisitPool, PoolsUpgraded, Succeed, azure, agents, topology, listing, before, Passes, First
<1>5. ~(\E i \in Indices : DeleteFailedNode(i)) /\ ~FailedNodesDeleted /\ ~CreateMissingAgent /\ ~PoolFilled
      /\ ~(\E i \in Indices : DeleteAgent(i)) /\ ~CreateAgent /\ ~AgentUpgraded /\ ~PoolUpgraded
  BY DEF DeleteFailedNode, FailedNodesDeleted, CreateMissingAgent, PoolFilled, DeleteAgent, CreateAgent,
     AgentUpgraded, PoolUpgraded, Visiting
<1>6. ~(\E i \in Indices : AgentNotFound(i)) /\ ~AgentNotUpgraded /\ ~(\E i \in Indices : DeletionFails(i))
  BY DEF AgentNotFound, AgentNotUpgraded, DeletionFails, Visiting
<1>7. CASE CallFails
  BY <1>7 DEF CallFails, Fault, Fail, before, azure, agents, Ends
<1>8. CASE MasterNotReady
  BY <1>8 DEF MasterNotReady, Fault, Fail, before, Ends, Deploys
<1>9. CASE InstanceFails
  BY <1>9 DEF InstanceFails, before
<1>10. CASE AzureStep \/ Upgraded \/ UNCHANGED vars
  BY <1>10 DEF AzureStep, NodeComesUp, NodeDoesNot, NodeGone, Upgraded, vars, others, azure, agents,
     topology, listing, before, Passes
<1> QED
  BY <1>1, <1>2, <1>3, <1>4, <1>5, <1>6, <1>7, <1>8, <1>9, <1>10 DEF Next, Advance, Failures

\* An attempt deletes no new master.
LEMMA NewStays ==
  ASSUME Inv, AllNew, [Next]_vars
  PROVE  AllNew'
<1>1. masters \in [MasterIndices -> {"none", "old", "new"}]
  BY DEF Inv, TypeOK
<1>2. ASSUME NEW i \in MasterIndices, DeleteMaster(i)
      PROVE  FALSE
  BY <1>2 DEF DeleteMaster, Inv, MastersInv, AllNew, Present
<1>3. CASE CreateMaster \/ MasterNotReady
  <2>1. masters' = masters \/ masters' = [masters EXCEPT ![index] = "new"]
    BY <1>3 DEF CreateMaster, MasterNotReady
  <2> QED
    BY <1>1, <2>1 DEF AllNew
<1>4. CASE Start \/ FindMissingMaster \/ MastersUpgraded
  BY <1>4 DEF Start, FindMissingMaster, MastersUpgraded, azure, AllNew
<1>5. CASE ~MastersStep
  BY <1>5, OtherSteps DEF Inv, AllNew
<1> QED
  BY <1>2, <1>3, <1>4, <1>5 DEF MastersStep

LEMMA DoneListed ==
  ASSUME ScaleSetsTypeOK, NEW i, InstanceDone(i)
  PROVE  \A s \in Pools : \A n \in Pages :
           listed'[s][n] = IF <<s, n>> = entry THEN listed[s][n] \ {i} ELSE listed[s][n]
<1>1. listed \in [Pools -> [Pages -> SUBSET InstanceIDs]]
  BY DEF ScaleSetsTypeOK
<1>2. PICK t \in Pools : \E m \in Pages : entry = <<t, m>>
  BY DEF ScaleSetsTypeOK
<1>3. PICK m \in Pages : entry = <<t, m>>
  BY <1>2
<1>4. listed' = [listed EXCEPT ![t][m] = @ \ {i}]
  BY <1>3 DEF InstanceDone
<1>5. ASSUME NEW s \in Pools, NEW n \in Pages
      PROVE  listed'[s][n] = IF s = t /\ n = m THEN listed[s][n] \ {i} ELSE listed[s][n]
  BY <1>1, <1>4
<1> QED
  BY <1>3, <1>5

LEMMA PagesKept ==
  ASSUME Inv, PoolsInv, NoVMs, PagesInv, [Next]_vars
  PROVE  PagesInv'
<1> SUFFICES ASSUME ScaleSets # {}, pc' # "idle"
             PROVE  /\ \A s \in Pools : \A m, n \in Pages : m # n => listed'[s][m] \cap listed'[s][n] = {}
                    /\ pc' \notin First \cup {"idle"} => listed' = NothingListed
                    /\ ~begun'.u.redeploys => AllNew'
  BY ProfileKept DEF PagesInv, NothingListed, Pages
<1>1. pc \notin Visiting /\ ScaleSetsTypeOK
  BY NothingVisited DEF Inv, TypeOK
<1>2. CASE Start
  <2>1. /\ ListScaleSets /\ pc' = "masters" /\ masters' = masters
        /\ begun'.u.redeploys = (Present(masters, {"new"}) # MasterIndices)
    BY <1>2 DEF Start, Now, azure
  <2>2. ~begun'.u.redeploys => AllNew'
    BY <2>1 DEF AllNew, Present
  <2> QED
    BY <2>1, <2>2 DEF ListScaleSets, First
<1>3. CASE ~Start
  <2>1. /\ pc # "idle" /\ begun' = begun
        /\ listed' = listed \/ \E i : InstanceDone(i)
        /\ pc' \notin First \cup {"idle"} => listed' = listed /\ (pc \notin First \cup {"idle"} \/ listed = NothingListed)
    <3>1. pc # "idle"
      BY <1>3, Continues
    <3>2. CASE Deploys
      BY <3>1, <3>2 DEF Deploys, Ends, ScaleSetsFail, entries, First
    <3>3. CASE begun' = begun /\ ((\E s \in Pools, n \in Pages : NextEntry(s, n)) \/ SetSku)
      BY <3>1, <3>3 DEF NextEntry, SetSku, entries, First
    <3>4. CASE begun' = begun /\ \E i \in InstanceIDs : DeleteInstance(i) \/ InstanceNotFound(i)
      <4>1. \E i : InstanceDone(i)
        BY <3>4 DEF DeleteInstance, InstanceNotFound, ScaleSetsFail
      <4>2. pc' \in First
        BY <4>1 DEF InstanceDone, First
      <4> QED
        BY <3>1, <3>4, <4>1, <4>2
    <3>5. CASE Passes
      BY <3>1, <3>5 DEF Passes, entries, First
    <3>6. ~ScaleSetCallFails /\ ~Ends
      BY DEF ScaleSetCallFails, Ends, ScaleSetsFail
    <3> QED
      BY <1>1, <1>3, <3>2, <3>3, <3>4, <3>5, <3>6, ScaleSteps
  <2>2. \A s \in Pools : \A n \in Pages : listed'[s][n] \subseteq listed[s][n]
    BY <1>1, <2>1, DoneListed
  <2>3. \A s \in Pools : \A m, n \in Pages : m # n => listed'[s][m] \cap listed'[s][n] = {}
    BY <2>1, <2>2 DEF PagesInv
  <2>4. ~begun'.u.redeploys => AllNew'
    BY <2>1, NewStays DEF PagesInv
  <2>5. pc' \notin First \cup {"idle"} => listed' = NothingListed
    BY <2>1 DEF PagesInv
  <2> QED
    BY <2>3, <2>4, <2>5
<1> QED
  BY <1>2, <1>3

\* What the terms of SizeInv are.
Sized(s) ==
  /\ Size(s) \in Nat /\ sku[s] \in Nat
  /\ IsFiniteSet(Left(s)) /\ Cardinality(Left(s)) \in Nat /\ Cardinality(Left(s)) <= MaxPages
  /\ Left(s) # Pages => Cardinality(Left(s)) <= MaxPages - 1
  /\ IsFiniteSet(Stale(s)) /\ Cardinality(Stale(s)) \in Nat
  /\ IsFiniteSet(Instances(s))

Bounded ==
  /\ faults \in 0 .. MaxFaults
  /\ Most(faults) \in Nat /\ Limit \in Nat
  /\ AgentCount + 1 <= Limit /\ Limit <= Most(faults)
  /\ begun.u.redeploys => Limit + MaxPages <= Most(faults)

LEMMA SizesTyped ==
  Inv => (\A s \in Pools : Sized(s)) /\ Bounded
<1> SUFFICES ASSUME Inv
             PROVE  (\A s \in Pools : Sized(s)) /\ Bounded
  OBVIOUS
<1>1. ScaleSetsTypeOK /\ faults \in 0 .. MaxFaults /\ faults \in Nat
  BY Numbers DEF Inv, TypeOK
<1>2. Bounded
  BY <1>1, Mosts, Numbers DEF Bounded, Limit
<1>3. IsFiniteSet(Pages) /\ Cardinality(Pages) = MaxPages
  BY Numbers, FS_Interval DEF Pages
<1>4. ASSUME NEW s \in Pools
      PROVE  Sized(s)
  <2>1. Left(s) \subseteq Pages /\ sku[s] \in Nat
    BY <1>1 DEF Left, ScaleSetsTypeOK
  <2>2. IsFiniteSet(Left(s)) /\ Cardinality(Left(s)) \in Nat /\ Cardinality(Left(s)) <= MaxPages
    BY <1>3, <2>1, FS_Subset, FS_CardinalityType
  <2>3. Cardinality(Left(s)) = MaxPages => Left(s) = Pages
    BY <1>3, <2>1, FS_Subset
  <2>4. Left(s) # Pages => Cardinality(Left(s)) <= MaxPages - 1
    BY <2>2, <2>3, Numbers
  <2> QED
    BY <1>1, <2>1, <2>2, <2>4, ListFinite DEF Sized
<1> QED
  BY <1>2, <1>4

LEMMA SizesTypedNext ==
  Inv' => ((\A s \in Pools : Sized(s)) /\ Bounded)'
<1> QED
  BY SizesTyped, PTL

LEMMA FaultsBound ==
  ASSUME Inv, [Next]_vars
  PROVE  /\ Most(faults) <= Most(faults')
         /\ faults' = faults + 1 => Most(faults') = Most(faults) + MaxPages
         /\ begun' = begun => Limit <= Limit'
<1>1. faults \in Nat /\ faults' \in {faults, faults + 1}
  BY FaultsGrow, Numbers DEF Inv, TypeOK
<1>2. Most(faults) \in Nat /\ Most(faults + 1) = Most(faults) + MaxPages
  BY <1>1, Mosts
<1>3. /\ Most(faults) <= Most(faults')
      /\ faults' = faults + 1 => Most(faults') = Most(faults) + MaxPages
  BY <1>1, <1>2, Numbers
<1>4. begun' = begun => Limit <= Limit'
  <2>1. SUFFICES ASSUME begun' = begun
                 PROVE  Limit <= Limit'
    OBVIOUS
  <2>2. Limit' = IF begun.u.redeploys THEN AgentCount + 1 ELSE Most(faults')
    BY <2>1 DEF Limit, Most
  <2> QED
    BY <1>3, <2>2, Numbers DEF Limit
<1> QED
  BY <1>3, <1>4

-----------------------------------------------------------------------------
(* The steps that concern the instances. *)

LEMMA Same ==
  ASSUME NEW s, instances'[s] = instances[s]
  PROVE  Instances(s)' = Instances(s) /\ Size(s)' = Size(s) /\ Old(s)' = Old(s)
<1> QED
  BY DEF Instances, Size, Old

LEMMA CapacityRaised ==
  ASSUME Inv, SizesInv, ScaleSets = Pools, pc = "capacity", SetCapacity(entry[1], sku[entry[1]]),
         NEW s \in Pools
  PROVE  /\ s # entry[1] => instances'[s] = instances[s]
         /\ s = entry[1] =>
              /\ Size(s)' = sku[s]
              /\ Instances(s) \subseteq Instances(s)'
              /\ OnList(s) \cap Instances(s)' \subseteq Instances(s)
              /\ model[s] = "new" => Old(s)' = Old(s)
<1>1. /\ ScaleSetsTypeOK /\ entry[1] \in Pools
      /\ instances \in [Pools -> [InstanceIDs -> {"none", "old", "new"}]]
      /\ model[s] \in {"old", "new"}
  BY DEF Inv, TypeOK, ScaleSetsTypeOK
<1>2. PICK scaled \in Scaled(entry[1], sku[entry[1]], model[entry[1]]) :
        instances' = [instances EXCEPT ![entry[1]] = scaled]
  BY DEF SetCapacity
<1>3. CASE s # entry[1]
  BY <1>1, <1>2, <1>3
<1>4. CASE s = entry[1]
  <2>1. instances'[s] = scaled /\ scaled \in Scaled(s, sku[s], model[s])
    BY <1>1, <1>2, <1>4
  <2>2. /\ Size(s) <= sku[s] /\ sku[s] + Cardinality(Left(s)) <= Limit + MaxPages
        /\ Cardinality(Stale(s)) <= 1 /\ (Stale(s) # {} => begun.u.redeploys)
    BY DEF SizesInv, SizeInv
  <2>3. Sized(s) /\ Bounded /\ Most(faults) + MaxPages + 1 <= Cardinality(InstanceIDs)
        /\ Cardinality(InstanceIDs) \in Nat
    BY SizesTyped, Mosts, IDsFinite, FS_CardinalityType DEF Bounded
  <2>4. Cardinality(Stale(s)) + sku[s] <= Cardinality(InstanceIDs)
    BY <2>2, <2>3, Numbers DEF Sized, Bounded
  <2>5. /\ Cardinality(Present(scaled, {"old", "new"})) = sku[s]
        /\ Instances(s) \subseteq Present(scaled, {"old", "new"})
        /\ OnList(s) \cap Present(scaled, {"old", "new"}) \subseteq Instances(s)
        /\ model[s] = "new" => Present(scaled, {"old"}) = Old(s)
    BY <1>1, <2>1, <2>2, <2>3, <2>4, ScaledUp DEF Sized
  <2>6. Instances(s)' = Present(scaled, {"old", "new"}) /\ Old(s)' = Present(scaled, {"old"})
    BY <2>1 DEF Instances, Old, Present
  <2> QED
    BY <1>4, <2>5, <2>6 DEF Size
<1> QED
  BY <1>3, <1>4

LEMMA InstanceRemoved ==
  ASSUME Inv, NEW t \in Pools, NEW i, Remove(t, i), NEW s \in Pools
  PROVE  /\ s # t => instances'[s] = instances[s]
         /\ s = t =>
              /\ Instances(s)' = Instances(s) \ {i}
              /\ Old(s)' = Old(s) \ {i}
              /\ Size(s)' = IF i \in Instances(s) THEN Size(s) - 1 ELSE Size(s)
<1>1. instances \in [Pools -> [InstanceIDs -> {"none", "old", "new"}]]
  BY DEF Inv, TypeOK, ScaleSetsTypeOK
<1>2. instances' = [instances EXCEPT ![t][i] = "none"]
  BY DEF Remove
<1>3. s # t => instances'[s] = instances[s]
  BY <1>1, <1>2
<1>4. CASE s = t
  <2>1. instances'[s] = [instances[s] EXCEPT ![i] = "none"] /\ instances[s] \in [InstanceIDs -> {"none", "old", "new"}]
    BY <1>1, <1>2, <1>4
  <2>2. Instances(s)' = Instances(s) \ {i} /\ Old(s)' = Old(s) \ {i}
    BY <2>1 DEF Instances, Old, Present
  <2>3. Size(s)' = IF i \in Instances(s) THEN Size(s) - 1 ELSE Size(s)
    <3>1. IsFiniteSet(Instances(s))
      BY SizesTyped DEF Sized
    <3>2. i \notin Instances(s) => Instances(s) \ {i} = Instances(s)
      OBVIOUS
    <3> QED
      BY <2>2, <3>1, <3>2, FS_RemoveElement DEF Size
  <2> QED
    BY <1>4, <2>2, <2>3
<1> QED
  BY <1>3, <1>4

\* The new master's deployment scales in, by one machine at most.
LEMMA Deployed ==
  ASSUME Inv, PagesInv, SizesInv, ScaleSets = Pools, Deploys, NEW s \in Pools
  PROVE  /\ ~AllNew /\ begun.u.redeploys
         /\ Instances(s)' \subseteq Instances(s) /\ Size(s)' = AgentCount
         /\ Old(s)' \subseteq Old(s) /\ New(s)' \subseteq New(s) /\ model'[s] = "new"
         /\ Cardinality(OnList(s) \ Instances(s)') <= 1
<1>1. ~AllNew /\ begun.u.redeploys
  <2>1. pc = "master"
    BY DEF Deploys
  <2>2. ~AllNew
    BY <2>1 DEF Inv, MastersInv, AllNew
  <2> QED
    BY <2>1, <2>2 DEF PagesInv
<1>2. /\ Size(s) >= AgentCount /\ Size(s) <= AgentCount + 1
      /\ Size(s) + Cardinality(Stale(s)) <= AgentCount + 1
  BY <1>1 DEF SizesInv, SizeInv, Deploys
<1>3. ScaleSetsTypeOK /\ instances'[s] \in Scaled(s, AgentCount, "new") /\ model'[s] = "new"
  BY DEF Deploys, ScaleSetsDeployed, Inv, TypeOK
<1>4. /\ Cardinality(Present(instances'[s], {"old", "new"})) = AgentCount
      /\ Present(instances'[s], {"old", "new"}) \subseteq Instances(s)
      /\ Present(instances'[s], {"old"}) \subseteq Old(s)
      /\ Present(instances'[s], {"new"}) \subseteq New(s)
  BY <1>2, <1>3, ScaledDown
<1>5. /\ Instances(s)' \subseteq Instances(s) /\ Size(s)' = AgentCount
      /\ Old(s)' \subseteq Old(s) /\ New(s)' \subseteq New(s)
  BY <1>4 DEF Instances, Size, Old, New
<1>6. Sized(s)
  BY SizesTyped
<1>7. Cardinality(OnList(s) \ Instances(s)') <= 1
  <2> DEFINE gone == Instances(s) \ Instances(s)'
  <2>1. Instances(s) \cap Instances(s)' = Instances(s)'
    BY <1>5
  <2>2. IsFiniteSet(gone) /\ Cardinality(gone) = Size(s) - AgentCount
    <3>1. IsFiniteSet(gone) /\ Cardinality(gone) = Cardinality(Instances(s)) - Cardinality(Instances(s) \cap Instances(s)')
      BY <1>6, FS_Difference DEF Sized
    <3> HIDE DEF gone
    <3>2. Cardinality(gone) = Cardinality(Instances(s)) - Cardinality(Instances(s)')
      BY <2>1, <3>1
    <3> QED
      BY <1>5, <3>1, <3>2 DEF Size
  <2>3. OnList(s) \ Instances(s)' \subseteq Stale(s) \cup gone
    BY DEF Stale
  <2> HIDE DEF gone
  <2>4. IsFiniteSet(Stale(s) \cup gone) /\ Cardinality(Stale(s) \cup gone) <= Cardinality(Stale(s)) + Cardinality(gone)
        /\ Cardinality(Stale(s) \cup gone) \in Nat
    BY <1>6, <2>2, UnionCount DEF Sized
  <2>5. /\ Cardinality(OnList(s) \ Instances(s)') <= Cardinality(Stale(s) \cup gone)
        /\ Cardinality(OnList(s) \ Instances(s)') \in Nat
    BY <2>3, <2>4, FS_Subset, FS_CardinalityType
  <2> QED
    BY <1>2, <1>6, <2>2, <2>4, <2>5, Numbers DEF Sized
<1> QED
  BY <1>1, <1>3, <1>5, <1>7

LEMMA SizeEnds ==
  ASSUME NEW s \in Pools, pc' = "idle", outcome' = "error",
         Size(s)' >= AgentCount, Size(s)' <= Most(faults'),
         ~AllNew' => Size(s)' <= AgentCount + 1
  PROVE  SizeInv(s)'
<1> QED
  BY DEF SizeInv, At

LEMMA SizeStart ==
  ASSUME Inv, Inv', SizesInv, ScaleSets = Pools, Start, NEW s \in Pools
  PROVE  SizeInv(s)'
<1>1. /\ pc = "idle" /\ outcome # "ok" /\ pc' = "masters"
      /\ masters' = masters /\ instances' = instances /\ faults' = faults
      /\ begun'.u.redeploys = (Present(masters, {"new"}) # MasterIndices)
      /\ ListScaleSets
  BY DEF Start, azure, agents, scaleSets, Now
<1>2. sku'[s] = Size(s) /\ OnList(s)' = Old(s)
  BY <1>1 DEF ListScaleSets, Size, OnList, Old, Pages
<1>3. Size(s)' = Size(s) /\ Stale(s)' = {}
  BY <1>1, <1>2 DEF Size, Instances, Stale, Old, Present
<1>4. (AllNew' <=> AllNew) /\ (begun'.u.redeploys <=> ~AllNew)
  <2>1. masters \in [MasterIndices -> {"none", "old", "new"}]
    BY DEF Inv, TypeOK
  <2>2. AllNew <=> Present(masters, {"new"}) = MasterIndices
    BY <2>1 DEF AllNew, Present
  <2>3. AllNew' <=> AllNew
    BY <1>1 DEF AllNew
  <2> QED
    BY <1>1, <2>2, <2>3
<1>5. ~At(s)'
  BY <1>1 DEF At
<1>6. Sized(s)' /\ Bounded' /\ Sized(s) /\ Bounded
  BY SizesTyped, SizesTypedNext
<1>7. Limit' = IF begun'.u.redeploys THEN AgentCount + 1 ELSE Most(faults)
  BY <1>1 DEF Limit, Most
<1>8. /\ Size(s) >= AgentCount
      /\ ~AllNew => Size(s) <= AgentCount + 1
      /\ Size(s) <= Most(faults)
  BY <1>1 DEF SizesInv, SizeInv
<1>9. Size(s) <= Limit'
  BY <1>4, <1>7, <1>8
<1>10. Cardinality(Stale(s)') = 0
  BY <1>3, FS_EmptySet
<1> QED
  BY <1>1, <1>2, <1>3, <1>4, <1>5, <1>6, <1>8, <1>9, <1>10, Numbers DEF SizeInv, Sized, Bounded

LEMMA SizeDeploys ==
  ASSUME Inv, Inv', PagesInv, SizesInv, ScaleSets = Pools, Deploys, [Next]_vars, NEW s \in Pools
  PROVE  SizeInv(s)'
<1>1. /\ pc = "master" /\ begun' = begun /\ begun.u.redeploys
      /\ Size(s)' = AgentCount /\ Cardinality(OnList(s) \ Instances(s)') <= 1
  BY Deployed DEF Deploys
<1>2. Sized(s)' /\ Bounded' /\ Sized(s) /\ Bounded
  BY SizesTyped, SizesTypedNext
<1>3. CASE Ends
  <2>1. AgentCount <= Most(faults')
    BY <1>2, FaultsBound, Numbers DEF Bounded
  <2> QED
    BY <1>1, <1>3, <2>1, SizeEnds, Numbers DEF Ends, ScaleSetsFail
<1>4. CASE pc' = "masters" /\ UNCHANGED <<entries, outcome, faults>>
  <2>1. OnList(s)' = OnList(s) /\ sku' = sku /\ Limit' = Limit
    BY <1>1, <1>4 DEF OnList, entries, Limit, Most, Pages
  <2>2. Left(s)' = Left(s) /\ ~At(s)'
    BY <1>1, <1>4 DEF Left, At, entries, Pages
  <2>3. Stale(s)' = OnList(s) \ Instances(s)'
    BY <2>1 DEF Stale
  <2>4. /\ sku[s] + Cardinality(Left(s)) <= Limit + MaxPages /\ sku[s] <= Limit
        /\ AgentCount <= Size(s) /\ Size(s) <= sku[s]
    BY <1>1 DEF SizesInv, SizeInv
  <2>5. AgentCount <= sku[s]
    BY <1>2, <2>4, Numbers DEF Sized
  <2>6. Cardinality(Stale(s)') <= 1
    BY <1>1, <2>3
  <2> QED
    BY <1>1, <1>2, <1>4, <2>1, <2>2, <2>4, <2>5, <2>6, Numbers DEF SizeInv, Sized, Bounded
<1> QED
  BY <1>3, <1>4 DEF Deploys

LEMMA SizePasses ==
  ASSUME Inv, Inv', PagesInv, SizesInv, ScaleSets = Pools, Passes, [Next]_vars, NEW s \in Pools
  PROVE  SizeInv(s)'
<1>1. UNCHANGED <<scaleSets, entries, begun>>
  BY DEF Passes
<1>2. /\ Size(s)' = Size(s) /\ Stale(s)' = Stale(s) /\ sku' = sku
  BY <1>1 DEF Size, Instances, Stale, OnList, scaleSets, entries, Pages
<1>3. Sized(s)' /\ Bounded' /\ Sized(s) /\ Bounded
  BY SizesTyped, SizesTypedNext
<1>4. /\ Limit <= Limit' /\ Most(faults) <= Most(faults') /\ begun' = begun
      /\ ~AllNew' => ~AllNew
  BY <1>1, FaultsBound, NewStays
<1>5. SizeInv(s)
  BY DEF SizesInv
<1>6. CASE UNCHANGED <<pc, outcome>>
  <2>1. Left(s)' = Left(s) /\ (At(s)' <=> At(s))
    BY <1>1, <1>6 DEF Left, At, entries, Pages
  <2> QED
    BY <1>2, <1>3, <1>4, <1>5, <1>6, <2>1, Numbers DEF SizeInv, Sized, Bounded
<1>7. CASE pc # "idle" /\ pc \notin {"capacity", "instance"} /\ pc' \notin {"capacity", "instance"}
  <2>1. Left(s)' = Left(s) /\ ~At(s) /\ ~At(s)'
    BY <1>1, <1>7 DEF Left, At, entries, Pages
  <2>2. CASE pc \in {"masters", "master"} /\ pc' \in {"masters", "master", "scaleSets"}
    <3>1. Size(s) <= Most(faults)
      BY <1>3, <1>5, <2>2 DEF SizeInv, Sized, Bounded
    <3> QED
      BY <1>2, <1>3, <1>4, <1>5, <2>1, <2>2, <3>1, Numbers DEF SizeInv, Sized, Bounded
  <2>3. CASE pc \notin {"idle", "masters", "master"} /\ pc' \notin {"idle", "masters", "master"}
    BY <1>2, <1>3, <1>4, <1>5, <2>1, <2>3, Numbers DEF SizeInv, Sized, Bounded
  <2>4. CASE pc \notin First \cup {"idle"} /\ pc' = "idle" /\ outcome' = "ok"
    <3>1. listed = NothingListed
      BY <2>4 DEF PagesInv
    <3>2. Left(s) = {} /\ Left(s) # Pages
      <4>1. 1 \in Pages
        BY Numbers DEF Pages
      <4>2. Left(s) = {}
        BY <3>1 DEF Left, NothingListed
      <4> QED
        BY <4>1, <4>2
    <3>3. Size(s) + Cardinality(Left(s)) <= Most(faults) + MaxPages - 1
      BY <1>5, <2>1, <2>4, <3>2 DEF SizeInv, First
    <3> QED
      BY <1>2, <1>3, <1>4, <1>5, <2>1, <2>4, <3>3, Numbers DEF SizeInv, Sized, Bounded
  <2> QED
    BY <1>7, <2>2, <2>3, <2>4 DEF Passes, First
<1> QED
  BY <1>6, <1>7 DEF Passes, First

LEMMA SizeNext ==
  ASSUME Inv, Inv', PagesInv, SizesInv, ScaleSets = Pools, [Next]_vars, begun' = begun,
         NEW t \in Pools, NEW n \in Pages, NextEntry(t, n), NEW s \in Pools
  PROVE  SizeInv(s)'
<1>1. /\ pc = "scaleSets" /\ pc' = "capacity" /\ entry' = <<t, n>> /\ listed[t][n] # {}
      /\ sku' = [sku EXCEPT ![t] = sku[t] + 1] /\ UNCHANGED <<scaleSets, listed, outcome, faults>>
  BY DEF NextEntry, NewCapacity
<1>2. Size(s)' = Size(s) /\ Stale(s)' = Stale(s) /\ Limit' = Limit /\ faults' = faults
  BY <1>1 DEF Size, Instances, Stale, OnList, scaleSets, Pages, Limit, Most
<1>3. Sized(s)' /\ Bounded' /\ Sized(s) /\ Bounded
  BY SizesTyped, SizesTypedNext
<1>4. SizeInv(s) /\ (~AllNew' => ~AllNew) /\ ~At(s)
  BY <1>1, NewStays DEF SizesInv, At
<1>5. sku \in [Pools -> Nat]
  BY DEF Inv, TypeOK, ScaleSetsTypeOK
<1>6. CASE s = t
  <2>1. At(s)' /\ pc' # "instance" /\ sku'[s] = sku[s] + 1
    BY <1>1, <1>5, <1>6 DEF At
  <2>2. n \in Left(s) /\ Left(s)' = Left(s) \ {n}
    BY <1>1, <1>4, <1>6, <2>1 DEF Left, Pages
  <2>3. Cardinality(Left(s)') = Cardinality(Left(s)) - 1
    BY <1>3, <2>2, FS_RemoveElement DEF Sized
  <2> QED
    BY <1>1, <1>2, <1>3, <1>4, <2>1, <2>3, Numbers DEF SizeInv, Sized, Bounded
<1>7. CASE s # t
  <2>1. ~At(s)' /\ sku'[s] = sku[s]
    BY <1>1, <1>5, <1>7 DEF At
  <2>2. Left(s)' = Left(s)
    BY <1>1, <1>4, <2>1 DEF Left, Pages
  <2> QED
    BY <1>1, <1>2, <1>3, <1>4, <2>1, <2>2, Numbers DEF SizeInv, Sized, Bounded
<1> QED
  BY <1>6, <1>7

LEMMA SizeSet ==
  ASSUME Inv, Inv', PagesInv, SizesInv, ScaleSets = Pools, [Next]_vars, begun' = begun, SetSku, NEW s \in Pools
  PROVE  SizeInv(s)'
<1>1. /\ pc = "capacity" /\ pc' = "instance" /\ SetCapacity(entry[1], sku[entry[1]])
      /\ UNCHANGED <<entries, outcome, faults>>
  BY DEF SetSku
<1>2. (At(s)' <=> At(s)) /\ Left(s)' = Left(s) /\ OnList(s)' = OnList(s) /\ sku' = sku
      /\ Limit' = Limit /\ faults' = faults
  BY <1>1 DEF At, Left, OnList, Pages, entries, Limit, Most
<1>3. Sized(s)' /\ Bounded' /\ Sized(s) /\ Bounded
  BY SizesTyped, SizesTypedNext
<1>4. SizeInv(s) /\ AllNew /\ AllNew'
  BY <1>1, NewStays DEF SizesInv, Inv, MastersInv
<1>5. CASE s = entry[1]
  <2>1. At(s) /\ Size(s)' = sku[s] /\ Stale(s)' \subseteq Stale(s)
    BY <1>1, <1>2, <1>5, CapacityRaised DEF At, Stale
  <2>2. Cardinality(Stale(s)') <= Cardinality(Stale(s)) /\ (Stale(s)' # {} => Stale(s) # {})
    BY <1>3, <2>1, FS_Subset DEF Sized
  <2> QED
    BY <1>1, <1>2, <1>3, <1>4, <2>1, <2>2, Numbers DEF SizeInv, Sized, Bounded
<1>6. CASE s # entry[1]
  <2>1. ~At(s) /\ Size(s)' = Size(s) /\ Stale(s)' = Stale(s)
    BY <1>1, <1>2, <1>6, CapacityRaised, Same DEF At, Stale
  <2> QED
    BY <1>1, <1>2, <1>3, <1>4, <2>1, Numbers DEF SizeInv, Sized, Bounded
<1> QED
  BY <1>5, <1>6

\* An instance off the list, which is deleted or has been gone.
LEMMA SizeDone ==
  ASSUME Inv, Inv', PagesInv, SizesInv, ScaleSets = Pools, [Next]_vars, begun' = begun,
         pc = "instance", NEW i, i \in listed[entry[1]][entry[2]], InstanceDone(i),
         UNCHANGED <<model, sku, entry, outcome, faults>>,
         \/ i \in Instances(entry[1]) /\ Remove(entry[1], i)
         \/ i \notin Instances(entry[1]) /\ instances' = instances,
         NEW s \in Pools
  PROVE  SizeInv(s)'
<1>1. ScaleSetsTypeOK /\ entry \in Pools \X Pages /\ entry[1] \in Pools /\ entry[2] \in Pages
  BY DEF Inv, TypeOK, ScaleSetsTypeOK
<1>2. /\ pc' = IF listed'[entry[1]][entry[2]] = {} THEN "scaleSets" ELSE "capacity"
      /\ \A n \in Pages : listed'[s][n] = IF s = entry[1] /\ n = entry[2] THEN listed[s][n] \ {i} ELSE listed[s][n]
  <2>1. \A n \in Pages : <<s, n>> = entry <=> s = entry[1] /\ n = entry[2]
    BY <1>1
  <2>2. \A n \in Pages : listed'[s][n] = IF <<s, n>> = entry THEN listed[s][n] \ {i} ELSE listed[s][n]
    BY <1>1, DoneListed
  <2> QED
    BY <2>1, <2>2 DEF InstanceDone
<1>3. Sized(s)' /\ Bounded' /\ Sized(s) /\ Bounded
  BY SizesTyped, SizesTypedNext
<1>4. SizeInv(s) /\ AllNew /\ AllNew' /\ Limit' = Limit /\ faults' = faults
  BY NewStays DEF SizesInv, Inv, MastersInv, Limit, Most
<1>5. Left(s)' = Left(s)
  <2>1. ASSUME NEW n \in Pages
        PROVE  listed'[s][n] # {} /\ ~(At(s)' /\ entry'[2] = n) <=> listed[s][n] # {} /\ ~(At(s) /\ entry[2] = n)
    BY <1>2 DEF At
  <2> QED
    BY <2>1 DEF Left, Pages
<1>6. CASE s # entry[1]
  <2>1. ~At(s) /\ ~At(s)' /\ OnList(s)' = OnList(s)
    BY <1>2, <1>6 DEF At, OnList, Pages
  <2>2. Size(s)' = Size(s) /\ Stale(s)' = Stale(s)
    BY <1>1, <1>6, <2>1, InstanceRemoved, Same DEF Stale
  <2> QED
    BY <1>2, <1>3, <1>4, <1>5, <2>1, <2>2, Numbers DEF SizeInv, Sized, Bounded
<1>7. CASE s = entry[1]
  <2>1. At(s) /\ (At(s)' => pc' # "instance") /\ sku'[s] = sku[s]
    BY <1>2, <1>7 DEF At
  <2>2. i \in OnList(s) /\ i \notin OnList(s)' /\ OnList(s)' \subseteq OnList(s)
    <3>1. \A n \in Pages : n # entry[2] => i \notin listed[s][n]
      BY <1>1, <1>7 DEF PagesInv
    <3>2. \A n \in Pages : i \notin listed'[s][n] /\ listed'[s][n] \subseteq listed[s][n]
      BY <1>2, <1>7, <3>1
    <3> QED
      BY <1>1, <1>7, <3>2 DEF OnList, Pages
  <2>3. /\ Stale(s)' \subseteq Stale(s)
        /\ Size(s)' = IF i \in Instances(s) THEN Size(s) - 1 ELSE Size(s)
        /\ i \notin Instances(s) => Stale(s) # {}
    BY <1>1, <1>7, <2>2, InstanceRemoved, Same DEF Stale
  <2>4. Cardinality(Stale(s)') <= Cardinality(Stale(s)) /\ (Stale(s)' # {} => Stale(s) # {})
    BY <1>3, <2>3, FS_Subset DEF Sized
  <2>5. /\ Size(s) = sku[s] /\ sku[s] >= AgentCount + 1 /\ sku[s] + Cardinality(Left(s)) <= Limit + MaxPages
        /\ Stale(s) # {} => begun.u.redeploys
    BY <1>4, <2>1 DEF SizeInv
  <2>6. Size(s)' + Cardinality(Left(s)) <= Most(faults) + MaxPages - 1
    BY <1>3, <1>4, <2>3, <2>5, Numbers DEF Sized, Bounded
  <2> QED
    BY <1>2, <1>3, <1>4, <1>5, <2>1, <2>3, <2>4, <2>5, <2>6, Numbers DEF SizeInv, Sized, Bounded
<1> QED
  BY <1>6, <1>7

LEMMA SizeFails ==
  ASSUME Inv, Inv', PagesInv, SizesInv, ScaleSets = Pools, [Next]_vars, begun' = begun,
         ScaleSetCallFails, NEW s \in Pools
  PROVE  SizeInv(s)'
<1>1. /\ pc' = "idle" /\ outcome' = "error" /\ faults' = faults + 1 /\ pc \in {"capacity", "instance"}
  BY DEF ScaleSetCallFails, ScaleSetsFail, Fault
<1>2. Sized(s)' /\ Bounded' /\ Sized(s) /\ Bounded
  BY SizesTyped, SizesTypedNext
<1>3. SizeInv(s) /\ AllNew /\ AllNew' /\ Most(faults') = Most(faults) + MaxPages
  BY <1>1, NewStays, FaultsBound DEF SizesInv, Inv, MastersInv
<1>4. entry[1] \in Pools /\ (At(s) <=> s = entry[1])
  BY <1>1 DEF At, Inv, TypeOK, ScaleSetsTypeOK
<1>5. Size(s)' >= AgentCount /\ Size(s)' <= sku[s]
  <2>1. /\ Size(s) >= AgentCount /\ Size(s) <= sku[s]
        /\ s = entry[1] => sku[s] >= AgentCount + 1
        /\ s = entry[1] /\ pc = "instance" => Size(s) = sku[s]
    BY <1>1, <1>3, <1>4 DEF SizeInv
  <2>2. CASE pc = "capacity" /\ SetCapacity(entry[1], sku[entry[1]])
    <3>1. Size(s)' = IF s = entry[1] THEN sku[s] ELSE Size(s)
      BY <2>2, CapacityRaised, Same
    <3> QED
      BY <1>2, <2>1, <3>1, Numbers DEF Sized
  <2>3. CASE pc = "instance" /\ \E i \in listed[entry[1]][entry[2]] : Remove(entry[1], i)
    <3>1. PICK i \in listed[entry[1]][entry[2]] : Remove(entry[1], i)
      BY <2>3
    <3>2. /\ s # entry[1] => Size(s)' = Size(s)
          /\ s = entry[1] => Size(s)' \in {Size(s), Size(s) - 1}
      BY <1>4, <3>1, InstanceRemoved, Same
    <3> QED
      BY <1>2, <2>1, <2>3, <3>2, Numbers DEF Sized
  <2> QED
    BY <2>2, <2>3 DEF ScaleSetCallFails
<1>6. Size(s)' <= Most(faults')
  <2>1. sku[s] + Cardinality(Left(s)) <= Limit + MaxPages
    BY <1>1, <1>3 DEF SizeInv
  <2> QED
    BY <1>2, <1>3, <1>5, <2>1, Numbers DEF Sized, Bounded
<1> QED
  BY <1>1, <1>3, <1>5, <1>6, SizeEnds

LEMMA SizesKept ==
  ASSUME Inv, Inv', PoolsInv, NoVMs, PagesInv, SizesInv, [Next]_vars
  PROVE  SizesInv'
<1> SUFFICES ASSUME NEW s \in ScaleSets
             PROVE  SizeInv(s)'
  BY ProfileKept DEF SizesInv
<1>1. ScaleSets = Pools /\ s \in Pools /\ pc \notin Visiting
  BY NothingVisited
<1>2. Sized(s) /\ Bounded /\ SizeInv(s) /\ (~AllNew' => ~AllNew)
  BY <1>1, SizesTyped, NewStays DEF SizesInv
<1>3. CASE Start
  BY <1>1, <1>3, SizeStart
<1>4. CASE Deploys
  BY <1>1, <1>4, SizeDeploys
<1>5. CASE begun' = begun /\ \E t \in Pools, n \in Pages : NextEntry(t, n)
  BY <1>1, <1>5, SizeNext
<1>6. CASE begun' = begun /\ SetSku
  BY <1>1, <1>6, SizeSet
<1>7. ASSUME begun' = begun, NEW i \in InstanceIDs, DeleteInstance(i) \/ InstanceNotFound(i)
      PROVE  SizeInv(s)'
  <2>1. pc = "instance" /\ i \in listed[entry[1]][entry[2]]
    BY <1>7 DEF DeleteInstance, InstanceNotFound
  <2>2. CASE InstanceNotFound(i) /\ ScaleSetsFail
    <3>1. /\ pc' = "idle" /\ outcome' = "error" /\ UNCHANGED <<scaleSets, faults>>
          /\ i \notin Instances(entry[1])
      BY <2>2 DEF InstanceNotFound, ScaleSetsFail
    <3>2. Size(s)' = Size(s)
      BY <3>1, Same DEF scaleSets
    <3>3. entry[1] \in Pools /\ entry[2] \in Pages
      BY DEF Inv, TypeOK, ScaleSetsTypeOK
    <3>4. Stale(entry[1]) # {}
      BY <2>1, <3>1, <3>3 DEF Stale, OnList
    <3>5. begun.u.redeploys
      BY <1>1, <2>1, <3>3, <3>4 DEF SizesInv, SizeInv
    <3>6. Size(s) <= Most(faults) /\ Size(s) >= AgentCount
      BY <1>2, <2>1, <3>5, Numbers DEF SizeInv, Sized, Bounded
    <3>7. AllNew
      BY <2>1 DEF Inv, MastersInv
    <3> QED
      BY <1>1, <1>2, <3>1, <3>2, <3>6, <3>7, SizeEnds
  <2>3. CASE InstanceNotFound(i) /\ InstanceDone(i)
    <3>1. /\ i \notin Instances(entry[1]) /\ UNCHANGED <<scaleSets, faults>>
          /\ UNCHANGED <<sku, entry, outcome>> \/ ScaleSetsFail
      BY <2>3 DEF InstanceNotFound
    <3>2. ~ScaleSetsFail
      BY <2>3 DEF InstanceDone, ScaleSetsFail
    <3> QED
      BY <1>1, <1>7, <2>1, <2>3, <3>1, <3>2, SizeDone DEF scaleSets
  <2>4. CASE DeleteInstance(i)
    <3>1. /\ i \in Instances(entry[1]) /\ Remove(entry[1], i) /\ InstanceDone(i)
          /\ UNCHANGED <<model, sku, entry, outcome, faults>>
      BY <2>4 DEF DeleteInstance
    <3> QED
      BY <1>1, <1>7, <2>1, <3>1, SizeDone
  <2> QED
    BY <1>7, <2>2, <2>3, <2>4 DEF InstanceNotFound
<1>8. CASE begun' = begun /\ ScaleSetCallFails
  BY <1>1, <1>8, SizeFails
<1>9. CASE Ends /\ UNCHANGED scaleSets
  <2>1. /\ pc # "idle" /\ pc' = "idle" /\ outcome' = "error"
        /\ Size(s)' = Size(s) /\ Most(faults') = Most(faults) + MaxPages
    BY <1>9, Same, FaultsBound DEF Ends, ScaleSetsFail, scaleSets
  <2>2. Size(s) >= AgentCount /\ Size(s) <= Most(faults) + MaxPages
    BY <1>2, <2>1, Numbers DEF SizeInv, Sized, Bounded
  <2>3. ~AllNew => Size(s) <= AgentCount + 1
    BY <1>2 DEF SizeInv
  <2> QED
    BY <1>1, <1>2, <2>1, <2>2, <2>3, SizeEnds
<1>10. CASE Passes
  BY <1>1, <1>10, SizePasses
<1> QED
  BY <1>1, <1>3, <1>4, <1>5, <1>6, <1>7, <1>8, <1>9, <1>10, ScaleSteps

-----------------------------------------------------------------------------
(* The versions. *)

LEMMA ModelCounted ==
  ASSUME Inv, NEW s \in ScaleSets, s \in Pools, [Next]_vars,
         model[s] = "old" => Cardinality(Present(masters, {"new"})) <= faults
  PROVE  model'[s] = "old" => Cardinality(Present(masters', {"new"})) <= faults'
<1>1. /\ faults \in Nat /\ faults' \in {faults, faults + 1} /\ TypeOK /\ MastersInv
      /\ masters \in [MasterIndices -> {"none", "old", "new"}]
  BY FaultsGrow, Numbers DEF Inv, TypeOK
<1>2. Cardinality(Present(masters, {"new"})) \in Nat
  BY <1>1, IndicesFinite, PresentFinite
<1>3. CASE model' = model /\ masters' = masters
  BY <1>1, <1>2, <1>3
<1>4. CASE ScaleSetsDeployed
  BY <1>4 DEF ScaleSetsDeployed
<1>5. ASSUME NEW i \in MasterIndices, DeleteMaster(i)
      PROVE  model' = model /\ Present(masters', {"new"}) = Present(masters, {"new"})
  <2>1. /\ model' = model /\ masters[i] = "old" /\ masters' = [masters EXCEPT ![i] = "none"]
    BY <1>1, <1>5 DEF DeleteMaster, agents, scaleSets, MastersInv, Present
  <2>2. Changed(i, "none")
    BY <1>1, <2>1, MasterChanged
  <2> QED
    BY <1>1, <2>1, <2>2, MasterDeleted
<1>6. CASE MasterNotReady /\ model' = model
  <2>1. /\ faults' = faults + 1 /\ index \in MasterIndices
        /\ masters' = masters \/ masters' = [masters EXCEPT ![index] = "new"]
    BY <1>1, <1>6 DEF MasterNotReady, Fault, MastersInv
  <2>2. CASE masters' = [masters EXCEPT ![index] = "new"]
    <3>1. /\ IsFiniteSet(DOMAIN masters) /\ DOMAIN masters = MasterIndices /\ DOMAIN masters' = MasterIndices
          /\ \A j \in DOMAIN masters : j # index => masters'[j] = masters[j]
          /\ masters'[index] = "new"
      BY <1>1, <2>1, <2>2, IndicesFinite
    <3>2. Cardinality(Present(masters', {"new"})) <= Cardinality(Present(masters, {"new"})) + 1
      <4>1. masters[index] \notin {"new"} =>
              Cardinality(Present(masters', {"new"})) = Cardinality(Present(masters, {"new"})) + 1
        BY <2>1, <3>1, PresentCount
      <4>2. masters[index] = "new" => masters' = masters
        BY <1>1, <2>2
      <4> QED
        BY <1>2, <4>1, <4>2
    <3>3. Cardinality(Present(masters', {"new"})) \in Nat
      BY <3>1, PresentFinite
    <3> QED
      BY <1>1, <1>2, <1>6, <2>1, <3>2, <3>3
  <2> QED
    BY <1>3, <1>6, <2>1, <2>2
<1>7. CASE MasterNotReady
  BY <1>4, <1>6, <1>7 DEF MasterNotReady, scaleSets
<1>8. CASE Start \/ FindMissingMaster \/ MastersUpgraded
  BY <1>3, <1>8 DEF Start, FindMissingMaster, MastersUpgraded, azure, agents, scaleSets
<1>9. CASE CreateMaster
  BY <1>4, <1>9 DEF CreateMaster
<1>10. CASE ~MastersStep
  <2>1. masters' = masters
    BY <1>1, <1>10, OtherSteps
  <2>2. model' = model
    <3>1. CASE UpgradeScaleSets \/ InstanceFails
      BY <3>1 DEF UpgradeScaleSets, InstanceFails, ScaleSetStep, NextEntry, SetSku, DeleteInstance,
         InstanceNotFound, ScaleSetsUpgraded, ScaleSetCallFails, scaleSets
    <3>2. CASE (\E p \in Pools : VisitPool(p)) \/ FailedNodesDeleted \/ PoolFilled \/ AgentUpgraded
               \/ PoolUpgraded \/ PoolsUpgraded \/ Succeed \/ (\E i \in Indices : AgentNotFound(i))
               \/ AgentNotUpgraded \/ CallFails
      BY <3>2 DEF VisitPool, FailedNodesDeleted, PoolFilled, AgentUpgraded, PoolUpgraded, PoolsUpgraded,
         Succeed, AgentNotFound, AgentNotUpgraded, CallFails, azure, agents, scaleSets
    <3>3. CASE (\E i \in Indices : DeleteFailedNode(i)) \/ CreateMissingAgent
               \/ (\E i \in Indices : DeleteAgent(i)) \/ CreateAgent \/ (\E i \in Indices : DeletionFails(i))
      BY <3>3 DEF DeleteFailedNode, CreateMissingAgent, DeleteAgent, CreateAgent, DeletionFails, others, scaleSets
    <3>4. CASE AzureStep \/ Upgraded \/ UNCHANGED vars
      BY <3>4 DEF AzureStep, NodeComesUp, NodeDoesNot, NodeGone, Upgraded, vars, others, azure, agents, scaleSets
    <3> QED
      BY <1>10, <3>1, <3>2, <3>3, <3>4 DEF Next, Advance, Failures, MastersStep
  <2> QED
    BY <1>3, <2>1, <2>2
<1> QED
  BY <1>1, <1>2, <1>5, <1>7, <1>8, <1>9, <1>10 DEF MastersStep

LEMMA VersionsKept ==
  ASSUME Inv, Inv', PoolsInv, NoVMs, PagesInv, SizesInv, VersionsInv, [Next]_vars
  PROVE  VersionsInv'
<1> SUFFICES ASSUME NEW s \in ScaleSets
             PROVE  VersionInv(s)'
  BY ProfileKept DEF VersionsInv
<1>1. /\ ScaleSets = Pools /\ s \in Pools /\ pc \notin Visiting /\ VersionInv(s)
      /\ outcome = "ok" => pc = "idle"
      /\ outcome' = "ok" => pc' = "idle"
      /\ model'[s] = "old" => Cardinality(Present(masters', {"new"})) <= faults'
  <2>1. ScaleSets = Pools /\ s \in Pools /\ pc \notin Visiting
    BY NothingVisited
  <2>2. VersionInv(s)
    BY DEF VersionsInv
  <2> QED
    BY <2>1, <2>2, ModelCounted DEF VersionInv, Inv, MastersInv
<1>2. ASSUME pc' = "idle", outcome' = "error"
      PROVE  VersionInv(s)'
  BY <1>1, <1>2 DEF VersionInv
<1>3. ASSUME pc' # "idle", Old(s)' \subseteq OnList(s)'
      PROVE  VersionInv(s)'
  BY <1>1, <1>3 DEF VersionInv
<1>4. CASE Start
  <2>1. ListScaleSets /\ instances' = instances /\ pc' = "masters"
    BY <1>4 DEF Start, azure, agents, scaleSets
  <2>2. OnList(s)' = Old(s) /\ Old(s)' = Old(s)
    BY <1>1, <2>1 DEF ListScaleSets, OnList, Old, Pages
  <2> QED
    BY <1>3, <2>1, <2>2
<1>5. CASE Deploys
  <2>1. CASE Ends
    BY <1>2, <2>1 DEF Ends, ScaleSetsFail
  <2>2. CASE pc' = "masters" /\ UNCHANGED entries
    <3>1. OnList(s)' = OnList(s) /\ Old(s)' \subseteq Old(s) /\ Old(s) \subseteq OnList(s)
      BY <1>1, <1>5, <2>2, Deployed DEF Deploys, OnList, Pages, entries, VersionInv
    <3> QED
      BY <1>3, <2>2, <3>1
  <2> QED
    BY <1>5, <2>1, <2>2 DEF Deploys
<1>6. ASSUME UNCHANGED <<model, outcome>>, pc \in {"scaleSets", "capacity", "instance"},
             pc' \in {"scaleSets", "capacity", "instance"},
             model[s] = "new" /\ Old(s) \subseteq OnList(s) => Old(s)' \subseteq OnList(s)'
      PROVE  VersionInv(s)'
  BY <1>1, <1>6 DEF VersionInv
<1>7. CASE \E t \in Pools, n \in Pages : NextEntry(t, n)
  <2>1. UNCHANGED <<scaleSets, listed, outcome>> /\ pc = "scaleSets" /\ pc' = "capacity"
    BY <1>7 DEF NextEntry
  <2>2. Old(s)' = Old(s) /\ OnList(s)' = OnList(s)
    BY <2>1 DEF Old, OnList, Pages, scaleSets
  <2> QED
    BY <1>6, <2>1, <2>2 DEF scaleSets
<1>8. CASE SetSku
  <2>1. /\ pc = "capacity" /\ SetCapacity(entry[1], sku[entry[1]]) /\ pc' = "instance"
        /\ UNCHANGED <<model, listed, outcome>>
    BY <1>8 DEF SetSku, entries
  <2>2. OnList(s)' = OnList(s) /\ (model[s] = "new" => Old(s)' = Old(s))
    BY <1>1, <2>1, CapacityRaised, Same DEF OnList, Pages
  <2> QED
    BY <1>6, <2>1, <2>2
<1>9. ASSUME NEW i \in InstanceIDs, DeleteInstance(i) \/ InstanceNotFound(i)
      PROVE  VersionInv(s)'
  <2>1. CASE InstanceNotFound(i) /\ ScaleSetsFail
    BY <1>2, <2>1 DEF ScaleSetsFail
  <2>2. CASE InstanceDone(i) /\ (DeleteInstance(i) \/ InstanceNotFound(i))
    <3>1. /\ pc = "instance" /\ pc' \in {"scaleSets", "capacity"} /\ UNCHANGED <<model, outcome>>
          /\ \/ Remove(entry[1], i)
             \/ i \notin Instances(entry[1]) /\ instances' = instances
      BY <2>2 DEF DeleteInstance, InstanceNotFound, InstanceDone, ScaleSetsFail, scaleSets
    <3>2. entry \in Pools \X Pages /\ entry[1] \in Pools /\ ScaleSetsTypeOK
      BY DEF Inv, TypeOK, ScaleSetsTypeOK
    <3>3. \A n \in Pages : /\ listed[s][n] \ {i} \subseteq listed'[s][n]
                           /\ s # entry[1] => listed'[s][n] = listed[s][n]
      <4>1. \A n \in Pages : listed'[s][n] = IF <<s, n>> = entry THEN listed[s][n] \ {i} ELSE listed[s][n]
        BY <1>1, <2>2, <3>2, DoneListed
      <4>2. \A n \in Pages : <<s, n>> = entry => s = entry[1]
        OBVIOUS
      <4> QED
        BY <4>1, <4>2
    <3>4. /\ OnList(s) \ {i} \subseteq OnList(s)'
          /\ s # entry[1] => OnList(s)' = OnList(s)
      BY <3>3 DEF OnList, Pages
    <3>5. /\ s # entry[1] => Old(s)' = Old(s)
          /\ s = entry[1] => Old(s)' \subseteq Old(s) \ {i}
      <4>1. CASE Remove(entry[1], i)
        BY <1>1, <3>2, <4>1, InstanceRemoved, Same
      <4>2. CASE i \notin Instances(entry[1]) /\ instances' = instances
        BY <4>2 DEF Old, Instances, Present
      <4> QED
        BY <3>1, <4>1, <4>2
    <3>6. Old(s) \subseteq OnList(s) => Old(s)' \subseteq OnList(s)'
      BY <3>4, <3>5
    <3> QED
      BY <1>6, <3>1, <3>6
  <2> QED
    BY <1>9, <2>1, <2>2 DEF DeleteInstance, InstanceNotFound
<1>10. CASE ScaleSetCallFails \/ Ends
  BY <1>2, <1>10 DEF ScaleSetCallFails, Ends, ScaleSetsFail
<1>11. CASE Passes
  <2>1. Old(s)' = Old(s) /\ OnList(s)' = OnList(s) /\ model' = model
    BY <1>11 DEF Passes, Old, OnList, Pages, scaleSets, entries
  <2>2. CASE UNCHANGED <<pc, outcome>>
    BY <1>1, <2>1, <2>2 DEF VersionInv
  <2>3. CASE pc \notin First \cup {"idle"} /\ pc' = "idle" /\ outcome' = "ok"
    <3>1. listed = NothingListed
      BY <1>1, <2>3 DEF PagesInv
    <3>2. OnList(s) = {}
      BY <1>1, <3>1 DEF OnList, NothingListed
    <3> QED
      BY <1>1, <2>1, <2>3, <3>2 DEF VersionInv
  <2>4. CASE pc # "idle" /\ pc' # "idle" /\ outcome' = outcome /\ (pc' \in {"masters", "master"} => pc \in {"masters", "master"})
    BY <1>1, <2>1, <2>4 DEF VersionInv
  <2> QED
    BY <1>11, <2>2, <2>3, <2>4 DEF Passes, First
<1> QED
  BY <1>1, <1>4, <1>5, <1>7, <1>8, <1>9, <1>10, <1>11, ScaleSteps

-----------------------------------------------------------------------------
(* The theorems. *)

SetsInv == PoolsInv /\ NoVMs /\ PagesInv /\ SizesInv /\ VersionsInv

LEMMA SizesInit ==
  ASSUME Init
  PROVE  SizesInv
<1> SUFFICES ASSUME NEW s \in ScaleSets
             PROVE  SizeInv(s)
  BY DEF SizesInv
<1>1. pc = "idle" /\ outcome = "none" /\ faults = 0
  BY DEF Init
<1>2. PICK size \in AgentCount .. AgentCount + 1 :
        instances[s] = [i \in InstanceIDs |-> IF i <= size THEN "old" ELSE "none"]
  <2>1. s \in Pools
    BY DEF ScaleSets
  <2>2. PICK size \in [Pools -> AgentCount .. AgentCount + 1] :
          instances = [t \in Pools |-> [i \in InstanceIDs |->
                         IF t \in ScaleSets /\ i <= size[t] THEN "old" ELSE "none"]]
    BY DEF Init, ScaleSetsInit
  <2>3. instances[s] = [i \in InstanceIDs |-> IF i <= size[s] THEN "old" ELSE "none"]
    BY <2>1, <2>2
  <2>4. size[s] \in AgentCount .. AgentCount + 1
    BY <2>1, <2>2
  <2> QED
    BY <2>3, <2>4
<1>3. Size(s) = size
  <2>1. size \in Nat /\ 1 <= size /\ size <= AgentCount + 1 /\ MaxPages * (MaxFaults + 2) \in Nat
    BY <1>2, Numbers
  <2>2. \A i \in 1 .. size : i \in InstanceIDs /\ i <= size
    BY <2>1, Numbers DEF InstanceIDs
  <2>3. \A i \in InstanceIDs : i <= size => i \in 1 .. size
    BY <2>1 DEF InstanceIDs
  <2>4. Instances(s) = 1 .. size
    BY <1>2, <2>2, <2>3 DEF Instances, Present
  <2>5. Cardinality(1 .. size) = size
    BY <2>1, FS_Interval
  <2> QED
    BY <2>4, <2>5 DEF Size
<1>4. Most(faults) \in Nat /\ Most(faults) >= AgentCount + 1 + MaxPages
  BY <1>1, Mosts
<1> QED
  BY <1>1, <1>2, <1>3, <1>4, Numbers DEF SizeInv, At

LEMMA SetsInit ==
  ASSUME Init
  PROVE  SetsInv
<1>1. /\ pc = "idle" /\ outcome = "none" /\ faults = 0
      /\ masters = [i \in MasterIndices |-> "old"]
  BY DEF Init
<1>2. PoolsInv /\ PagesInv
  BY <1>1 DEF PoolsInv, PagesInv, First, Visiting
<1>3. NoVMs
  <2>1. PICK used \in [Pools -> SUBSET (0 .. AgentCount)] :
          /\ \A p \in Pools : p \in ScaleSets => used[p] = {}
          /\ vms = [p \in Pools |-> [i \in Indices |-> IF i \in used[p] THEN "old" ELSE "none"]]
    BY DEF Init
  <2>2. ScaleSets # {} => ScaleSets = Pools
    BY DEF ScaleSets
  <2> QED
    BY <1>1, <2>1, <2>2 DEF NoVMs
<1>4. VersionsInv
  <2>1. Present(masters, {"new"}) = {}
    BY <1>1 DEF Present
  <2> QED
    BY <1>1, <2>1, FS_EmptySet DEF VersionsInv, VersionInv
<1> QED
  BY <1>2, <1>3, <1>4, SizesInit DEF SetsInv

LEMMA SetsKept ==
  ASSUME Inv, Inv', SetsInv, [Next]_vars
  PROVE  SetsInv'
<1> QED
  BY PoolsKept, NoVMsKept, PagesKept, SizesKept, VersionsKept DEF SetsInv

\* No failure leaves a scale set with fewer instances than the api_model records:
\* upgradeAgentScaleSets raises the capacity before it deletes an instance, and the
\* capacity it works with, from before the masters' deployments scaled in, is not too low.
THEOREM SetsKeepCount == Spec => []ScaleSetKeepsCount
<1>1. SetsInv => ScaleSetKeepsCount
  BY DEF SetsInv, SizesInv, SizeInv, ScaleSetKeepsCount, Size
<1> QED
  BY <1>1, Invariant, SetsInit, SetsKept, PTL DEF Spec

PoolInv == UpperInv /\ SeenInv /\ UpperVisit /\ DoneInv

LEMMA PoolInit ==
  ASSUME Init
  PROVE  PoolInv
<1>1. pc = "idle" /\ outcome = "none"
  BY DEF Init
<1>2. ASSUME NEW p \in Pools
      PROVE  /\ Cardinality(Nodes(p)) <= AgentCount + 1
             /\ Cardinality(Renewed(p)) <= AgentCount
  <2>1. PICK used \in [Pools -> SUBSET (0 .. AgentCount)] :
          /\ IF p \in ScaleSets THEN used[p] = {} ELSE Cardinality(used[p]) \in AgentCount .. AgentCount + 1
          /\ vms[p] = [i \in Indices |-> IF i \in used[p] THEN "old" ELSE "none"]
    BY DEF Init
  <2>2. 0 .. AgentCount \subseteq Indices
    BY Numbers DEF Indices
  <2>3. Nodes(p) = used[p] /\ Renewed(p) = {}
    BY <2>1, <2>2 DEF Nodes, Renewed, Present, OldStates, Fresh
  <2>4. Cardinality(used[p]) = 0 \/ Cardinality(used[p]) \in AgentCount .. AgentCount + 1
    BY <2>1, FS_EmptySet
  <2>5. Cardinality(Renewed(p)) = 0
    BY <2>3, FS_EmptySet
  <2> QED
    BY <2>3, <2>4, <2>5, Numbers
<1> QED
  BY <1>1, <1>2 DEF PoolInv, UpperInv, SeenInv, UpperVisit, Visiting, DoneInv

LEMMA PoolKept ==
  ASSUME NEW p, Pools = {p}, Inv, SetsInv, PoolInv, [Next]_vars
  PROVE  PoolInv'
<1> QED
  BY UpperKept, SeenKept, UpperVisitKept, DoneKept DEF PoolInv, SetsInv

LEMMA SuccessCounts ==
  ASSUME Inv, SetsInv, PoolInv
  PROVE  SuccessKeepsCount
<1> SUFFICES ASSUME outcome = "ok"
             PROVE  /\ \A p \in Pools \ ScaleSets :
                         \/ Cardinality(Present(vms[p], NewStates \ {"Deleting"})) = AgentCount
                         \/ Present(seen[p], {"none"}) = Indices
                    /\ \A s \in ScaleSets : Cardinality(Instances(s)) <= AgentCount + MaxPages * (faults + 2)
  BY DEF SuccessKeepsCount
<1>1. NewStates \ {"Deleting"} = Fresh
  BY DEF NewStates, Fresh
<1>2. \A p \in Pools : Finished(p)
  BY DEF PoolInv, DoneInv
<1>3. pc = "idle" /\ faults \in Nat
  BY Numbers DEF Inv, MastersInv, TypeOK
<1>4. \A s \in ScaleSets : Size(s) <= Most(faults) + MaxPages - 1
  BY <1>3 DEF SetsInv, SizesInv, SizeInv
<1>5. Most(faults) + MaxPages - 1 = AgentCount + MaxPages * (faults + 2)
  BY <1>3, Mosts
<1> QED
  BY <1>1, <1>2, <1>4, <1>5 DEF Finished, Renewed, Unseen, Size

LEMMA SuccessVersions ==
  ASSUME Inv, SetsInv, PoolInv
  PROVE  SuccessUpgradesAll
<1> SUFFICES ASSUME outcome = "ok"
             PROVE  /\ \A i \in MasterIndices : masters[i] = "new"
                    /\ \A p \in Pools : Present(vms[p], {"old"}) = {}
                    /\ faults < MasterCount => \A s \in ScaleSets : Old(s) = {}
  BY DEF SuccessUpgradesAll, Old
<1>1. AllNew
  BY DEF Inv, MastersInv
<1>2. ASSUME NEW p \in Pools
      PROVE  Present(vms[p], {"old"}) = {}
  <2>1. vms[p] \in [Indices -> VMStates]
    BY DEF Inv, TypeOK
  <2>2. \A i \in Indices : vms[p][i] # "old"
    BY DEF PoolInv, DoneInv, Finished
  <2> QED
    BY <2>1, <2>2 DEF Present
<1>3. ASSUME faults < MasterCount, NEW s \in ScaleSets
      PROVE  Old(s) = {}
  <2>1. Present(masters, {"new"}) = MasterIndices
    BY <1>1 DEF AllNew, Present, Inv, TypeOK
  <2>2. ~(MasterCount <= faults)
    BY <1>3, Numbers DEF Inv, TypeOK
  <2>3. VersionInv(s) /\ s \in Pools
    BY DEF SetsInv, VersionsInv, ScaleSets
  <2>4. model[s] = "new"
    BY <2>1, <2>2, <2>3, IndicesFinite DEF VersionInv, Inv, TypeOK, ScaleSetsTypeOK
  <2> QED
    BY <2>3, <2>4 DEF VersionInv
<1> QED
  BY <1>1, <1>2, <1>3 DEF AllNew

\* With one pool, an upgrade that UpgradeCluster reports as successful has replaced every
\* master and every agent, and every instance of a scale set unless each of the masters
\* has come with a failed deployment.
THEOREM SuccessMeansUpgraded ==
  ASSUME NEW p, Pools = {p}
  PROVE  Spec => []SuccessUpgradesAll
<1> QED
  BY Invariant, SetsInit, SetsKept, PoolInit, PoolKept, SuccessVersions, PTL DEF Spec

\* With one pool, it leaves as many agents as the api_model records: upgradeAgentPools
\* counts the extra agent against the last old one.  A scale set has at most one more for
\* each page and attempt, the failed ones and the last.
THEOREM SuccessMeansCounted ==
  ASSUME NEW p, Pools = {p}
  PROVE  Spec => []SuccessKeepsCount
<1> QED
  BY Invariant, SetsInit, SetsKept, PoolInit, PoolKept, SuccessCounts, PTL DEF Spec

-----------------------------------------------------------------------------
(* What an attempt has begun with. *)

Seen(p, states) == Present(seen[p], states)

\* The agents on the list that may go by themselves or for good, and those that run or come up.
Going == {"leaving", "Failed"}
Fine  == {"Creating", "ready", "unready"}

\* The list and begun are of the same machines.
BegunInv ==
  pc # "idle" =>
    /\ begun.u.scaleSets = (ScaleSets # {})
    /\ ScaleSets = {} => \A p \in Pools :
         begun.pools[p] = [size   |-> Cardinality(Seen(p, VMStates \ {"none", "Deleting"})),
                           behind |-> Seen(p, OldStates) # {},
                           ahead  |-> Seen(p, VMStates \ {"none", "Deleting"}) # Seen(p, OldStates),
                           going  |-> Cardinality(Seen(p, Going))]

LEMMA BegunStays ==
  ASSUME [Next]_vars, ~Start
  PROVE  begun' = begun /\ seen' = seen
<1>1. CASE (\E i \in MasterIndices : DeleteMaster(i)) \/ FindMissingMaster \/ CreateMaster
           \/ MastersUpgraded \/ UpgradeScaleSets
  BY <1>1 DEF DeleteMaster, FindMissingMaster, CreateMaster, MastersUpgraded, UpgradeScaleSets, topology,
     listing, before
<1>2. CASE (\E p \in Pools : VisitPool(p)) \/ FailedNodesDeleted \/ PoolFilled \/ AgentUpgraded
           \/ PoolUpgraded \/ PoolsUpgraded \/ Succeed \/ (\E i \in Indices : AgentNotFound(i))
           \/ AgentNotUpgraded
  BY <1>2 DEF VisitPool, FailedNodesDeleted, PoolFilled, AgentUpgraded, PoolUpgraded, PoolsUpgraded,
     Succeed, AgentNotFound, AgentNotUpgraded, Fail, topology, listing, before
<1>3. CASE (\E i \in Indices : DeleteFailedNode(i)) \/ CreateMissingAgent
           \/ (\E i \in Indices : DeleteAgent(i)) \/ CreateAgent
  BY <1>3 DEF DeleteFailedNode, CreateMissingAgent, DeleteAgent, CreateAgent, topology, listing, before
<1>4. CASE Failures \/ AzureStep
  BY <1>4 DEF Failures, CallFails, MasterNotReady, InstanceFails, DeletionFails, Fail, AzureStep,
     NodeComesUp, NodeDoesNot, NodeGone, topology, listing, before
<1>5. CASE Upgraded \/ UNCHANGED vars
  BY <1>5 DEF Upgraded, vars, topology, listing, before
<1> QED
  BY <1>1, <1>2, <1>3, <1>4, <1>5 DEF Next, Advance

LEMMA BegunKept ==
  ASSUME Inv, BegunInv, [Next]_vars
  PROVE  BegunInv'
<1>1. ScaleSets' = ScaleSets
  BY ProfileKept
<1>2. CASE Start
  <2>1. begun' = Now /\ seen' = vms /\ pc = "idle" /\ vms' = vms
    BY <1>2 DEF Start, azure, agents
  <2>2. Now.u.scaleSets = (ScaleSets # {})
    BY DEF Now
  <2>3. ASSUME ScaleSets = {}, NEW p \in Pools
        PROVE  begun'.pools[p] = [size   |-> Cardinality(Seen(p, VMStates \ {"none", "Deleting"})'),
                                  behind |-> Seen(p, OldStates)' # {},
                                  ahead  |-> Seen(p, VMStates \ {"none", "Deleting"})' # Seen(p, OldStates)',
                                  going  |-> Cardinality(Seen(p, Going)')]
    <3>1. Machines(p) = Present(vms[p], VMStates \ {"none", "Deleting"}) /\ Behind(p) = Present(vms[p], OldStates)
      BY <2>3 DEF Machines, Behind
    <3>2. Now.pools[p] = [size   |-> Cardinality(Machines(p)), behind |-> Behind(p) # {},
                          ahead  |-> Machines(p) # Behind(p),
                          going  |-> Cardinality(Present(vms[p], {"leaving", "Failed"}))]
      BY DEF Now
    <3> QED
      BY <2>1, <3>1, <3>2 DEF Seen, Going
  <2> QED
    BY <1>1, <2>1, <2>2, <2>3 DEF BegunInv, Seen
<1>3. CASE ~Start
  <2>1. begun' = begun /\ seen' = seen /\ (pc' # "idle" => pc # "idle")
    BY <1>3, BegunStays, Continues
  <2> QED
    BY <1>1, <2>1 DEF BegunInv, Seen
<1> QED
  BY <1>2, <1>3

-----------------------------------------------------------------------------
(* The agents of the pool at hand. *)

\* The agents on the list that will be there when the pool is upgraded, the one that
\* upgradeAgentPools adds to them if any is old, and what it makes of them.
Base(p)   == Cardinality(Seen(p, Fine)) + Cardinality(Seen(p, OldStates))
Spare(p)  == Extra(Seen(p, OldStates) # {})
Target(p) == Larger(AgentCount + Spare(p), Base(p))

\* The pool is filled up to Target, and the extra agent goes with the last old one.
GrowInv ==
  /\ pc = "purge" => \A i \in Indices : agentVMs[i] = StatusOf(seen[pool][i])
  /\ pc \in Visiting => todo = Cardinality(Seen(pool, OldStates))
  /\ pc \in {"purge", "fill", "filling"} => Cardinality(Up) + todo \in Base(pool) .. Target(pool)
  /\ pc \in Swapping =>
       /\ todo > 0
       /\ Cardinality(Up) + Cardinality(Not) = IF Not = {} THEN Target(pool) - 1 ELSE Target(pool)

LEMMA SeenFinite ==
  ASSUME Inv, NEW p \in Pools
  PROVE  /\ \A states : IsFiniteSet(Seen(p, states)) /\ Cardinality(Seen(p, states)) \in Nat
         /\ Seen(p, OldStates) = {} <=> Cardinality(Seen(p, OldStates)) = 0
         /\ Spare(p) = IF Cardinality(Seen(p, OldStates)) > 0 THEN 1 ELSE 0
         /\ Base(p) \in Nat /\ Target(p) \in Nat
         /\ Target(p) >= Base(p) /\ Target(p) >= AgentCount + Spare(p)
         /\ Target(p) = Base(p) \/ Target(p) = AgentCount + Spare(p)
<1>1. IsFiniteSet(DOMAIN seen[p])
  BY IndicesFinite DEF Inv, TypeOK
<1>2. ASSUME NEW states
      PROVE  IsFiniteSet(Seen(p, states)) /\ Cardinality(Seen(p, states)) \in Nat
  BY <1>1, PresentFinite DEF Seen
<1>3. Seen(p, OldStates) = {} <=> Cardinality(Seen(p, OldStates)) = 0
  BY <1>2, FS_EmptySet
<1>4. Spare(p) = IF Cardinality(Seen(p, OldStates)) > 0 THEN 1 ELSE 0
  BY <1>2, <1>3 DEF Spare, Extra
<1>5. Base(p) \in Nat
  BY <1>2 DEF Base
<1> QED
  BY <1>2, <1>3, <1>4, <1>5, Numbers DEF Target, Larger

\* The list of an attempt, and the pool it is at unless it comes to another.
LEMMA VisitStays ==
  ASSUME [Next]_vars, pc' \in Visiting
  PROVE  /\ seen' = seen
         /\ \/ pool' = pool /\ pc \in Visiting
            \/ \E p \in Pools : VisitPool(p)
<1>1. ~Start
  BY DEF Start, Visiting
<1>2. CASE (\E i \in Indices : DeleteFailedNode(i)) \/ FailedNodesDeleted \/ CreateMissingAgent \/ PoolFilled
  BY <1>1, <1>2, BegunStays DEF DeleteFailedNode, FailedNodesDeleted, CreateMissingAgent, PoolFilled, visit, Visiting
<1>3. CASE (\E i \in Indices : DeleteAgent(i)) \/ CreateAgent \/ AgentUpgraded
  BY <1>1, <1>3, BegunStays DEF DeleteAgent, CreateAgent, AgentUpgraded, visit, Visiting
<1>4. CASE AzureStep
  BY <1>1, <1>4, BegunStays DEF AzureStep, NodeComesUp, NodeDoesNot, NodeGone, visit
<1>5. CASE UNCHANGED vars
  BY <1>1, <1>5, BegunStays DEF vars, visit
<1> QED
  BY <1>1, <1>2, <1>3, <1>4, <1>5, VisitSteps, BegunStays

LEMMA GrowKept ==
  ASSUME Inv, UpperVisit, GrowInv, [Next]_vars
  PROVE  GrowInv'
<1> SUFFICES ASSUME pc' \in Visiting
             PROVE  GrowInv'
  BY DEF GrowInv, Visiting, Swapping
<1>1. /\ count \in Nat /\ todo \in Nat /\ Cardinality(Up) \in Nat /\ Cardinality(Not) \in Nat
      /\ pool \in Pools /\ seen' = seen
  BY AgentsListed, VisitStays DEF Inv, TypeOK
<1>2. ASSUME NEW p \in Pools, VisitPool(p)
      PROVE  GrowInv'
  <2>1. /\ pc' = "purge" /\ pool' = p
        /\ agentVMs' = [i \in Indices |-> StatusOf(seen[p][i])]
        /\ todo' = Cardinality(Seen(p, OldStates))
    BY <1>2 DEF VisitPool, Seen
  <2>2. seen[p] \in [Indices -> VMStates]
    BY DEF Inv, TypeOK
  <2>3. Up' = Seen(p, Fine)
    BY <2>1, <2>2 DEF Up, Seen, Fine, Present, StatusOf, OldStates
  <2>4. /\ Seen(pool, OldStates)' = Seen(p, OldStates)
        /\ Base(pool)' = Base(p) /\ Target(pool)' = Target(p)
    BY <1>1, <2>1 DEF Seen, Base, Target, Spare
  <2>5. Cardinality(Up') + todo' \in Base(p) .. Target(p)
    BY <2>1, <2>3, SeenFinite DEF Base
  <2> QED
    BY <1>1, <2>1, <2>4, <2>5 DEF GrowInv, Visiting, Swapping
<1>3. CASE pool' = pool /\ pc \in Visiting
  <2>1. /\ Seen(pool, OldStates)' = Seen(pool, OldStates)
        /\ Base(pool)' = Base(pool) /\ Target(pool)' = Target(pool)
    BY <1>1, <1>3 DEF Seen, Base, Target, Spare
  <2>2. /\ Base(pool) \in Nat /\ Target(pool) \in Nat
        /\ Target(pool) >= Base(pool) /\ Target(pool) >= AgentCount + Spare(pool)
        /\ Target(pool) = Base(pool) \/ Target(pool) = AgentCount + Spare(pool)
        /\ todo = Cardinality(Seen(pool, OldStates))
        /\ Spare(pool) = IF todo > 0 THEN 1 ELSE 0
        /\ AgentsNeeded = AgentCount + Spare(pool)
    <3>1. todo = Cardinality(Seen(pool, OldStates))
      BY <1>3 DEF GrowInv
    <3>2. Spare(pool) = IF todo > 0 THEN 1 ELSE 0
      BY <1>1, <3>1, SeenFinite
    <3>3. AgentsNeeded = AgentCount + Spare(pool)
      BY <3>2, Numbers DEF AgentsNeeded
    <3> QED
      BY <1>1, <3>1, <3>2, <3>3, SeenFinite
  <2>3. ASSUME UNCHANGED <<agentVMs, todo>>
        PROVE  Up' = Up /\ Not' = Not
    BY <2>3 DEF Up, Not, Present
  <2>4. CASE UNCHANGED <<pc, agentVMs, todo>>
    BY <1>1, <1>3, <2>1, <2>3, <2>4 DEF GrowInv
  <2>5. CASE \E i \in Indices : DeleteFailedNode(i)
    BY <2>4, <2>5, Purges DEF Inv
  <2>6. CASE FailedNodesDeleted
    <3>1. pc = "purge" /\ pc' = "fill" /\ UNCHANGED <<agentVMs, todo>>
      BY <2>6 DEF FailedNodesDeleted, visit
    <3> QED
      BY <1>3, <2>1, <2>3, <3>1 DEF GrowInv, Swapping
  <2>7. CASE CreateMissingAgent
    <3>1. pc = "fill" /\ pc' = "filling" /\ UNCHANGED <<agentVMs, todo>>
      BY <2>7, Fills DEF Inv
    <3> QED
      BY <1>3, <2>1, <2>3, <3>1 DEF GrowInv, Swapping
  <2>8. CASE PoolFilled
    <3>1. /\ pc = "fill" /\ pc' = "swap" /\ UNCHANGED <<agentVMs, todo>> /\ todo # 0
          /\ count + todo >= AgentsNeeded
      BY <2>8 DEF PoolFilled, Visiting
    <3>2. /\ count = Cardinality(Up) /\ todo = Cardinality(Not)
          /\ Cardinality(Up) + todo \in Base(pool) .. Target(pool)
      BY <3>1 DEF Inv, CountInv, GrowInv
    <3>3. Cardinality(Up) + Cardinality(Not) = Target(pool)
      BY <1>1, <2>2, <3>1, <3>2, Numbers
    <3>4. Not # {}
      BY <3>1, <3>2, FS_EmptySet
    <3> QED
      BY <1>1, <1>3, <2>1, <2>2, <2>3, <3>1, <3>3, <3>4 DEF GrowInv
  <2>9. ASSUME NEW i \in Indices, DeleteAgent(i)
        PROVE  GrowInv'
    <3>1. pc = "swap" /\ agentVMs[i] = "notUpgraded" /\ todo' = todo
      BY <2>9, Deletes DEF Inv
    <3>2. CASE pc' = "replace" /\ UNCHANGED <<agentVMs, count>>
      BY <1>3, <2>1, <2>3, <3>1, <3>2 DEF GrowInv, Swapping
    <3>3. CASE ~Replaced /\ pc' = "swap" /\ Turns(i, "none")
      <4>1. /\ Up' = Up /\ i \in Not /\ Not' = Not \ {i}
            /\ Cardinality(Not') = Cardinality(Not) - 1
        BY <3>1, <3>3, TurnedCount DEF Inv
      <4>2. Cardinality(Not) <= 1
        BY <1>1, <3>1, <3>3 DEF Replaced, Inv, CountInv, Swapping
      <4>3. Cardinality(Not') = 0
        <5>1. Cardinality(Not) # 0
          BY <4>1, AgentsListed, FS_EmptySet DEF Inv
        <5> QED
          BY <1>1, <4>1, <4>2, <5>1
      <4>4. Not' = {}
        BY <4>1, <4>3, AgentsListed, FS_EmptySet, FS_Subset DEF Inv
      <4>5. Cardinality(Up) + Cardinality(Not) = Target(pool) /\ todo > 0
        BY <3>1, <4>1 DEF GrowInv, Swapping
      <4> QED
        BY <1>1, <1>3, <2>1, <2>2, <3>1, <3>3, <4>1, <4>3, <4>4, <4>5 DEF GrowInv
    <3> QED
      BY <2>9, <3>2, <3>3, Deletes, Turned DEF Inv
  <2>10. CASE CreateAgent
    <3>1. pc = "replace" /\ pc' = "swapping" /\ UNCHANGED <<agentVMs, todo>>
      BY <2>10, Replaces DEF Inv
    <3> QED
      BY <1>3, <2>1, <2>3, <3>1 DEF GrowInv, Swapping
  <2>11. CASE AgentUpgraded
    <3>1. pc \in {"filling", "swapping"} /\ pc' = (IF pc = "filling" THEN "fill" ELSE "swap") /\ todo' = todo
      BY <2>11 DEF AgentUpgraded
    <3>2. index \in Indices /\ agentVMs[index] = IF pc = "filling" THEN "none" ELSE "notUpgraded"
      BY <3>1 DEF Inv, VisitInv, Visiting
    <3>3. Turns(index, "upgraded")
      BY <2>11, <3>2, Turned DEF AgentUpgraded, Inv
    <3>4. Cardinality(Up') = Cardinality(Up) + 1
      BY <3>2, <3>3, TurnedCount DEF Inv
    <3>5. CASE pc = "filling"
      <4>1. /\ Cardinality(Up) + todo \in Base(pool) .. Target(pool)
            /\ count = Cardinality(Up) /\ count + todo < AgentsNeeded
        BY <3>5 DEF GrowInv, Inv, CountInv
      <4>2. Cardinality(Up') + todo \in Base(pool) .. Target(pool)
        BY <1>1, <2>2, <3>4, <4>1, Numbers
      <4> QED
        BY <1>3, <2>1, <2>2, <3>1, <3>5, <4>2 DEF GrowInv, Swapping
    <3>6. CASE pc = "swapping"
      <4>1. Cardinality(Not') = Cardinality(Not) - 1 /\ index \in Not
        BY <3>2, <3>3, <3>6, TurnedCount DEF Inv
      <4>2. count < todo - 1 /\ count + Cardinality(Not) = todo
        BY <3>6 DEF UpperVisit, Replaced, Visiting, Inv, CountInv, Swapping
      <4>3. Cardinality(Not') > 0
        BY <1>1, <4>1, <4>2
      <4>4. Not' # {}
        BY <4>3, FS_EmptySet
      <4>5. Cardinality(Up) + Cardinality(Not) = Target(pool) /\ todo > 0
        BY <3>6, <4>1 DEF GrowInv, Swapping
      <4>6. Cardinality(Up') + Cardinality(Not') = Target(pool)
        BY <1>1, <3>4, <4>1, <4>5
      <4> QED
        BY <1>1, <1>3, <2>1, <2>2, <3>1, <3>6, <4>4, <4>5, <4>6 DEF GrowInv
    <3> QED
      BY <3>1, <3>5, <3>6
  <2>12. CASE AzureStep
    <3>1. UNCHANGED <<pc, agentVMs, todo>>
      BY <2>12, AzureMoving DEF AzureMoves, Inv
    <3> QED
      BY <2>4, <3>1
  <2>13. CASE UNCHANGED vars
    BY <2>4, <2>13 DEF vars, visit
  <2>14. CASE \E p \in Pools : VisitPool(p)
    BY <1>2, <2>14
  <2> QED
    BY <2>5, <2>6, <2>7, <2>8, <2>9, <2>10, <2>11, <2>12, <2>13, <2>14, VisitSteps
<1> QED
  BY <1>2, <1>3, VisitStays

-----------------------------------------------------------------------------
(* The pools upgraded. *)

Visited(p) == p \notin poolsTodo /\ ~Unseen(p)

\* No agent of the pool is left to replace, and there are as many as there should be.
Satisfied(p) ==
  /\ \A i \in Indices : vms[p][i] \notin OldStates
  /\ Cardinality(Renewed(p)) = Target(p) - Spare(p)

\* upgradeAgentPools has upgraded the pools it has left behind, and goes on as long as
\* they have had an old agent.
PassedInv ==
  /\ pc \in Visiting \cup {"pools"} =>
       \A p \in Pools : Visited(p) =>
         \/ pc # "pools" /\ p = pool
         \/ Seen(p, OldStates) # {} /\ Satisfied(p)
  /\ pc = "save" =>
       /\ \A p \in Pools : Visited(p) => Satisfied(p) /\ (Seen(p, OldStates) # {} \/ p = pool)
       /\ (\A p \in Pools : Visited(p) => Seen(p, OldStates) # {}) => poolsTodo = {}

LEMMA SatisfiedStays ==
  ASSUME Inv, [Next]_vars, seen' = seen, NEW p \in Pools, Satisfied(p),
         \/ vms'[p] = vms[p]
         \/ AzureStep
         \/ p # pool /\ \E i \in Indices : \E state : Becomes(pool, i, state)
  PROVE  Satisfied(p)'
<1>1. Target(p)' = Target(p) /\ Spare(p)' = Spare(p)
  BY DEF Target, Spare, Base, Seen
<1>2. pool \in Pools /\ vms \in [Pools -> [Indices -> VMStates]]
  BY DEF Inv, TypeOK
<1>3. CASE vms'[p] = vms[p]
  BY <1>1, <1>3 DEF Satisfied, Renewed
<1>4. CASE AzureStep
  <2>1. PICK q \in Pools : \E i \in Indices : \E state \in VMStates : AzureMoves(q, i, state)
    BY <1>4, AzureMoving DEF Inv
  <2>2. PICK i \in Indices : \E state \in VMStates : AzureMoves(q, i, state)
    BY <2>1
  <2>3. PICK state \in VMStates : AzureMoves(q, i, state)
    BY <2>2
  <2>4. Becomes(q, i, state) /\ state \notin OldStates /\ (state \in Fresh <=> vms[q][i] \in Fresh)
    BY <2>3 DEF AzureMoves, Fresh, OldStates
  <2>5. Present(vms'[p], Fresh) = Present(vms[p], Fresh)
    BY <2>4, VMCount
  <2>6. \A j \in Indices : vms'[p][j] \notin OldStates
    BY <2>4 DEF Satisfied, Becomes
  <2> QED
    BY <1>1, <2>5, <2>6 DEF Satisfied, Renewed
<1>5. ASSUME p # pool, NEW i \in Indices, NEW state, Becomes(pool, i, state)
      PROVE  Satisfied(p)'
  <2>1. Present(vms'[p], Fresh) = Present(vms[p], Fresh)
    BY <1>2, <1>5, VMCount
  <2>2. \A j \in Indices : vms'[p][j] \notin OldStates
    BY <1>5 DEF Satisfied, Becomes
  <2> QED
    BY <1>1, <2>1, <2>2 DEF Satisfied, Renewed
<1> QED
  BY <1>3, <1>4, <1>5

\* The pool at hand, when nothing is left to do for it.
LEMMA PoolSatisfied ==
  ASSUME Inv, GrowInv,
         \/ pc = "swap" /\ Not = {}
         \/ pc = "fill" /\ todo = 0 /\ count + todo >= AgentsNeeded
  PROVE  /\ Satisfied(pool)
         /\ Seen(pool, OldStates) # {} <=> pc = "swap"
<1>1. /\ count \in Nat /\ todo \in Nat /\ Cardinality(Up) \in Nat /\ pool \in Pools
      /\ vms \in [Pools -> [Indices -> VMStates]]
  BY AgentsListed DEF Inv, TypeOK
<1>2. /\ Base(pool) \in Nat /\ Target(pool) \in Nat
      /\ Target(pool) >= AgentCount + Spare(pool)
      /\ Target(pool) = Base(pool) \/ Target(pool) = AgentCount + Spare(pool)
      /\ Spare(pool) = IF Cardinality(Seen(pool, OldStates)) > 0 THEN 1 ELSE 0
      /\ Seen(pool, OldStates) = {} <=> Cardinality(Seen(pool, OldStates)) = 0
  BY <1>1, SeenFinite
<1>3. todo = Cardinality(Seen(pool, OldStates))
  BY DEF GrowInv, Visiting
<1>4. Not = {}
  <2>1. pc = "fill" => todo = Cardinality(Not)
    BY DEF Inv, CountInv
  <2> QED
    BY <2>1, AgentsListed, FS_EmptySet DEF Inv
<1>5. Renewed(pool) = Up
  BY NodesListed
<1>6. ASSUME NEW i \in Indices
      PROVE  vms[pool][i] \notin OldStates
  <2>1. Known(i) /\ agentVMs[i] # "notUpgraded"
    BY <1>4 DEF Inv, VisitInv, Visiting, Not, Present, TypeOK
  <2> QED
    BY <2>1 DEF Known, OldStates, Fresh
<1>7. Cardinality(Up) = Target(pool) - Spare(pool)
  <2>1. CASE pc = "swap"
    <3>1. todo > 0 /\ Cardinality(Up) + Cardinality(Not) = Target(pool) - 1 /\ Cardinality(Not) = 0
      BY <1>4, <2>1, FS_EmptySet DEF GrowInv, Swapping
    <3> QED
      BY <1>1, <1>2, <1>3, <3>1
  <2>2. CASE pc = "fill" /\ todo = 0 /\ count + todo >= AgentsNeeded
    <3>1. count = Cardinality(Up) /\ Cardinality(Up) + todo \in Base(pool) .. Target(pool)
      BY <2>2 DEF GrowInv, Inv, CountInv
    <3>2. AgentsNeeded = AgentCount
      BY <2>2 DEF AgentsNeeded
    <3> QED
      BY <1>1, <1>2, <1>3, <2>2, <3>1, <3>2, Numbers
  <2> QED
    BY <2>1, <2>2
<1>8. Seen(pool, OldStates) # {} <=> pc = "swap"
  <2>1. pc = "swap" => todo > 0
    BY DEF GrowInv, Swapping
  <2> QED
    BY <1>1, <1>2, <1>3, <2>1
<1> QED
  BY <1>5, <1>6, <1>7, <1>8 DEF Satisfied

LEMMA PassedKept ==
  ASSUME Inv, PoolsInv, GrowInv, PassedInv, [Next]_vars
  PROVE  PassedInv'
<1> SUFFICES ASSUME pc' \in Visiting \cup {"pools", "save"}
             PROVE  PassedInv'
  BY DEF PassedInv
<1>1. ~Start /\ seen' = seen /\ pool \in Pools
  <2>1. ~Start
    BY DEF Start, Visiting
  <2> QED
    BY <2>1, BegunStays DEF Inv, TypeOK
<1>2. \A p \in Pools : /\ Seen(p, OldStates)' = Seen(p, OldStates)
                       /\ Unseen(p)' <=> Unseen(p)
  BY <1>1 DEF Seen, Unseen
<1>3. ASSUME UNCHANGED <<pc, pool, poolsTodo>>,
             \A p \in Pools : Satisfied(p) /\ ~(pc \in Visiting /\ p = pool) => Satisfied(p)'
      PROVE  PassedInv'
  BY <1>2, <1>3 DEF PassedInv, Visited, Visiting
<1>4. CASE pc' \in Visiting
  <2>1. ASSUME NEW p \in Pools, VisitPool(p)
        PROVE  PassedInv'
    <3>1. /\ pc = "pools" /\ pc' = "purge" /\ pool' = p /\ poolsTodo' = poolsTodo \ {p} /\ vms' = vms
      BY <2>1 DEF VisitPool, azure, agents
    <3>2. ASSUME NEW q \in Pools, Visited(q)', q # p
          PROVE  Seen(q, OldStates)' # {} /\ Satisfied(q)'
      <4>1. Visited(q)
        BY <1>2, <3>1, <3>2 DEF Visited
      <4> QED
        BY <1>1, <1>2, <3>1, <4>1, SatisfiedStays DEF PassedInv
    <3> QED
      BY <3>1, <3>2 DEF PassedInv
  <2>2. CASE pc \in Visiting /\ pool' = pool
    <3>1. poolsTodo' = poolsTodo /\ pc # "pools" /\ pc' # "pools" /\ pc' # "save"
      <4>1. CASE (\E i \in Indices : DeleteFailedNode(i)) \/ CreateMissingAgent
                 \/ (\E i \in Indices : DeleteAgent(i)) \/ CreateAgent
        BY <1>4, <2>2, <4>1, Purges, Fills, Deletes, Replaces DEF Inv, Listed, Visiting
      <4>2. CASE FailedNodesDeleted \/ PoolFilled \/ AgentUpgraded \/ AzureStep \/ UNCHANGED vars
        BY <1>4, <2>2, <4>2 DEF FailedNodesDeleted, PoolFilled, AgentUpgraded, AzureStep, NodeComesUp, NodeDoesNot,
           NodeGone, vars, topology, stages, Visiting
      <4>3. ~(\E p \in Pools : VisitPool(p))
        BY <2>2 DEF VisitPool, Visiting
      <4> QED
        BY <1>4, <4>1, <4>2, <4>3, VisitSteps
    <3>2. ASSUME NEW p \in Pools, p # pool, Satisfied(p)
          PROVE  Satisfied(p)'
      <4>1. CASE vms' = vms
        BY <1>1, <3>2, <4>1, SatisfiedStays
      <4>2. CASE (\E i \in Indices : DeleteFailedNode(i)) \/ CreateMissingAgent
                 \/ (\E i \in Indices : DeleteAgent(i)) \/ CreateAgent
        <5>1. \E i \in Indices : \E state : Becomes(pool, i, state)
          BY <4>2, Purges, Fills, Deletes, Replaces DEF Inv
        <5> QED
          BY <1>1, <3>2, <5>1, SatisfiedStays
      <4>3. CASE AzureStep
        BY <1>1, <3>2, <4>3, SatisfiedStays
      <4>4. ~(\E i \in Indices : DeletionFails(i))
        BY <1>4 DEF DeletionFails, Fail, ScaleSetsFail, Visiting
      <4> QED
        BY <4>1, <4>2, <4>3, <4>4, VMSteps
    <3> QED
      BY <1>2, <2>2, <3>1, <3>2 DEF PassedInv, Visited
  <2> QED
    BY <1>4, <2>1, <2>2, VisitStays
<1>5. CASE pc' \in {"pools", "save"}
  <2>1. CASE PoolFilled /\ pc' = "save"
    <3>1. /\ pc = "fill" /\ todo = 0 /\ count + todo >= AgentsNeeded
          /\ UNCHANGED <<vms, poolsTodo, pool>>
      BY <2>1 DEF PoolFilled, azure, agents, topology, stages
    <3>2. Satisfied(pool) /\ Seen(pool, OldStates) = {} /\ Visited(pool)
      BY <3>1, PoolSatisfied DEF Visited, PoolsInv, Visiting, Inv, VisitInv
    <3>3. ASSUME NEW p \in Pools, Visited(p)'
          PROVE  Satisfied(p)' /\ (Seen(p, OldStates)' # {} \/ p = pool)
      <4>1. Visited(p)
        BY <1>2, <3>1, <3>3 DEF Visited
      <4>2. Satisfied(p) /\ (Seen(p, OldStates) # {} \/ p = pool)
        BY <3>1, <3>2, <4>1 DEF PassedInv, Visiting
      <4> QED
        BY <1>1, <1>2, <3>1, <4>2, SatisfiedStays
    <3>4. Visited(pool)' /\ Seen(pool, OldStates)' = {}
      BY <1>1, <1>2, <3>1, <3>2 DEF Visited, Seen, Unseen
    <3> QED
      BY <1>1, <2>1, <3>1, <3>3, <3>4 DEF PassedInv, Visiting
  <2>2. CASE PoolUpgraded
    <3>1. pc = "swap" /\ pc' = "pools" /\ Not = {} /\ UNCHANGED <<vms, poolsTodo, pool>>
      BY <2>2 DEF PoolUpgraded, azure, agents, topology, stages, visit, Not
    <3>2. Satisfied(pool) /\ Seen(pool, OldStates) # {}
      BY <3>1, PoolSatisfied
    <3>3. ASSUME NEW p \in Pools, Visited(p)'
          PROVE  Satisfied(p)' /\ Seen(p, OldStates)' # {}
      <4>1. Visited(p)
        BY <1>2, <3>1, <3>3 DEF Visited
      <4>2. Satisfied(p) /\ Seen(p, OldStates) # {}
        BY <3>1, <3>2, <4>1 DEF PassedInv, Visiting
      <4> QED
        BY <1>1, <1>2, <3>1, <4>2, SatisfiedStays
    <3> QED
      BY <3>1, <3>3 DEF PassedInv, Visiting
  <2>3. CASE PoolsUpgraded
    <3>1. pc = "pools" /\ pc' = "save" /\ poolsTodo = {} /\ UNCHANGED <<vms, poolsTodo, pool>>
      BY <2>3 DEF PoolsUpgraded, azure, agents, topology, stages, visit
    <3>2. ASSUME NEW p \in Pools, Visited(p)'
          PROVE  Satisfied(p)' /\ Seen(p, OldStates)' # {}
      <4>1. Visited(p)
        BY <1>2, <3>1, <3>2 DEF Visited
      <4>2. Satisfied(p) /\ Seen(p, OldStates) # {}
        BY <3>1, <4>1 DEF PassedInv, Visiting
      <4> QED
        BY <1>1, <1>2, <3>1, <4>2, SatisfiedStays
    <3> QED
      BY <3>1, <3>2 DEF PassedInv, Visiting
  <2>4. ~Succeed
    BY <1>5 DEF Succeed
  <2>5. CASE ScaleSetsUpgraded /\ UpgradeScaleSets
    <3>1. pc = "scaleSets" /\ pc' = "pools" /\ poolsTodo' = poolsTodo
      BY <2>5 DEF ScaleSetsUpgraded, UpgradeScaleSets, stages
    <3>2. \A p \in Pools : ~Visited(p)'
      BY <1>2, <3>1 DEF PoolsInv, First, Visited
    <3> QED
      BY <3>1, <3>2 DEF PassedInv
  <2>6. CASE AzureStep
    <3>1. UNCHANGED <<pc, pool, poolsTodo>>
      BY <2>6, AzureMoving DEF AzureMoves, Inv
    <3> QED
      BY <1>1, <1>3, <2>6, <3>1, SatisfiedStays
  <2>7. CASE UNCHANGED vars
    <3>1. UNCHANGED <<pc, pool, poolsTodo, vms>>
      BY <2>7 DEF vars, visit, topology, stages, azure, agents
    <3> QED
      BY <1>1, <1>3, <3>1, SatisfiedStays
  <2> QED
    BY <1>5, <2>1, <2>2, <2>3, <2>4, <2>5, <2>6, <2>7, FinishSteps DEF Inv
<1> QED
  BY <1>4, <1>5

-----------------------------------------------------------------------------
(* What an attempt leaves of availability sets. *)

\* The machines on the list, and those that are there.
SeenMachines(p) == Seen(p, VMStates \ {"none", "Deleting"})

\* Nothing has become of the pool but that agents on their way out have gone.
Shrunk(p, machines) == machines \subseteq SeenMachines(p) /\ SeenMachines(p) \ machines \subseteq Seen(p, Going)

LEMMA ListCounts ==
  ASSUME Inv, NEW p \in Pools
  PROVE  /\ Cardinality(SeenMachines(p)) = Base(p) + Cardinality(Seen(p, {"Failed"}))
         /\ Cardinality(Seen(p, Going)) = Cardinality(Seen(p, {"leaving"})) + Cardinality(Seen(p, {"Failed"}))
         /\ SeenMachines(p) = Seen(p, OldStates \cup Fresh)
<1>1. seen[p] \in [Indices -> VMStates]
  BY DEF Inv, TypeOK
<1>2. /\ SeenMachines(p) = Seen(p, OldStates \cup Fresh)
      /\ SeenMachines(p) = (Seen(p, Fine) \cup Seen(p, OldStates)) \cup Seen(p, {"Failed"})
      /\ (Seen(p, Fine) \cup Seen(p, OldStates)) \cap Seen(p, {"Failed"}) = {}
      /\ Seen(p, Fine) \cap Seen(p, OldStates) = {}
      /\ Seen(p, Going) = Seen(p, {"leaving"}) \cup Seen(p, {"Failed"})
      /\ Seen(p, {"leaving"}) \cap Seen(p, {"Failed"}) = {}
  BY <1>1 DEF SeenMachines, Seen, Present, VMStates, OldStates, NewStates, Fresh, Fine, Going
<1>3. \A states : IsFiniteSet(Seen(p, states)) /\ Cardinality(Seen(p, states)) \in Nat
  BY SeenFinite
<1>4. /\ IsFiniteSet(Seen(p, Fine) \cup Seen(p, OldStates))
      /\ Cardinality(Seen(p, Fine) \cup Seen(p, OldStates)) = Base(p)
  BY <1>2, <1>3, UnionCount DEF Base
<1>5. Cardinality(SeenMachines(p)) = Base(p) + Cardinality(Seen(p, {"Failed"}))
  BY <1>2, <1>3, <1>4, UnionCount
<1>6. Cardinality(Seen(p, Going)) = Cardinality(Seen(p, {"leaving"})) + Cardinality(Seen(p, {"Failed"}))
  BY <1>2, <1>3, UnionCount
<1> QED
  BY <1>2, <1>5, <1>6

LEMMA BegunWith ==
  ASSUME Inv, BegunInv, ScaleSets = {}, pc # "idle", NEW p \in Pools
  PROVE  /\ begun.u.scaleSets = FALSE
         /\ begun.pools[p].size = Cardinality(SeenMachines(p)) /\ begun.pools[p].size \in Nat
         /\ begun.pools[p].behind = (Seen(p, OldStates) # {})
         /\ begun.pools[p].ahead = (SeenMachines(p) # Seen(p, OldStates))
         /\ begun.pools[p].going = Cardinality(Seen(p, Going)) /\ begun.pools[p].going \in Nat
         /\ Extra(begun.pools[p].behind) = Spare(p)
<1>1. begun.pools[p] = [size   |-> Cardinality(Seen(p, VMStates \ {"none", "Deleting"})),
                        behind |-> Seen(p, OldStates) # {},
                        ahead  |-> Seen(p, VMStates \ {"none", "Deleting"}) # Seen(p, OldStates),
                        going  |-> Cardinality(Seen(p, Going))]
  BY DEF BegunInv
<1>2. begun.u.scaleSets = FALSE
  BY DEF BegunInv
<1> QED
  BY <1>1, <1>2, SeenFinite DEF SeenMachines, Spare

\* A pool that has shrunk has its size, counting the agents that have gone since.
LEMMA ShrunkSize ==
  ASSUME Inv, BegunInv, ScaleSets = {}, pc # "idle", NEW p \in Pools, NEW machines, Shrunk(p, machines)
  PROVE  \E j \in 0 .. begun.pools[p].going : Cardinality(machines) + j = begun.pools[p].size
<1> DEFINE gone == SeenMachines(p) \ machines
<1>1. IsFiniteSet(SeenMachines(p)) /\ IsFiniteSet(Seen(p, Going)) /\ Cardinality(Seen(p, Going)) \in Nat
  BY SeenFinite DEF SeenMachines
<1>2. /\ IsFiniteSet(gone) /\ Cardinality(gone) <= Cardinality(Seen(p, Going)) /\ Cardinality(gone) \in Nat
  BY <1>1, FS_Subset, FS_CardinalityType DEF Shrunk
<1>3. /\ IsFiniteSet(machines) /\ machines \cap gone = {} /\ machines \cup gone = SeenMachines(p)
  BY <1>1, FS_Subset DEF Shrunk
<1> HIDE DEF gone
<1>4. Cardinality(machines) + Cardinality(gone) = Cardinality(SeenMachines(p))
  BY <1>2, <1>3, UnionCount
<1>5. begun.pools[p].size = Cardinality(SeenMachines(p)) /\ begun.pools[p].going = Cardinality(Seen(p, Going))
  BY BegunWith
<1>6. Cardinality(gone) \in 0 .. begun.pools[p].going
  BY <1>1, <1>2, <1>5
<1> QED
  BY <1>4, <1>5, <1>6

LEMMA UntouchedBy ==
  ASSUME Inv, BegunInv, ScaleSets = {}, pc # "idle", NEW p \in Pools,
         Shrunk(p, Machines(p)), Behind(p) # Machines(p) => begun.pools[p].ahead
  PROVE  Untouched(p)
<1>1. PICK j \in 0 .. begun.pools[p].going : Cardinality(Machines(p)) + j = begun.pools[p].size
  BY ShrunkSize
<1>2. /\ begun.pools[p].going \in Nat /\ begun.pools[p].size \in Nat
      /\ begun.u.scaleSets = FALSE
  BY BegunWith
<1>3. /\ 0 \in 0 .. begun.pools[p].going /\ j + 0 <= begun.pools[p].going
      /\ begun.pools[p].size - 0 = begun.pools[p].size
  BY <1>2
<1>4. Cardinality(Machines(p)) + j \in SizesDuringMasters(begun.u, AgentCount, begun.pools[p].size - 0)
  BY <1>1, <1>2, <1>3 DEF SizesDuringMasters
<1> QED
  BY <1>3, <1>4 DEF Untouched, SizeIn

\* The sizes that interrupted attempts can leave, when the agents that had failed on the
\* list have gone.
LEMMA InterruptedBy ==
  ASSUME Inv, BegunInv, ScaleSets = {}, pc # "idle", NEW p \in Pools, NEW m,
         \/ \E j \in 0 .. begun.pools[p].going : m + j = begun.pools[p].size
         \/ \E j \in 0 .. Cardinality(Seen(p, {"leaving"})) :
              m + j \in Smaller(Base(p), Target(p) - Spare(p)) .. Target(p)
  PROVE  \E j, k \in 0 .. begun.pools[p].going :
           /\ j + k <= begun.pools[p].going
           /\ m + j \in SizesInterrupted(begun.u, AgentCount, begun.pools[p].size - k, begun.pools[p].behind)
<1>1. /\ begun.u.scaleSets = FALSE
      /\ begun.pools[p].size = Base(p) + Cardinality(Seen(p, {"Failed"})) /\ begun.pools[p].size \in Nat
      /\ begun.pools[p].going = Cardinality(Seen(p, {"leaving"})) + Cardinality(Seen(p, {"Failed"}))
      /\ Extra(begun.pools[p].behind) = Spare(p)
      /\ Cardinality(Seen(p, {"leaving"})) \in Nat /\ Cardinality(Seen(p, {"Failed"})) \in Nat
      /\ Base(p) \in Nat /\ Spare(p) \in {0, 1}
  BY BegunWith, ListCounts, SeenFinite
<1>2. CASE \E j \in 0 .. begun.pools[p].going : m + j = begun.pools[p].size
  <2>1. PICK j \in 0 .. begun.pools[p].going : m + j = begun.pools[p].size
    BY <1>2
  <2>2. m + j \in SizesInterrupted(begun.u, AgentCount, begun.pools[p].size - 0, begun.pools[p].behind)
    BY <1>1, <2>1, Numbers DEF SizesInterrupted, Larger, Smaller
  <2> QED
    BY <1>1, <2>2
<1>3. CASE \E j \in 0 .. Cardinality(Seen(p, {"leaving"})) :
             m + j \in Smaller(Base(p), Target(p) - Spare(p)) .. Target(p)
  <2>1. PICK j \in 0 .. Cardinality(Seen(p, {"leaving"})) :
               m + j \in Smaller(Base(p), Target(p) - Spare(p)) .. Target(p)
    BY <1>3
  <2> DEFINE k == Cardinality(Seen(p, {"Failed"}))
  <2>2. /\ k \in 0 .. begun.pools[p].going /\ j \in 0 .. begun.pools[p].going
        /\ j + k <= begun.pools[p].going /\ begun.pools[p].size - k = Base(p)
    BY <1>1, <2>1
  <2>3. SizesInterrupted(begun.u, AgentCount, Base(p), begun.pools[p].behind)
          = Smaller(Base(p), Target(p) - Spare(p)) .. Target(p)
    BY <1>1 DEF SizesInterrupted, Target
  <2> QED
    BY <2>1, <2>2, <2>3
<1> QED
  BY <1>2, <1>3

\* A pool the attempt has not come to, or that has no agents.
LEMMA LeftAlone ==
  ASSUME Inv, PoolsInv, BegunInv, ScaleSets = {}, pc # "idle", NEW p \in Pools, p \in poolsTodo \/ Unseen(p)
  PROVE  Untouched(p)
<1>1. Machines(p) = Present(vms[p], VMStates \ {"none", "Deleting"}) /\ Behind(p) = Present(vms[p], OldStates)
  BY DEF Machines, Behind
<1>2. vms[p] \in [Indices -> VMStates] /\ seen[p] \in [Indices -> VMStates]
  BY DEF Inv, TypeOK
<1>3. \A i \in Indices : vms[p][i] \in Since(seen[p][i])
  <2>1. CASE p \in poolsTodo
    BY <2>1 DEF Inv, ListInv
  <2>2. CASE Unseen(p)
    <3>1. \A i \in Indices : vms[p][i] = "none"
      BY <2>2 DEF PoolsInv
    <3>2. \A i \in Indices : seen[p][i] = "none"
      BY <1>2, <2>2 DEF Unseen, Present
    <3> QED
      BY <3>1, <3>2 DEF Since
  <2> QED
    BY <2>1, <2>2
<1>4. Shrunk(p, Machines(p))
  BY <1>1, <1>2, <1>3 DEF Shrunk, SeenMachines, Seen, Going, Present, Since, VMStates, OldStates, NewStates, Fresh
<1>5. ASSUME Behind(p) # Machines(p)
      PROVE  SeenMachines(p) # Seen(p, OldStates)
  <2>1. PICK i \in Indices : vms[p][i] \in Fresh
    BY <1>1, <1>2, <1>5 DEF Present, VMStates, OldStates, NewStates, Fresh
  <2>2. seen[p][i] \in Fresh
    BY <1>2, <1>3, <2>1 DEF Since, Fresh, VMStates, OldStates, NewStates
  <2> QED
    BY <1>2, <2>2 DEF SeenMachines, Seen, Present, Fresh, OldStates, VMStates, NewStates
<1> QED
  BY <1>4, <1>5, BegunWith, UntouchedBy

\* A pool it has upgraded, or that has no agents.
LEMMA Done ==
  ASSUME Inv, PoolsInv, BegunInv, ScaleSets = {}, pc # "idle", NEW p \in Pools, Satisfied(p) \/ Unseen(p)
  PROVE  Completed(p)
<1>1. Machines(p) = Present(vms[p], VMStates \ {"none", "Deleting"}) /\ Behind(p) = Present(vms[p], OldStates)
  BY DEF Machines, Behind
<1>2. vms[p] \in [Indices -> VMStates] /\ seen[p] \in [Indices -> VMStates]
  BY DEF Inv, TypeOK
<1>3. /\ begun.u.scaleSets = FALSE
      /\ begun.pools[p].size = Base(p) + Cardinality(Seen(p, {"Failed"})) /\ begun.pools[p].size \in Nat
      /\ begun.pools[p].going = Cardinality(Seen(p, {"leaving"})) + Cardinality(Seen(p, {"Failed"}))
      /\ Extra(begun.pools[p].behind) = Spare(p)
      /\ Cardinality(Seen(p, {"leaving"})) \in Nat /\ Cardinality(Seen(p, {"Failed"})) \in Nat
      /\ Base(p) \in Nat /\ Spare(p) \in {0, 1}
  BY BegunWith, ListCounts, SeenFinite
<1>4. CASE Satisfied(p)
  <2>1. Behind(p) = {} /\ Machines(p) = Renewed(p)
    BY <1>1, <1>2, <1>4 DEF Satisfied, Renewed, Present, Fresh, VMStates, OldStates, NewStates
  <2>2. Cardinality(Machines(p)) = Larger(AgentCount, Base(p) - Spare(p))
    BY <1>3, <1>4, <2>1, Numbers DEF Satisfied, Target, Larger
  <2> DEFINE k == Cardinality(Seen(p, {"Failed"}))
  <2>3. /\ k \in 0 .. begun.pools[p].going /\ 0 \in 0 .. begun.pools[p].going
        /\ 0 + k <= begun.pools[p].going /\ begun.pools[p].size - k = Base(p)
    BY <1>3
  <2>4. Cardinality(Machines(p)) + 0 \in SizesUpgraded(begun.u, AgentCount, Base(p), begun.pools[p].behind)
    <3>1. Cardinality(Machines(p)) + 0 = Cardinality(Machines(p))
      BY <1>3, <2>2, Numbers DEF Larger
    <3> QED
      BY <1>3, <2>2, <3>1 DEF SizesUpgraded
  <2> QED
    BY <2>1, <2>3, <2>4 DEF Completed, SizeIn
<1>5. CASE Unseen(p)
  <2>1. /\ \A i \in Indices : vms[p][i] = "none"
        /\ \A i \in Indices : seen[p][i] = "none"
    BY <1>2, <1>5 DEF Unseen, Present, PoolsInv
  <2>2. Behind(p) = {} /\ Machines(p) = {} /\ SeenMachines(p) = {}
    BY <1>1, <1>2, <2>1 DEF SeenMachines, Seen, Present, OldStates
  <2>3. begun.pools[p].size = 0 /\ Cardinality(Machines(p)) = 0
    BY <2>2, BegunWith, FS_EmptySet
  <2>4. Cardinality(Machines(p)) + 0 \in SizesUpgraded(begun.u, AgentCount, begun.pools[p].size - 0, begun.pools[p].behind)
    <3>1. /\ Cardinality(Machines(p)) + 0 = 0 /\ begun.pools[p].size - 0 = 0
          /\ 0 \in {0} \cap {begun.pools[p].size - 0}
      BY <2>3
    <3> QED
      BY <1>3, <3>1 DEF SizesUpgraded
  <2> QED
    BY <1>3, <2>2, <2>4 DEF Completed, SizeIn
<1> QED
  BY <1>4, <1>5

\* The old agents of the pool at hand that have gone since they were listed.
Lost == {i \in Indices : /\ agentVMs[i] = "notUpgraded"
                         /\ vms[pool][i] = "none"
                         /\ ~(pc = "replace" /\ i = index)}

LEMMA LostCount ==
  ASSUME Inv, ScaleSets = {}, pc \in Visiting \ {"purge"}
  PROVE  /\ Cardinality(Lost) \in 0 .. Cardinality(Seen(pool, {"leaving"}))
         /\ IsFiniteSet(Machines(pool))
         /\ pc = "filling" =>
              Cardinality(Machines(pool)) + Cardinality(Lost) = Cardinality(Up) + Cardinality(Not) + 1
         /\ pc = "replace" =>
              /\ Cardinality(Machines(pool)) + Cardinality(Lost) = Cardinality(Up) + Cardinality(Not) - 1
              /\ Not # {}
         /\ pc \in {"fill", "swap", "swapping"} =>
              Cardinality(Machines(pool)) + Cardinality(Lost) = Cardinality(Up) + Cardinality(Not)
<1> DEFINE known == (Up \cup Not) \ Lost
<1>1. /\ vms \in [Pools -> [Indices -> VMStates]] /\ seen \in [Pools -> [Indices -> VMStates]] /\ pool \in Pools
      /\ agentVMs \in [Indices -> {"none", "upgraded", "notUpgraded", "ignored"}]
      /\ IsFiniteSet(Up \cup Not) /\ Cardinality(Up \cup Not) = Cardinality(Up) + Cardinality(Not)
      /\ Cardinality(Up) \in Nat /\ Cardinality(Not) \in Nat
  BY AgentsListed, UnionCount DEF Inv, TypeOK
<1>2. Machines(pool) = Present(vms[pool], VMStates \ {"none", "Deleting"})
  BY DEF Machines
<1>3. ASSUME NEW i \in Indices
      PROVE  /\ agentVMs[i] = "none" => vms[pool][i] = "none" \/ (pc = "filling" /\ i = index)
             /\ agentVMs[i] = "ignored" => vms[pool][i] \in {"Deleting", "none"}
             /\ agentVMs[i] = "upgraded" => vms[pool][i] \in Fresh
             /\ agentVMs[i] = "notUpgraded" =>
                  \/ vms[pool][i] \in OldStates
                  \/ vms[pool][i] = "none" /\ (seen[pool][i] = "leaving" \/ (pc = "replace" /\ i = index))
                  \/ pc = "swapping" /\ i = index /\ vms[pool][i] \in Fresh
  <2>1. Known(i)
    BY DEF Inv, VisitInv
  <2> QED
    BY <2>1 DEF Known, OldStates
<1>4. /\ pc = "filling" => index \in Indices /\ agentVMs[index] = "none" /\ vms[pool][index] \in Fresh
      /\ pc = "replace" => index \in Indices /\ agentVMs[index] = "notUpgraded" /\ vms[pool][index] = "none"
  BY DEF Inv, VisitInv, Visiting
<1>5. /\ Lost \subseteq Seen(pool, {"leaving"})
      /\ Lost \subseteq Up \cup Not
  BY <1>1, <1>3 DEF Lost, Seen, Present, Not, OldStates, Fresh
<1>6. /\ Cardinality(Lost) \in Nat /\ Cardinality(Lost) <= Cardinality(Seen(pool, {"leaving"}))
      /\ Cardinality(Seen(pool, {"leaving"})) \in Nat /\ IsFiniteSet(Lost)
  BY <1>1, <1>5, SeenFinite, FS_Subset, FS_CardinalityType
<1>7. IsFiniteSet(known) /\ Cardinality(known) = Cardinality(Up) + Cardinality(Not) - Cardinality(Lost)
  <2> DEFINE known0 == Up \cup Not
  <2>1. known0 \cap Lost = Lost
    BY <1>5
  <2>2. IsFiniteSet(known0) /\ Cardinality(known0) = Cardinality(Up) + Cardinality(Not)
    BY <1>1
  <2>3. known = known0 \ Lost
    OBVIOUS
  <2> HIDE DEF known0, known
  <2>4. IsFiniteSet(known) /\ Cardinality(known) = Cardinality(known0) - Cardinality(known0 \cap Lost)
    BY <2>2, <2>3, FS_Difference
  <2>5. Cardinality(known) = Cardinality(known0) - Cardinality(Lost)
    BY <2>1, <2>4
  <2>6. Cardinality(known) = Cardinality(Up) + Cardinality(Not) - Cardinality(Lost)
    <3>1. /\ Cardinality(Up) \in Nat /\ Cardinality(Not) \in Nat /\ Cardinality(Lost) \in Nat
          /\ Cardinality(known0) \in Nat /\ Cardinality(known0) = Cardinality(Up) + Cardinality(Not)
      BY <1>1, <1>6, <2>2
    <3> QED
      BY <2>5, <3>1
  <2> QED
    BY <2>4, <2>6
<1>8. \A i \in Indices : /\ i \in Up <=> agentVMs[i] = "upgraded"
                         /\ i \in Not <=> agentVMs[i] = "notUpgraded"
                         /\ i \in Machines(pool) <=> vms[pool][i] \in OldStates \cup Fresh
  BY <1>1, <1>2 DEF Up, Not, Present, VMStates, OldStates, NewStates, Fresh
<1>9. Up \subseteq Indices /\ Not \subseteq Indices /\ Machines(pool) \subseteq Indices
  BY <1>1, <1>2 DEF Up, Not, Present
<1>10. "none" \notin OldStates \cup Fresh /\ "Deleting" \notin OldStates \cup Fresh
  BY DEF OldStates, Fresh
<1>11. CASE pc = "filling"
  <2>1. Machines(pool) = known \cup {index} /\ index \notin known
    BY <1>1, <1>3, <1>4, <1>8, <1>9, <1>10, <1>11 DEF Lost
  <2>2. IsFiniteSet(known \cup {index}) /\ Cardinality(known \cup {index}) = Cardinality(known) + 1
    BY <1>7, <2>1, FS_AddElement
  <2> HIDE DEF known
  <2> QED
    BY <1>1, <1>6, <1>7, <1>11, <2>1, <2>2
<1>12. CASE pc = "replace"
  <2>1. Machines(pool) = known \ {index} /\ index \in known /\ Not # {}
    BY <1>1, <1>3, <1>4, <1>8, <1>9, <1>10, <1>12 DEF Lost
  <2>2. IsFiniteSet(known \ {index}) /\ Cardinality(known \ {index}) = Cardinality(known) - 1
    BY <1>7, <2>1, FS_RemoveElement
  <2> HIDE DEF known
  <2> QED
    BY <1>1, <1>6, <1>7, <1>12, <2>1, <2>2
<1>13. CASE pc \in {"fill", "swap", "swapping"}
  <2>1. Machines(pool) = known
    BY <1>1, <1>3, <1>8, <1>9, <1>10, <1>13 DEF Lost
  <2> HIDE DEF known
  <2> QED
    BY <1>1, <1>6, <1>7, <1>13, <2>1
<1> QED
  BY <1>11, <1>12, <1>13 DEF Visiting

\* So many machines there are while a pool is being upgraded.
LEMMA VisitSize ==
  ASSUME Inv, GrowInv, ScaleSets = {}, pc \in Visiting \ {"purge"}
  PROVE  /\ Cardinality(Machines(pool)) + Cardinality(Lost)
              \in Smaller(Base(pool), Target(pool) - Spare(pool)) .. Target(pool)
         /\ pc = "swap" /\ Not # {} =>
              /\ Cardinality(Machines(pool)) + Cardinality(Lost) = Target(pool)
              /\ Spare(pool) = 1
<1>1. /\ Base(pool) \in Nat /\ Target(pool) \in Nat /\ Target(pool) >= AgentCount + Spare(pool)
      /\ Target(pool) >= Base(pool)
      /\ todo = Cardinality(Seen(pool, OldStates)) /\ Spare(pool) = IF todo > 0 THEN 1 ELSE 0
      /\ todo \in Nat /\ count \in Nat /\ Cardinality(Up) \in Nat /\ Cardinality(Not) \in Nat
  <2>1. /\ pool \in Pools /\ todo \in Nat /\ count \in Nat
        /\ Cardinality(Up) \in Nat /\ Cardinality(Not) \in Nat
    BY AgentsListed DEF Inv, TypeOK
  <2>2. todo = Cardinality(Seen(pool, OldStates))
    BY DEF GrowInv
  <2>3. Spare(pool) = IF todo > 0 THEN 1 ELSE 0
    BY <2>1, <2>2, SeenFinite
  <2> QED
    BY <2>1, <2>2, <2>3, SeenFinite
<1>2. CASE pc \in {"fill", "filling"}
  <2>1. /\ Cardinality(Up) + todo \in Base(pool) .. Target(pool)
        /\ count = Cardinality(Up) /\ todo = Cardinality(Not)
        /\ pc = "filling" => count + todo < AgentsNeeded
    BY <1>2 DEF GrowInv, Inv, CountInv
  <2>2. AgentsNeeded = AgentCount + Spare(pool)
    BY <1>1, Numbers DEF AgentsNeeded
  <2>3. Cardinality(Machines(pool)) + Cardinality(Lost) \in Base(pool) .. Target(pool)
    <3>1. /\ pc = "filling" =>
               Cardinality(Machines(pool)) + Cardinality(Lost) = Cardinality(Up) + Cardinality(Not) + 1
          /\ pc = "fill" => Cardinality(Machines(pool)) + Cardinality(Lost) = Cardinality(Up) + Cardinality(Not)
      BY <1>2, LostCount DEF Visiting
    <3>2. Cardinality(Up) + Cardinality(Not) \in Base(pool) .. Target(pool)
      BY <2>1
    <3>3. ASSUME pc = "filling"
          PROVE  Cardinality(Up) + Cardinality(Not) + 1 \in Base(pool) .. Target(pool)
      <4>1. Cardinality(Up) + Cardinality(Not) < AgentCount + Spare(pool)
        BY <1>1, <2>1, <2>2, <3>3
      <4>2. AgentCount \in Nat /\ Spare(pool) \in {0, 1}
        BY <1>1, Numbers
      <4> QED
        BY <1>1, <3>2, <4>1, <4>2
    <3> QED
      BY <1>2, <3>1, <3>2, <3>3
  <2> QED
    BY <1>1, <1>2, <2>3 DEF Smaller
<1>3. CASE pc \in Swapping
  <2>1. /\ todo > 0 /\ Spare(pool) = 1
        /\ Cardinality(Up) + Cardinality(Not) = IF Not = {} THEN Target(pool) - 1 ELSE Target(pool)
    BY <1>1, <1>3 DEF GrowInv
  <2>2. Cardinality(Machines(pool)) + Cardinality(Lost) \in {Target(pool) - 1, Target(pool)}
    BY <1>1, <1>3, <2>1, LostCount DEF Visiting, Swapping
  <2>3. pc = "swap" /\ Not # {} => Cardinality(Machines(pool)) + Cardinality(Lost) = Target(pool)
    BY <1>1, <2>1, LostCount DEF Visiting
  <2> QED
    BY <1>1, <2>1, <2>2, <2>3 DEF Smaller
<1> QED
  BY <1>2, <1>3 DEF Visiting, Swapping

\* Before that, only agents on their way out have gone.
LEMMA PurgeShrinks ==
  ASSUME Inv, GrowInv, ScaleSets = {}, pc = "purge"
  PROVE  Shrunk(pool, Machines(pool))
<1>1. /\ vms \in [Pools -> [Indices -> VMStates]] /\ seen \in [Pools -> [Indices -> VMStates]] /\ pool \in Pools
  BY DEF Inv, TypeOK
<1>2. Machines(pool) = Present(vms[pool], VMStates \ {"none", "Deleting"})
  BY DEF Machines
<1>3. \A i \in Indices : Known(i) /\ agentVMs[i] = StatusOf(seen[pool][i])
  BY DEF Inv, VisitInv, Visiting, GrowInv
<1>4. ASSUME NEW i \in Indices
      PROVE  /\ vms[pool][i] \in OldStates \cup Fresh => seen[pool][i] \in OldStates \cup Fresh
             /\ seen[pool][i] \in OldStates \cup Fresh =>
                  seen[pool][i] \in Going \/ vms[pool][i] \in OldStates \cup Fresh
  BY <1>1, <1>3 DEF Known, StatusOf, OldStates, Fresh, Going, VMStates, NewStates
<1>5. VMStates \ {"none", "Deleting"} = OldStates \cup Fresh
  BY DEF VMStates, OldStates, NewStates, Fresh
<1> QED
  BY <1>1, <1>2, <1>4, <1>5 DEF Shrunk, SeenMachines, Seen, Present

LEMMA VisitInterrupted ==
  ASSUME Inv, BegunInv, GrowInv, ScaleSets = {}, pc \in Visiting
  PROVE  Interrupted(pool)
<1>1. pool \in Pools /\ pc # "idle"
  BY DEF Inv, TypeOK, Visiting
<1>2. CASE pc = "purge"
  <2>1. \E j \in 0 .. begun.pools[pool].going : Cardinality(Machines(pool)) + j = begun.pools[pool].size
    BY <1>1, <1>2, PurgeShrinks, ShrunkSize
  <2> QED
    BY <1>1, <2>1, InterruptedBy DEF Interrupted, SizeIn
<1>3. CASE pc # "purge"
  <2>1. \E j \in 0 .. Cardinality(Seen(pool, {"leaving"})) :
          Cardinality(Machines(pool)) + j \in Smaller(Base(pool), Target(pool) - Spare(pool)) .. Target(pool)
    BY <1>3, LostCount, VisitSize
  <2> QED
    BY <1>1, <2>1, InterruptedBy DEF Interrupted, SizeIn
<1> QED
  BY <1>2, <1>3

LEMMA DeletionInterrupted ==
  ASSUME Inv, BegunInv, GrowInv, ScaleSets = {}, [Next]_vars, NEW i \in Indices, DeletionFails(i),
         NEW p, p = pool
  PROVE  Interrupted(p)'
<1>1. /\ pc' = "idle" /\ pool' = pool /\ begun' = begun /\ pool \in Pools /\ pc # "idle" /\ ScaleSets' = {}
      /\ vms \in [Pools -> [Indices -> VMStates]]
  <2>1. begun' = begun
    BY DEF DeletionFails, Fail, before
  <2> QED
    BY <2>1, FailsToDelete, ProfileKept DEF Inv, TypeOK, Listed
<1>2. PICK state \in {"none", "leaving", "Deleting"} :
        Becomes(pool, i, state) /\ (state = "leaving" => vms[pool][i] \in OldStates)
  <2>1. PICK state \in {"none", "leaving", "Deleting"} :
          SetVM(pool, i, state) /\ (state = "leaving" => vms[pool][i] \in OldStates)
    BY DEF DeletionFails
  <2>2. state \in VMStates
    BY DEF VMStates, OldStates, NewStates
  <2> QED
    BY <1>1, <2>1, <2>2, VMSet DEF Inv
<1>3. /\ Machines(p)' = Present(vms'[p], VMStates \ {"none", "Deleting"})
      /\ Machines(pool) = Present(vms[pool], VMStates \ {"none", "Deleting"})
  BY <1>1 DEF Machines
<1>4. i \in Machines(pool)
  <2>1. vms[pool][i] = "Failed" \/ vms[pool][i] \in OldStates
    BY FailsToDelete DEF Inv
  <2> QED
    BY <1>1, <1>3, <2>1 DEF Present, VMStates, OldStates, NewStates
<1>5. Machines(p)' = Machines(pool) \/ Machines(p)' = Machines(pool) \ {i}
  <2>1. CASE state = "leaving"
    BY <1>1, <1>2, <1>3, <1>4, <2>1 DEF Becomes, Present, VMStates, OldStates, NewStates
  <2>2. CASE state # "leaving"
    BY <1>1, <1>2, <1>3, <2>2 DEF Becomes, Present
  <2> QED
    BY <2>1, <2>2
<1> DEFINE m == Cardinality(Machines(p)')
<1>6. \/ \E j \in 0 .. begun.pools[pool].going : m + j = begun.pools[pool].size
      \/ \E j \in 0 .. Cardinality(Seen(pool, {"leaving"})) :
           m + j \in Smaller(Base(pool), Target(pool) - Spare(pool)) .. Target(pool)
  <2>1. CASE pc = "purge"
    <3>1. i \in Seen(pool, Going)
      <4>1. seen[pool][i] = "Failed"
        BY <2>1 DEF DeletionFails, FailedNodes, Present
      <4> QED
        BY <1>1, <4>1 DEF Seen, Present, Going, Inv, TypeOK
    <3>2. Shrunk(pool, Machines(p)')
      BY <1>5, <2>1, <3>1, PurgeShrinks DEF Shrunk
    <3> QED
      BY <1>1, <3>2, ShrunkSize
  <2>2. CASE pc = "swap"
    <3>1. agentVMs[i] = "notUpgraded"
      BY <2>2 DEF DeletionFails
    <3>2. Not # {}
      BY <3>1 DEF Not, Present, Inv, TypeOK
    <3>3. /\ Cardinality(Machines(pool)) + Cardinality(Lost) = Target(pool) /\ Spare(pool) = 1
          /\ Cardinality(Lost) \in 0 .. Cardinality(Seen(pool, {"leaving"}))
          /\ IsFiniteSet(Machines(pool))
      BY <2>2, <3>2, VisitSize, LostCount DEF Visiting
    <3>4. m \in {Cardinality(Machines(pool)), Cardinality(Machines(pool)) - 1}
      BY <1>4, <1>5, <3>3, FS_RemoveElement
    <3>5. /\ Base(pool) \in Nat /\ Target(pool) \in Nat /\ Cardinality(Machines(pool)) \in Nat
          /\ Cardinality(Seen(pool, {"leaving"})) \in Nat
      BY <1>1, <3>3, SeenFinite, FS_CardinalityType
    <3> HIDE DEF m
    <3>6. m + Cardinality(Lost) \in Smaller(Base(pool), Target(pool) - Spare(pool)) .. Target(pool)
      BY <3>3, <3>4, <3>5 DEF Smaller
    <3> QED
      BY <3>3, <3>6
  <2> QED
    BY <2>1, <2>2 DEF DeletionFails
<1> HIDE DEF m
<1>7. \E j, k \in 0 .. begun.pools[pool].going :
        /\ j + k <= begun.pools[pool].going
        /\ m + j \in SizesInterrupted(begun.u, AgentCount, begun.pools[pool].size - k, begun.pools[pool].behind)
  BY <1>1, <1>6, InterruptedBy
<1>8. begun'.pools[p] = begun.pools[pool] /\ begun'.u = begun.u
  BY <1>1
<1> QED
  BY <1>7, <1>8 DEF Interrupted, SizeIn, m

-----------------------------------------------------------------------------
(* The end of an attempt, where the agents are in availability sets. *)

\* What the steps that end an attempt may change.
LEMMA EndSteps ==
  ASSUME [Next]_vars, pc # "idle", pc' = "idle"
  PROVE  /\ begun' = begun
         /\ \/ Succeed
            \/ /\ outcome' = "error"
               /\ vms' = vms \/ \E i \in Indices : DeletionFails(i)
               /\ masters' = masters \/ pc = "master"
<1>1. begun' = begun
  BY BegunStays DEF Start
<1>2. ~Start /\ ~(\E i \in MasterIndices : DeleteMaster(i)) /\ ~FindMissingMaster /\ ~CreateMaster
      /\ ~MastersUpgraded
  BY DEF Start, DeleteMaster, FindMissingMaster, CreateMaster, MastersUpgraded
<1>3. CASE UpgradeScaleSets
  <2>1. outcome' = "error"
    BY <1>3 DEF UpgradeScaleSets, ScaleSetStep, NextEntry, SetSku, DeleteInstance, InstanceNotFound,
       InstanceDone, ScaleSetsUpgraded, ScaleSetsFail
  <2> QED
    BY <1>1, <1>3, <2>1 DEF UpgradeScaleSets
<1>4. ~(\E p \in Pools : VisitPool(p)) /\ ~(\E i \in Indices : DeleteFailedNode(i))
      /\ ~FailedNodesDeleted /\ ~CreateMissingAgent /\ ~PoolFilled
  BY DEF VisitPool, DeleteFailedNode, FailedNodesDeleted, CreateMissingAgent, PoolFilled
<1>5. ~(\E i \in Indices : DeleteAgent(i)) /\ ~CreateAgent /\ ~AgentUpgraded /\ ~PoolUpgraded /\ ~PoolsUpgraded
  BY DEF DeleteAgent, CreateAgent, AgentUpgraded, PoolUpgraded, PoolsUpgraded
<1>6. CASE (\E i \in Indices : AgentNotFound(i)) \/ AgentNotUpgraded \/ CallFails \/ MasterNotReady \/ InstanceFails
  BY <1>1, <1>6 DEF AgentNotFound, AgentNotUpgraded, CallFails, MasterNotReady, InstanceFails, ScaleSetCallFails,
     Fail, ScaleSetsFail, azure, agents
<1>7. CASE \E i \in Indices : DeletionFails(i)
  BY <1>1, <1>7 DEF DeletionFails, Fail, ScaleSetsFail, others
<1>8. ~AzureStep /\ ~Upgraded /\ ~UNCHANGED vars
  BY DEF AzureStep, NodeComesUp, NodeDoesNot, NodeGone, Upgraded, vars
<1> QED
  BY <1>1, <1>2, <1>3, <1>4, <1>5, <1>6, <1>7, <1>8 DEF Next, Advance, Failures

LEMMA SameOutcome ==
  ASSUME NEW p \in Pools, ScaleSets' = ScaleSets, begun' = begun,
         IF ScaleSets = {} THEN vms'[p] = vms[p] ELSE instances'[p] = instances[p] /\ p \in ScaleSets
  PROVE  /\ Untouched(p) => Untouched(p)'
         /\ Interrupted(p) => Interrupted(p)'
         /\ Completed(p) => Completed(p)'
<1>1. Machines(p)' = Machines(p) /\ Behind(p)' = Behind(p)
  BY DEF Machines, Behind, Instances
<1>2. Untouched(p) => Untouched(p)'
  BY <1>1 DEF Untouched, SizeIn
<1>3. Interrupted(p) => Interrupted(p)'
  BY <1>1 DEF Interrupted, SizeIn
<1>4. Completed(p) => Completed(p)'
  BY <1>1 DEF Completed, SizeIn
<1> QED
  BY <1>2, <1>3, <1>4

\* With no pool skipped they have all been upgraded, otherwise those up to the first that
\* had no old agent.
LEMMA AgentsSuccess ==
  ASSUME Inv, PoolsInv, BegunInv, PassedInv, ScaleSets = {}, pc = "save"
  PROVE  \E visited \in PoolsVisited(begun.u, Pools, {p \in Pools : begun.pools[p].behind}) :
           \A p \in Pools : IF p \in visited THEN Completed(p) ELSE Untouched(p)
<1> DEFINE behind == {p \in Pools : begun.pools[p].behind}
<1>1. /\ begun.u.scaleSets = FALSE
      /\ \A p \in Pools : p \in behind <=> Seen(p, OldStates) # {}
  BY BegunWith DEF BegunInv
<1>2. ASSUME NEW p \in Pools, Unseen(p)
      PROVE  p \notin behind
  <2>1. seen[p] \in [Indices -> VMStates]
    BY DEF Inv, TypeOK
  <2>2. \A i \in Indices : seen[p][i] = "none"
    BY <1>2, <2>1 DEF Unseen, Present
  <2>3. Seen(p, OldStates) = {}
    BY <2>1, <2>2 DEF Seen, Present, OldStates
  <2> QED
    BY <1>1, <2>3
<1>3. PoolsVisited(begun.u, Pools, behind)
        = IF behind = Pools THEN {Pools} ELSE {visited \in SUBSET Pools : Cardinality(visited \ behind) = 1}
  BY <1>1 DEF PoolsVisited
<1>4. ASSUME NEW p \in Pools
      PROVE  /\ Visited(p) => Completed(p)
             /\ Unseen(p) => Completed(p)
             /\ ~Visited(p) => Untouched(p)
  BY <1>4, Done, LeftAlone DEF PassedInv, Visited
<1> HIDE DEF behind
<1>5. CASE \A p \in Pools : Visited(p) => p \in behind
  <2>1. poolsTodo = {}
    BY <1>1, <1>5 DEF PassedInv
  <2>2. \A p \in Pools : Visited(p) \/ Unseen(p)
    BY <2>1 DEF Visited
  <2>3. CASE behind = Pools
    <3>1. Pools \in PoolsVisited(begun.u, Pools, behind)
      BY <1>3, <2>3
    <3>2. \A p \in Pools : IF p \in Pools THEN Completed(p) ELSE Untouched(p)
      BY <1>4, <2>2
    <3> QED
      BY <3>1, <3>2 DEF behind
  <2>4. CASE behind # Pools
    <3>1. PICK q \in Pools : q \notin behind
      BY <2>4 DEF behind
    <3>2. behind \cup {q} \in SUBSET Pools /\ (behind \cup {q}) \ behind = {q}
      BY <3>1 DEF behind
    <3>3. behind \cup {q} \in PoolsVisited(begun.u, Pools, behind)
      BY <1>3, <2>4, <3>2, FS_Singleton
    <3>4. ASSUME NEW p \in Pools
          PROVE  IF p \in behind \cup {q} THEN Completed(p) ELSE Untouched(p)
      BY <1>2, <1>4, <1>5, <2>2, <3>1
    <3> QED
      BY <3>3, <3>4 DEF behind
  <2> QED
    BY <2>3, <2>4
<1>6. CASE ~(\A p \in Pools : Visited(p) => p \in behind)
  <2> DEFINE visited == {p \in Pools : Visited(p)}
  <2>1. visited \ behind = {pool} /\ pool \in Pools
    BY <1>1, <1>6 DEF PassedInv
  <2>2. visited \in PoolsVisited(begun.u, Pools, behind)
    BY <1>3, <2>1, FS_Singleton
  <2>3. \A p \in Pools : IF p \in visited THEN Completed(p) ELSE Untouched(p)
    BY <1>4
  <2> QED
    BY <2>2, <2>3 DEF behind
<1> QED
  BY <1>5, <1>6

\* A pool has been left alone, upgraded, or is the one at hand.
LEMMA AgentsFailure ==
  ASSUME Inv, PoolsInv, BegunInv, GrowInv, PassedInv, ScaleSets = {}, pc # "idle", NEW p \in Pools
  PROVE  /\ Untouched(p) \/ Interrupted(p) \/ Completed(p)
         /\ pc \in First => Untouched(p)
<1>1. CASE p \in poolsTodo \/ Unseen(p)
  BY <1>1, LeftAlone
<1>2. CASE Visited(p) /\ pc \in Visiting /\ p = pool
  BY <1>2, VisitInterrupted DEF Visiting, First
<1>3. CASE Visited(p) /\ ~(pc \in Visiting /\ p = pool)
  <2>1. pc \in Visiting \cup {"pools", "save"}
    BY <1>3 DEF Inv, TypeOK, Visiting, PoolsInv, First, Visited
  <2>2. Satisfied(p)
    BY <1>3, <2>1 DEF PassedInv, Visiting
  <2> QED
    BY <2>1, <2>2, Done DEF First, Visiting
<1> QED
  BY <1>1, <1>2, <1>3 DEF Visited

LEMMA AgentsEnd ==
  ASSUME Inv, PoolsInv, BegunInv, GrowInv, PassedInv, ScaleSets = {}, [Next]_vars, pc # "idle", pc' = "idle"
  PROVE  IF outcome' = "ok"
         THEN \E visited \in PoolsVisited(begun.u, Pools, {p \in Pools : begun.pools[p].behind}) :
                \A p \in Pools : IF p \in visited THEN Completed(p)' ELSE Untouched(p)'
         ELSE \/ \A p \in Pools : Untouched(p)'
              \/ /\ Present(masters', {"new"}) = MasterIndices
                 /\ \A p \in Pools : (Untouched(p) \/ Interrupted(p) \/ Completed(p))'
<1>1. begun' = begun /\ ScaleSets' = ScaleSets
  BY EndSteps, ProfileKept
<1>2. ASSUME NEW p \in Pools, vms'[p] = vms[p]
      PROVE  /\ Untouched(p) => Untouched(p)'
             /\ Interrupted(p) => Interrupted(p)'
             /\ Completed(p) => Completed(p)'
  BY <1>1, <1>2, SameOutcome
<1>3. CASE Succeed
  <2>1. pc = "save" /\ outcome' = "ok" /\ vms' = vms
    BY <1>3 DEF Succeed, azure, agents
  <2>2. PICK visited \in PoolsVisited(begun.u, Pools, {p \in Pools : begun.pools[p].behind}) :
               \A p \in Pools : IF p \in visited THEN Completed(p) ELSE Untouched(p)
    BY <2>1, AgentsSuccess
  <2>3. \A p \in Pools : IF p \in visited THEN Completed(p)' ELSE Untouched(p)'
    BY <1>2, <2>1, <2>2
  <2> QED
    BY <2>1, <2>3
<1>4. CASE ~Succeed
  <2>1. /\ outcome' = "error"
        /\ vms' = vms \/ \E i \in Indices : DeletionFails(i)
        /\ masters' = masters \/ pc = "master"
    BY <1>4, EndSteps
  <2>2. CASE pc \in First
    <3>1. vms' = vms
      BY <2>1, <2>2 DEF First, DeletionFails
    <3> QED
      BY <1>2, <2>1, <2>2, <3>1, AgentsFailure
  <2>3. CASE pc \notin First
    <3>1. masters' = masters /\ AllNew /\ masters \in [MasterIndices -> {"none", "old", "new"}]
      BY <2>1, <2>3 DEF First, Inv, TypeOK, MastersInv
    <3>2. Present(masters', {"new"}) = MasterIndices
      BY <3>1 DEF Present, AllNew
    <3>3. ASSUME NEW p \in Pools
          PROVE  (Untouched(p) \/ Interrupted(p) \/ Completed(p))'
      <4>1. CASE vms'[p] = vms[p]
        BY <1>2, <4>1, AgentsFailure
      <4>2. CASE vms'[p] # vms[p]
        <5>1. PICK i \in Indices : DeletionFails(i)
          BY <2>1, <4>2
        <5>2. PICK state \in {"none", "leaving", "Deleting"} : Becomes(pool, i, state)
          BY <5>1, FailsToDelete DEF Inv
        <5>3. p = pool
          <6>1. vms'[p] \in [Indices -> VMStates] /\ vms[p] \in [Indices -> VMStates]
            BY <5>2 DEF Becomes, Inv, TypeOK
          <6>2. p # pool => \A j \in Indices : vms'[p][j] = vms[p][j]
            BY <5>2 DEF Becomes
          <6>3. /\ vms'[p] = [j \in Indices |-> vms'[p][j]]
                /\ vms[p] = [j \in Indices |-> vms[p][j]]
            BY <6>1
          <6>4. CASE p # pool
            <7>1. [j \in Indices |-> vms'[p][j]] = [j \in Indices |-> vms[p][j]]
              BY <6>2, <6>4
            <7> QED
              BY <4>2, <6>3, <7>1
          <6> QED
            BY <6>4
        <5> QED
          BY <5>1, <5>3, DeletionInterrupted
      <4> QED
        BY <4>1, <4>2
    <3> QED
      BY <2>1, <3>2, <3>3
  <2> QED
    BY <2>2, <2>3
<1> QED
  BY <1>3, <1>4

-----------------------------------------------------------------------------
(* The scale sets, against what they were when the attempt began. *)

Was(s) == begun.pools[s]

\* The size of a scale set that upgradeAgentScaleSets does not touch.
Settled(s) == IF begun.u.redeploys THEN AgentCount ELSE Was(s).size

\* Every page of the list raises the capacity by one, and every instance on it takes one
\* away, unless it is gone already.
RaisedInv(s) ==
  /\ sku[s] >= Was(s).size
  /\ sku[s] + Cardinality(Left(s)) <= Was(s).size + MaxPages
  /\ Stale(s) # {} => Was(s).size # AgentCount
  /\ pc \in {"masters", "master"} =>
       /\ sku[s] = Was(s).size
       /\ Size(s) = Was(s).size \/ (begun.u.redeploys /\ Size(s) = AgentCount)
       /\ AllNew => Size(s) = Settled(s)
       /\ New(s) # {} => Was(s).ahead
  /\ sku[s] = Was(s).size =>
       /\ ~At(s)
       /\ OnList(s) # {} <=> Was(s).behind
       /\ pc \notin {"masters", "master"} => Size(s) = Settled(s)
  /\ sku[s] > Was(s).size =>
       /\ Was(s).behind
       /\ pc = "capacity" /\ At(s) => Size(s) = Settled(s) \/ Size(s) >= Was(s).size
       /\ ~At(s) => \/ Size(s) = sku[s] - 1
                    \/ Size(s) = sku[s] /\ begun.u.redeploys /\ Was(s).size # AgentCount

RaisedAll ==
  pc # "idle" => \A s \in ScaleSets : Was(s).going = 0 /\ RaisedInv(s)

LEMMA WasTyped ==
  ASSUME Inv, NEW s \in Pools
  PROVE  Was(s).size \in Nat /\ Was(s).behind \in BOOLEAN /\ Was(s).ahead \in BOOLEAN
<1>1. Was(s) \in [size : Nat, behind : BOOLEAN, ahead : BOOLEAN, going : Nat]
  BY DEF Inv, TypeOK, Was
<1> QED
  BY <1>1

LEMMA RaisedStart ==
  ASSUME Inv, Inv', ScaleSets = Pools, NoVMs, Start, NEW s \in Pools
  PROVE  Was(s)'.going = 0 /\ RaisedInv(s)'
<1>1. /\ pc' = "masters" /\ ListScaleSets /\ begun' = Now
      /\ UNCHANGED <<masters, instances>>
  BY DEF Start, azure, agents, scaleSets
<1>2. sku'[s] = Size(s) /\ OnList(s)' = Old(s)
  BY <1>1 DEF ListScaleSets, Size, OnList, Old, Pages
<1>3. /\ Size(s)' = Size(s) /\ Stale(s)' = {} /\ New(s)' = New(s)
      /\ Instances(s) # Old(s) <=> New(s) # {}
  <2>1. instances[s] \in [InstanceIDs -> {"none", "old", "new"}]
    BY DEF Inv, TypeOK, ScaleSetsTypeOK
  <2> QED
    BY <1>1, <1>2, <2>1 DEF Size, Instances, Stale, Old, New, Present
<1>4. /\ Was(s)'.size = Size(s) /\ Was(s)'.behind = (Old(s) # {})
      /\ Was(s)'.ahead = (Instances(s) # Old(s)) /\ Was(s)'.going = 0
  <2>1. Machines(s) = Instances(s) /\ Behind(s) = Old(s)
    BY DEF Machines, Behind, Old
  <2>2. Present(vms[s], {"leaving", "Failed"}) = {}
    BY DEF NoVMs, Present, Inv, TypeOK
  <2>3. Cardinality(Present(vms[s], {"leaving", "Failed"})) = 0
    BY <2>2, FS_EmptySet
  <2>4. Now.pools[s] = [size   |-> Cardinality(Machines(s)), behind |-> Behind(s) # {},
                        ahead  |-> Machines(s) # Behind(s),
                        going  |-> Cardinality(Present(vms[s], {"leaving", "Failed"}))]
    BY DEF Now
  <2> QED
    BY <1>1, <2>1, <2>3, <2>4 DEF Was, Size
<1>5. begun'.u.redeploys <=> ~AllNew'
  <2>1. masters \in [MasterIndices -> {"none", "old", "new"}]
    BY DEF Inv, TypeOK
  <2>2. begun'.u.redeploys = (Present(masters, {"new"}) # MasterIndices)
    BY <1>1 DEF Now
  <2> QED
    BY <1>1, <2>1, <2>2 DEF AllNew, Present
<1>6. ~At(s)'
  BY <1>1 DEF At
<1>7. AllNew' => Size(s)' = Settled(s)'
  BY <1>3, <1>4, <1>5 DEF Settled
<1>8. Sized(s)' /\ Sized(s)
  BY SizesTyped, SizesTypedNext
<1>9. /\ sku'[s] = Was(s)'.size /\ Size(s)' = Was(s)'.size
      /\ sku'[s] + Cardinality(Left(s)') <= Was(s)'.size + MaxPages
      /\ sku'[s] >= Was(s)'.size /\ ~(sku'[s] > Was(s)'.size)
  BY <1>2, <1>3, <1>4, <1>8, Numbers DEF Sized
<1>10. OnList(s)' # {} <=> Was(s)'.behind
  BY <1>2, <1>4
<1>11. New(s)' # {} => Was(s)'.ahead
  BY <1>3, <1>4
<1>12. RaisedInv(s)'
  BY <1>1, <1>3, <1>6, <1>7, <1>9, <1>10, <1>11 DEF RaisedInv
<1> QED
  BY <1>4, <1>12

\* A deployment that scales in takes instances only from a scale set that was too large.
LEMMA RaisedDeploys ==
  ASSUME Inv, Inv', PagesInv, SizesInv, ScaleSets = Pools, Deploys, pc' # "idle", NEW s \in Pools, RaisedInv(s)
  PROVE  RaisedInv(s)'
<1>1. /\ pc = "master" /\ begun' = begun /\ begun.u.redeploys
      /\ Instances(s)' \subseteq Instances(s) /\ Size(s)' = AgentCount
      /\ New(s)' \subseteq New(s)
  BY Deployed DEF Deploys
<1>2. pc' = "masters" /\ UNCHANGED entries
  BY DEF Deploys, Ends, ScaleSetsFail
<1>3. /\ OnList(s)' = OnList(s) /\ Left(s)' = Left(s) /\ ~At(s)' /\ sku' = sku
      /\ Was(s)' = Was(s) /\ Settled(s)' = AgentCount
  BY <1>1, <1>2 DEF OnList, Left, At, entries, Pages, Was, Settled
<1>4. Sized(s)' /\ Sized(s) /\ Was(s).size \in Nat
  BY SizesTyped, SizesTypedNext, WasTyped
<1>5. /\ sku[s] = Was(s).size
      /\ Size(s) = Was(s).size \/ Size(s) = AgentCount
      /\ New(s) # {} => Was(s).ahead
      /\ ~At(s) /\ (OnList(s) # {} <=> Was(s).behind)
      /\ Stale(s) # {} => Was(s).size # AgentCount
      /\ sku[s] + Cardinality(Left(s)) <= Was(s).size + MaxPages
  BY <1>1 DEF RaisedInv
<1>6. ASSUME Stale(s)' # {}, Was(s).size = AgentCount
      PROVE  FALSE
  <2>1. Cardinality(Instances(s)') = Cardinality(Instances(s))
    BY <1>1, <1>5, <1>6 DEF Size
  <2>2. Instances(s)' = Instances(s)
    BY <1>1, <1>4, <2>1, FS_Subset DEF Sized
  <2>3. Stale(s)' = Stale(s)
    BY <1>3, <2>2 DEF Stale
  <2> QED
    BY <1>5, <1>6, <2>3
<1> QED
  BY <1>1, <1>2, <1>3, <1>4, <1>5, <1>6, Numbers DEF RaisedInv, Sized

LEMMA RaisedPasses ==
  ASSUME Inv, Inv', ScaleSets = Pools, Passes, pc # "idle", pc' # "idle", AllNew' => AllNew,
         NEW s \in Pools, RaisedInv(s)
  PROVE  RaisedInv(s)'
<1>1. UNCHANGED <<scaleSets, entries, begun>>
  BY DEF Passes
<1>2. /\ Size(s)' = Size(s) /\ Stale(s)' = Stale(s) /\ sku' = sku /\ New(s)' = New(s)
      /\ OnList(s)' = OnList(s) /\ Was(s)' = Was(s) /\ Settled(s)' = Settled(s)
      /\ begun'.u.redeploys = begun.u.redeploys
  BY <1>1 DEF Size, Instances, Stale, New, OnList, scaleSets, entries, Pages, Was, Settled
<1>3. CASE UNCHANGED pc
  <2>1. Left(s)' = Left(s) /\ (At(s)' <=> At(s))
    BY <1>1, <1>3 DEF Left, At, entries, Pages
  <2> QED
    BY <1>2, <1>3, <2>1 DEF RaisedInv
<1>4. CASE pc \notin {"capacity", "instance"} /\ pc' \notin {"capacity", "instance"}
  <2>1. Left(s)' = Left(s) /\ ~At(s) /\ ~At(s)'
    BY <1>1, <1>4 DEF Left, At, entries, Pages
  <2>2. CASE pc' \in {"masters", "master"}
    <3>1. pc \in {"masters", "master"}
      BY <2>2 DEF Passes, First
    <3> QED
      BY <1>2, <1>4, <2>1, <2>2, <3>1 DEF RaisedInv
  <2>3. CASE pc' \notin {"masters", "master"}
    <3>1. pc \in {"masters", "master"} => sku[s] = Was(s).size /\ Size(s) = Settled(s)
      <4>1. AllNew'
        BY <2>3 DEF Inv, MastersInv
      <4> QED
        BY <4>1 DEF RaisedInv
    <3>2. sku[s] \in Nat /\ Was(s).size \in Nat
      BY SizesTyped, WasTyped DEF Sized
    <3> QED
      BY <1>2, <1>4, <2>1, <2>3, <3>1, <3>2 DEF RaisedInv
  <2> QED
    BY <2>2, <2>3
<1> QED
  BY <1>3, <1>4 DEF Passes, First

LEMMA RaisedNext ==
  ASSUME Inv, Inv', ScaleSets = Pools, begun' = begun, NEW t \in Pools, NEW n \in Pages, NextEntry(t, n),
         NEW s \in Pools, RaisedInv(s)
  PROVE  RaisedInv(s)'
<1>1. /\ pc = "scaleSets" /\ pc' = "capacity" /\ entry' = <<t, n>> /\ listed[t][n] # {}
      /\ sku' = [sku EXCEPT ![t] = sku[t] + 1] /\ UNCHANGED <<scaleSets, listed, outcome, faults>>
  BY DEF NextEntry, NewCapacity
<1>2. /\ Size(s)' = Size(s) /\ Stale(s)' = Stale(s) /\ OnList(s)' = OnList(s)
      /\ Was(s)' = Was(s) /\ Settled(s)' = Settled(s) /\ begun'.u.redeploys = begun.u.redeploys /\ ~At(s)
  BY <1>1 DEF Size, Instances, Stale, OnList, scaleSets, Pages, Was, Settled, At
<1>3. Sized(s)' /\ Sized(s) /\ Was(s).size \in Nat
  BY SizesTyped, SizesTypedNext, WasTyped
<1>4. sku \in [Pools -> Nat]
  BY DEF Inv, TypeOK, ScaleSetsTypeOK
<1>5. CASE s = t
  <2>1. At(s)' /\ sku'[s] = sku[s] + 1
    BY <1>1, <1>4, <1>5 DEF At
  <2>2. n \in Left(s) /\ Left(s)' = Left(s) \ {n}
    BY <1>1, <1>2, <1>5, <2>1 DEF Left, Pages
  <2>3. Cardinality(Left(s)') = Cardinality(Left(s)) - 1
    BY <1>3, <2>2, FS_RemoveElement DEF Sized
  <2>4. OnList(s) # {}
    BY <1>1, <1>5 DEF OnList
  <2>5. sku[s] >= Was(s).size /\ sku[s] + Cardinality(Left(s)) <= Was(s).size + MaxPages
    BY DEF RaisedInv
  <2>6. Was(s).behind /\ (Size(s) = Settled(s) \/ Size(s) >= Was(s).size)
    <3>1. CASE sku[s] = Was(s).size
      BY <1>1, <2>4, <3>1 DEF RaisedInv
    <3>2. CASE sku[s] > Was(s).size
      <4>1. Was(s).behind /\ (Size(s) = sku[s] - 1 \/ Size(s) = sku[s])
        BY <1>2, <3>2 DEF RaisedInv
      <4> QED
        BY <1>3, <3>2, <4>1 DEF Sized
    <3> QED
      BY <1>3, <2>5, <3>1, <3>2 DEF Sized
  <2>7. /\ sku'[s] > Was(s).size
        /\ sku'[s] + Cardinality(Left(s)') <= Was(s).size + MaxPages
    BY <1>3, <2>1, <2>3, <2>5, Numbers DEF Sized
  <2>8. Stale(s) # {} => Was(s).size # AgentCount
    BY DEF RaisedInv
  <2>9. sku'[s] # Was(s).size /\ sku'[s] >= Was(s).size
    BY <1>3, <2>1, <2>5, <2>7 DEF Sized
  <2> QED
    BY <1>1, <1>2, <2>1, <2>6, <2>7, <2>8, <2>9 DEF RaisedInv
<1>6. CASE s # t
  <2>1. ~At(s)' /\ sku'[s] = sku[s]
    BY <1>1, <1>4, <1>6 DEF At
  <2>2. Left(s)' = Left(s)
    BY <1>1, <1>2, <2>1 DEF Left, Pages
  <2> QED
    BY <1>1, <1>2, <2>1, <2>2 DEF RaisedInv
<1> QED
  BY <1>5, <1>6

LEMMA RaisedSet ==
  ASSUME Inv, Inv', SizesInv, ScaleSets = Pools, begun' = begun, SetSku, NEW s \in Pools, RaisedInv(s)
  PROVE  RaisedInv(s)'
<1>1. /\ pc = "capacity" /\ pc' = "instance" /\ SetCapacity(entry[1], sku[entry[1]])
      /\ UNCHANGED entries
  BY DEF SetSku
<1>2. /\ (At(s)' <=> At(s)) /\ Left(s)' = Left(s) /\ OnList(s)' = OnList(s) /\ sku' = sku
      /\ Was(s)' = Was(s) /\ Settled(s)' = Settled(s) /\ begun'.u.redeploys = begun.u.redeploys
      /\ At(s) <=> s = entry[1]
  BY <1>1 DEF At, Left, OnList, Pages, entries, Was, Settled
<1>3. CASE s = entry[1]
  <2>1. At(s) /\ Stale(s)' \subseteq Stale(s)
    BY <1>1, <1>2, <1>3, CapacityRaised DEF Stale
  <2>2. /\ sku[s] # Was(s).size /\ sku[s] >= Was(s).size
        /\ sku[s] \in Nat /\ Was(s).size \in Nat
    BY <2>1, SizesTyped, WasTyped DEF RaisedInv, Sized
  <2> QED
    BY <1>1, <1>2, <2>1, <2>2 DEF RaisedInv
<1>4. CASE s # entry[1]
  <2>1. ~At(s) /\ Size(s)' = Size(s) /\ Stale(s)' = Stale(s)
    BY <1>1, <1>2, <1>4, CapacityRaised, Same DEF Stale
  <2> QED
    BY <1>1, <1>2, <2>1 DEF RaisedInv
<1> QED
  BY <1>3, <1>4

\* An instance taken off the list has been deleted, or had gone.
LEMMA RaisedDone ==
  ASSUME Inv, Inv', PagesInv, SizesInv, ScaleSets = Pools, begun' = begun,
         pc = "instance", NEW i, i \in listed[entry[1]][entry[2]], InstanceDone(i),
         UNCHANGED <<sku, entry>>,
         \/ i \in Instances(entry[1]) /\ Remove(entry[1], i)
         \/ i \notin Instances(entry[1]) /\ instances' = instances,
         NEW s \in Pools, RaisedInv(s)
  PROVE  RaisedInv(s)'
<1>1. ScaleSetsTypeOK /\ entry \in Pools \X Pages /\ entry[1] \in Pools /\ entry[2] \in Pages
  BY DEF Inv, TypeOK, ScaleSetsTypeOK
<1>2. /\ pc' \in {"scaleSets", "capacity"}
      /\ \A n \in Pages : listed'[s][n] = IF s = entry[1] /\ n = entry[2] THEN listed[s][n] \ {i} ELSE listed[s][n]
      /\ s = entry[1] => (pc' = "scaleSets" <=> listed'[s][entry[2]] = {})
  <2>1. \A n \in Pages : <<s, n>> = entry <=> s = entry[1] /\ n = entry[2]
    BY <1>1
  <2>2. \A n \in Pages : listed'[s][n] = IF <<s, n>> = entry THEN listed[s][n] \ {i} ELSE listed[s][n]
    BY <1>1, DoneListed
  <2> QED
    BY <2>1, <2>2 DEF InstanceDone
<1>3. Sized(s)' /\ Sized(s) /\ Was(s).size \in Nat
  BY SizesTyped, SizesTypedNext, WasTyped
<1>4. /\ Was(s)' = Was(s) /\ Settled(s)' = Settled(s) /\ begun'.u.redeploys = begun.u.redeploys
      /\ sku' = sku
  BY DEF Was, Settled
<1>5. Left(s)' = Left(s)
  <2>1. ASSUME NEW n \in Pages
        PROVE  listed'[s][n] # {} /\ ~(At(s)' /\ entry'[2] = n) <=> listed[s][n] # {} /\ ~(At(s) /\ entry[2] = n)
    BY <1>1, <1>2 DEF At
  <2> QED
    BY <2>1 DEF Left, Pages
<1>6. CASE s # entry[1]
  <2>1. ~At(s) /\ ~At(s)' /\ OnList(s)' = OnList(s)
    BY <1>2, <1>6 DEF At, OnList, Pages
  <2>2. Size(s)' = Size(s) /\ Stale(s)' = Stale(s)
    BY <1>1, <1>6, <2>1, InstanceRemoved, Same DEF Stale
  <2> QED
    BY <1>2, <1>4, <1>5, <2>1, <2>2 DEF RaisedInv
<1>7. CASE s = entry[1]
  <2>1. At(s) /\ (At(s)' <=> pc' = "capacity") /\ Size(s) = sku[s]
    BY <1>2, <1>7 DEF At, SizesInv, SizeInv
  <2>2. i \in OnList(s) /\ OnList(s)' \subseteq OnList(s) /\ i \notin OnList(s)'
    <3>1. \A n \in Pages : n # entry[2] => i \notin listed[s][n]
      BY <1>1, <1>7 DEF PagesInv
    <3>2. \A n \in Pages : i \notin listed'[s][n] /\ listed'[s][n] \subseteq listed[s][n]
      BY <1>2, <1>7, <3>1
    <3> QED
      BY <1>1, <1>7, <3>2 DEF OnList, Pages
  <2>3. /\ Stale(s)' \subseteq Stale(s)
        /\ Size(s)' = IF i \in Instances(s) THEN Size(s) - 1 ELSE Size(s)
        /\ i \notin Instances(s) => Stale(s) # {}
    BY <1>1, <1>7, <2>2, InstanceRemoved, Same DEF Stale
  <2>4. sku[s] # Was(s).size /\ sku[s] >= Was(s).size /\ sku[s] > Was(s).size
    BY <1>3, <2>1 DEF RaisedInv, Sized
  <2>5. /\ Was(s).behind /\ sku[s] + Cardinality(Left(s)) <= Was(s).size + MaxPages
        /\ Stale(s) # {} => Was(s).size # AgentCount /\ begun.u.redeploys
    BY <2>4 DEF RaisedInv, SizesInv, SizeInv
  <2>6. /\ Size(s)' >= Was(s).size
        /\ \/ Size(s)' = sku[s] - 1
           \/ Size(s)' = sku[s] /\ begun.u.redeploys /\ Was(s).size # AgentCount
    BY <1>3, <2>1, <2>3, <2>4, <2>5 DEF Sized
  <2>7. Stale(s)' # {} => Was(s).size # AgentCount
    BY <2>3, <2>5
  <2> QED
    BY <1>2, <1>4, <1>5, <2>4, <2>5, <2>6, <2>7 DEF RaisedInv
<1> QED
  BY <1>6, <1>7

\* Only a deployment brings the last master.
LEMMA LastMaster ==
  ASSUME Inv, [Next]_vars, ~AllNew, AllNew', pc' # "idle"
  PROVE  CreateMaster
<1>1. masters \in [MasterIndices -> {"none", "old", "new"}]
  BY DEF Inv, TypeOK
<1>2. ASSUME NEW i \in MasterIndices, DeleteMaster(i)
      PROVE  FALSE
  BY <1>1, <1>2 DEF DeleteMaster, AllNew
<1>3. CASE Start \/ FindMissingMaster \/ MastersUpgraded
  BY <1>3 DEF Start, FindMissingMaster, MastersUpgraded, azure, AllNew
<1>4. ~MasterNotReady
  BY DEF MasterNotReady, Fail, ScaleSetsFail
<1>5. CASE ~MastersStep
  BY <1>5, OtherSteps DEF Inv, AllNew
<1> QED
  BY <1>2, <1>3, <1>4, <1>5 DEF MastersStep

LEMMA RaisedKept ==
  ASSUME Inv, Inv', SetsInv, RaisedAll, [Next]_vars
  PROVE  RaisedAll'
<1> SUFFICES ASSUME pc' # "idle", NEW s \in ScaleSets
             PROVE  Was(s)'.going = 0 /\ RaisedInv(s)'
  BY ProfileKept DEF RaisedAll
<1>1. /\ PoolsInv /\ NoVMs /\ PagesInv /\ SizesInv
      /\ ScaleSets = Pools /\ s \in Pools /\ pc \notin Visiting
  BY NothingVisited DEF SetsInv
<1>2. CASE Start
  BY <1>1, <1>2, RaisedStart
<1>3. CASE ~Start
  <2>1. pc # "idle" /\ begun' = begun
    BY <1>3, Continues, BegunStays
  <2>2. Was(s)'.going = 0 /\ RaisedInv(s)
    BY <2>1 DEF RaisedAll, Was
  <2>3. CASE Deploys
    BY <1>1, <2>2, <2>3, RaisedDeploys
  <2>4. CASE \E t \in Pools, n \in Pages : NextEntry(t, n)
    BY <1>1, <2>1, <2>2, <2>4, RaisedNext
  <2>5. CASE SetSku
    BY <1>1, <2>1, <2>2, <2>5, RaisedSet
  <2>6. ASSUME NEW i \in InstanceIDs, DeleteInstance(i) \/ InstanceNotFound(i)
        PROVE  RaisedInv(s)'
    <3>1. /\ pc = "instance" /\ i \in listed[entry[1]][entry[2]] /\ InstanceDone(i) /\ UNCHANGED <<sku, entry>>
          /\ \/ i \in Instances(entry[1]) /\ Remove(entry[1], i)
             \/ i \notin Instances(entry[1]) /\ instances' = instances
      BY <2>6 DEF DeleteInstance, InstanceNotFound, ScaleSetsFail, scaleSets
    <3> QED
      BY <1>1, <2>1, <2>2, <3>1, RaisedDone
  <2>7. ~ScaleSetCallFails /\ ~Ends
    BY DEF ScaleSetCallFails, Ends, ScaleSetsFail
  <2>8. CASE Passes /\ ~Deploys
    <3>1. ~CreateMaster
      BY <2>1, <2>8 DEF CreateMaster, Deploys, listing, before
    <3>2. AllNew' => AllNew
      BY <3>1, LastMaster
    <3> QED
      BY <1>1, <2>1, <2>2, <2>8, <3>2, RaisedPasses
  <2>9. RaisedInv(s)'
    BY <1>1, <1>3, <2>3, <2>4, <2>5, <2>6, <2>7, <2>8, ScaleSteps
  <2> QED
    BY <2>2, <2>9
<1> QED
  BY <1>2, <1>3

-----------------------------------------------------------------------------
(* The end of an attempt, where the agents are instances of scale sets. *)

\* What an attempt that ends has made of a scale set.
LEMMA SetEnds ==
  ASSUME Inv, Inv', SetsInv, BegunInv, RaisedAll, ScaleSets # {}, [Next]_vars, pc # "idle", pc' = "idle",
         NEW s \in Pools
  PROVE  /\ pc \in {"masters", "master"} =>
              /\ Size(s)' = Was(s).size \/ (begun.u.redeploys /\ Size(s)' = AgentCount)
              /\ New(s)' # {} => Was(s).ahead
         /\ pc \notin {"masters", "master"} =>
              \/ Size(s)' = Settled(s)
              \/ Was(s).behind /\ Size(s)' \in Was(s).size .. Was(s).size + MaxPages
<1>1. /\ PoolsInv /\ NoVMs /\ PagesInv /\ SizesInv
      /\ ScaleSets = Pools /\ pc \notin Visiting
  BY NothingVisited DEF SetsInv
<1>2. /\ RaisedInv(s) /\ SizeInv(s) /\ Sized(s) /\ Sized(s)' /\ Was(s).size \in Nat
  BY <1>1, SizesTyped, SizesTypedNext, WasTyped DEF RaisedAll, SizesInv
<1>3. ASSUME instances' = instances
      PROVE  /\ pc \in {"masters", "master"} =>
                  /\ Size(s)' = Was(s).size \/ (begun.u.redeploys /\ Size(s)' = AgentCount)
                  /\ New(s)' # {} => Was(s).ahead
             /\ pc \notin {"masters", "master"} =>
                  \/ Size(s)' = Settled(s)
                  \/ Was(s).behind /\ Size(s)' \in Was(s).size .. Was(s).size + MaxPages
  <2>1. Size(s)' = Size(s) /\ New(s)' = New(s)
    BY <1>3 DEF Size, Instances, New
  <2>2. CASE pc \in {"masters", "master"}
    BY <2>1, <2>2, <1>2 DEF RaisedInv
  <2>3. CASE pc \notin {"masters", "master"}
    <3>1. CASE sku[s] = Was(s).size
      BY <1>2, <2>1, <2>3, <3>1 DEF RaisedInv
    <3>2. CASE sku[s] # Was(s).size
      <4>1. sku[s] > Was(s).size /\ sku[s] <= Was(s).size + MaxPages
        BY <1>2, <3>2, Numbers DEF RaisedInv, Sized
      <4>2. /\ Was(s).behind
            /\ pc = "capacity" /\ At(s) => Size(s) = Settled(s) \/ Size(s) >= Was(s).size
            /\ ~At(s) => Size(s) = sku[s] - 1 \/ Size(s) = sku[s]
        BY <1>2, <4>1 DEF RaisedInv
      <4>3. Size(s) <= sku[s] /\ (At(s) /\ pc = "instance" => Size(s) = sku[s])
        BY <1>2 DEF SizeInv
      <4>4. At(s) => pc \in {"capacity", "instance"}
        BY DEF At
      <4>5. Size(s) = Settled(s) \/ Size(s) >= Was(s).size
        BY <1>2, <4>1, <4>2, <4>3, <4>4 DEF Sized
      <4>6. Size(s) = Settled(s) \/ Size(s) \in Was(s).size .. Was(s).size + MaxPages
        BY <1>2, <4>1, <4>3, <4>5, Numbers DEF Sized
      <4> QED
        BY <2>1, <2>3, <4>2, <4>6
    <3> QED
      BY <3>1, <3>2
  <2> QED
    BY <2>2, <2>3
<1>4. CASE Deploys
  <2>1. /\ pc = "master" /\ begun.u.redeploys /\ Size(s)' = AgentCount /\ New(s)' \subseteq New(s)
    BY <1>1, <1>4, Deployed DEF Deploys
  <2>2. New(s) # {} => Was(s).ahead
    BY <1>2, <2>1 DEF RaisedInv
  <2> QED
    BY <2>1, <2>2
<1>5. ~(\E t \in Pools, n \in Pages : NextEntry(t, n)) /\ ~SetSku /\ ~Start
  BY DEF NextEntry, SetSku, Start
<1>6. CASE \E i \in InstanceIDs : DeleteInstance(i) \/ InstanceNotFound(i)
  <2>1. instances' = instances
    BY <1>6 DEF DeleteInstance, InstanceNotFound, InstanceDone, scaleSets
  <2> QED
    BY <1>3, <2>1
<1>7. CASE ScaleSetCallFails
  <2>1. pc \in {"capacity", "instance"} /\ entry[1] \in Pools
    BY <1>7 DEF ScaleSetCallFails, Inv, TypeOK, ScaleSetsTypeOK
  <2>2. CASE s # entry[1]
    <3>1. instances'[s] = instances[s]
      <4>1. CASE pc = "capacity" /\ SetCapacity(entry[1], sku[entry[1]])
        BY <1>1, <2>2, <4>1, CapacityRaised
      <4>2. CASE \E i \in listed[entry[1]][entry[2]] : Remove(entry[1], i)
        BY <2>1, <2>2, <4>2, InstanceRemoved
      <4> QED
        BY <1>7, <4>1, <4>2 DEF ScaleSetCallFails
    <3>2. Size(s)' = Size(s) /\ ~At(s)
      BY <2>2, <3>1, Same DEF At
    <3>3. CASE sku[s] = Was(s).size
      BY <1>2, <2>1, <3>2, <3>3 DEF RaisedInv
    <3>4. CASE sku[s] # Was(s).size
      <4>1. sku[s] > Was(s).size /\ sku[s] <= Was(s).size + MaxPages
        BY <1>2, <3>4, Numbers DEF RaisedInv, Sized
      <4>2. Was(s).behind /\ (Size(s) = sku[s] - 1 \/ Size(s) = sku[s])
        BY <1>2, <3>2, <4>1 DEF RaisedInv
      <4>3. Size(s) \in Was(s).size .. Was(s).size + MaxPages
        BY <1>2, <4>1, <4>2, Numbers DEF Sized
      <4> QED
        BY <2>1, <3>2, <4>2, <4>3
    <3> QED
      BY <3>3, <3>4
  <2>3. CASE s = entry[1]
    <3>1. At(s)
      BY <2>1, <2>3 DEF At
    <3>2. sku[s] > Was(s).size /\ sku[s] <= Was(s).size + MaxPages
      BY <1>2, <3>1, Numbers DEF RaisedInv, Sized
    <3>3. Was(s).behind
      BY <1>2, <3>2 DEF RaisedInv
    <3>4. Size(s)' = sku[s] \/ Size(s)' = sku[s] - 1
      <4>1. CASE pc = "capacity" /\ SetCapacity(entry[1], sku[entry[1]])
        BY <1>1, <2>3, <4>1, CapacityRaised
      <4>2. CASE pc = "instance" /\ \E i \in listed[entry[1]][entry[2]] : Remove(entry[1], i)
        <5>1. Size(s) = sku[s]
          BY <1>2, <3>1, <4>2 DEF SizeInv
        <5> QED
          BY <2>1, <2>3, <4>2, <5>1, InstanceRemoved
      <4> QED
        BY <1>7, <4>1, <4>2 DEF ScaleSetCallFails
    <3>5. Size(s)' \in Was(s).size .. Was(s).size + MaxPages
      BY <1>2, <3>2, <3>4, Numbers DEF Sized
    <3> QED
      BY <2>1, <3>3, <3>5
  <2> QED
    BY <2>2, <2>3
<1>8. CASE UNCHANGED scaleSets
  BY <1>3, <1>8 DEF scaleSets
<1> QED
  BY <1>1, <1>4, <1>5, <1>6, <1>7, <1>8, ScaleSteps DEF Passes

\* The upgrade of a scale set is complete when its pages are done.
LEMMA SetUpgraded ==
  ASSUME Inv, Inv', SetsInv, SetsInv', BegunInv, RaisedAll, ScaleSets # {}, [Next]_vars, Succeed,
         faults' < MasterCount, NEW s \in Pools
  PROVE  /\ Old(s)' = {}
         /\ ~Was(s).behind => Size(s)' = Settled(s)
         /\ Was(s).behind =>
              /\ Size(s)' \in Was(s).size .. Was(s).size + MaxPages
              /\ Size(s)' = Was(s).size + MaxPages => begun.u.redeploys /\ Was(s).size # AgentCount
<1>1. /\ PagesInv /\ ScaleSets = Pools /\ pc = "save" /\ pc' = "idle" /\ outcome' = "ok"
      /\ UNCHANGED <<masters, model, instances, faults>>
  BY NothingVisited DEF SetsInv, Succeed, azure, agents, scaleSets
<1>2. /\ RaisedInv(s) /\ Sized(s) /\ Was(s).size \in Nat /\ Was(s).behind \in BOOLEAN
  BY <1>1, SizesTyped, WasTyped DEF RaisedAll
<1>3. Size(s)' = Size(s)
  BY <1>1 DEF Size, Instances
<1>4. OnList(s) = {} /\ ~At(s)
  <2>1. listed = NothingListed
    BY <1>1 DEF PagesInv, First
  <2> QED
    BY <1>1, <2>1 DEF OnList, NothingListed, At
<1>5. Old(s)' = {}
  <2>1. VersionInv(s)'
    <3>1. ScaleSets' = ScaleSets
      BY ProfileKept
    <3> QED
      BY <1>1, <3>1 DEF SetsInv, VersionsInv
  <2>2. Present(masters, {"new"}) = MasterIndices
    BY <1>1 DEF AllNew, Present, Inv, TypeOK, MastersInv
  <2>3. ~(MasterCount <= faults)
    BY <1>1, Numbers DEF Inv, TypeOK
  <2>4. ~(Cardinality(Present(masters, {"new"})) <= faults)
    BY <2>2, <2>3, IndicesFinite
  <2>5. model'[s] # "old"
    BY <1>1, <2>1, <2>4 DEF VersionInv
  <2>6. model[s] \in {"old", "new"}
    BY DEF Inv, TypeOK, ScaleSetsTypeOK
  <2> QED
    BY <1>1, <2>1, <2>5, <2>6 DEF VersionInv
<1>6. CASE sku[s] = Was(s).size
  BY <1>1, <1>2, <1>3, <1>4, <1>5, <1>6 DEF RaisedInv
<1>7. CASE sku[s] # Was(s).size
  <2>1. sku[s] > Was(s).size /\ sku[s] <= Was(s).size + MaxPages
    BY <1>2, <1>7, Numbers DEF RaisedInv, Sized
  <2>2. /\ Was(s).behind
        /\ \/ Size(s) = sku[s] - 1
           \/ Size(s) = sku[s] /\ begun.u.redeploys /\ Was(s).size # AgentCount
    BY <1>2, <1>4, <2>1 DEF RaisedInv
  <2>3. Size(s) \in Was(s).size .. Was(s).size + MaxPages
    BY <1>2, <2>1, <2>2, Numbers DEF Sized
  <2>4. Size(s) = Was(s).size + MaxPages => begun.u.redeploys /\ Was(s).size # AgentCount
    BY <1>2, <2>1, <2>2, Numbers DEF Sized
  <2> QED
    BY <1>3, <1>5, <2>2, <2>3, <2>4
<1> QED
  BY <1>6, <1>7

LEMMA SetsEnd ==
  ASSUME Inv, Inv', SetsInv, SetsInv', BegunInv, RaisedAll, ScaleSets # {}, [Next]_vars,
         pc # "idle", pc' = "idle", faults' < MasterCount
  PROVE  IF outcome' = "ok"
         THEN \E visited \in PoolsVisited(begun.u, Pools, {p \in Pools : begun.pools[p].behind}) :
                \A p \in Pools : IF p \in visited THEN Completed(p)' ELSE Untouched(p)'
         ELSE \/ \A p \in Pools : Untouched(p)'
              \/ /\ Present(masters', {"new"}) = MasterIndices
                 /\ \A p \in Pools : (Untouched(p) \/ Interrupted(p) \/ Completed(p))'
<1>1. /\ begun' = begun /\ ScaleSets' = ScaleSets /\ ScaleSets = Pools
      /\ begun.u.scaleSets = TRUE /\ begun.u.pages = MaxPages
  BY EndSteps, ProfileKept, NothingVisited DEF SetsInv, BegunInv, Inv, TypeOK
<1>2. ASSUME NEW s \in Pools
      PROVE  /\ Was(s) = begun.pools[s] /\ begun.pools[s].going = 0 /\ begun.pools[s].size \in Nat
             /\ Size(s)' \in Nat
             /\ Machines(s)' = Instances(s)' /\ Behind(s)' = Old(s)'
             /\ Cardinality(Machines(s)') + 0 = Size(s)' /\ begun.pools[s].size - 0 = begun.pools[s].size
  <2>1. Was(s) = begun.pools[s] /\ begun.pools[s].going = 0 /\ begun.pools[s].size \in Nat
    BY <1>1, WasTyped DEF RaisedAll, Was
  <2>2. Machines(s)' = Instances(s)' /\ Behind(s)' = Old(s)' /\ Size(s)' \in Nat
    BY <1>1, SizesTypedNext DEF Machines, Behind, Old, Sized
  <2> QED
    BY <2>1, <2>2 DEF Size
<1>3. 0 \in 0 .. 0 /\ 0 + 0 <= 0
  OBVIOUS
<1>4. CASE Succeed
  <2>1. outcome' = "ok"
    BY <1>4 DEF Succeed
  <2>2. ASSUME NEW s \in Pools
        PROVE  Completed(s)'
    <3>1. /\ Old(s)' = {}
          /\ ~Was(s).behind => Size(s)' = Settled(s)
          /\ Was(s).behind =>
               /\ Size(s)' \in Was(s).size .. Was(s).size + MaxPages
               /\ Size(s)' = Was(s).size + MaxPages => begun.u.redeploys /\ Was(s).size # AgentCount
      BY <1>4, SetUpgraded
    <3>2. Size(s)' \in SizesUpgraded(begun.u, AgentCount, begun.pools[s].size, begun.pools[s].behind)
      <4>1. CASE ~Was(s).behind
        BY <1>1, <1>2, <3>1, <4>1 DEF SizesUpgraded, Settled
      <4>2. CASE Was(s).behind
        <5>1. Size(s)' \in begun.pools[s].size .. begun.pools[s].size + MaxPages
                            - (IF begun.u.redeploys /\ begun.pools[s].size # AgentCount THEN 0 ELSE 1)
          BY <1>2, <3>1, <4>2, Numbers
        <5> QED
          BY <1>1, <1>2, <4>2, <5>1 DEF SizesUpgraded
      <4> QED
        BY <4>1, <4>2
    <3> QED
      BY <1>1, <1>2, <1>3, <3>1, <3>2 DEF Completed, SizeIn
  <2>3. Pools \in PoolsVisited(begun.u, Pools, {p \in Pools : begun.pools[p].behind})
    BY <1>1 DEF PoolsVisited
  <2> QED
    BY <2>1, <2>2, <2>3
<1>5. CASE ~Succeed
  <2>1. outcome' = "error" /\ (masters' = masters \/ pc = "master")
    BY <1>5, EndSteps
  <2>2. CASE pc \in {"masters", "master"}
    <3>1. ASSUME NEW s \in Pools
          PROVE  Untouched(s)'
      <4>1. /\ Size(s)' = Was(s).size \/ (begun.u.redeploys /\ Size(s)' = AgentCount)
            /\ New(s)' # {} => Was(s).ahead
        BY <2>2, SetEnds
      <4>2. Size(s)' \in SizesDuringMasters(begun.u, AgentCount, begun.pools[s].size)
        BY <1>1, <1>2, <4>1 DEF SizesDuringMasters
      <4>3. Old(s)' # Instances(s)' => New(s)' # {}
        <5>1. instances'[s] \in [InstanceIDs -> {"none", "old", "new"}]
          BY DEF Inv, TypeOK, ScaleSetsTypeOK
        <5> QED
          BY <5>1 DEF Old, New, Instances, Present
      <4> QED
        BY <1>1, <1>2, <1>3, <4>1, <4>2, <4>3 DEF Untouched, SizeIn
    <3> QED
      BY <2>1, <3>1
  <2>3. CASE pc \notin {"masters", "master"}
    <3>1. Present(masters', {"new"}) = MasterIndices
      <4>1. masters' = masters /\ AllNew /\ masters \in [MasterIndices -> {"none", "old", "new"}]
        BY <2>1, <2>3 DEF Inv, TypeOK, MastersInv
      <4> QED
        BY <4>1 DEF Present, AllNew
    <3>2. ASSUME NEW s \in Pools
          PROVE  Interrupted(s)'
      <4>1. \/ Size(s)' = Settled(s)
            \/ Was(s).behind /\ Size(s)' \in Was(s).size .. Was(s).size + MaxPages
        BY <2>3, SetEnds
      <4>2. Size(s)' \in SizesInterrupted(begun.u, AgentCount, begun.pools[s].size, begun.pools[s].behind)
        BY <1>1, <1>2, <4>1 DEF SizesInterrupted, Settled
      <4> QED
        BY <1>1, <1>2, <1>3, <4>2 DEF Interrupted, SizeIn
    <3> QED
      BY <2>1, <3>1, <3>2
  <2> QED
    BY <2>2, <2>3
<1> QED
  BY <1>4, <1>5

-----------------------------------------------------------------------------
(* The theorem. *)

OutcomeInv == UpperInv /\ SeenInv /\ UpperVisit /\ BegunInv /\ GrowInv /\ PassedInv /\ RaisedAll

LEMMA OutcomeInit ==
  ASSUME Init
  PROVE  OutcomeInv
<1>1. pc = "idle"
  BY DEF Init
<1> QED
  BY <1>1, PoolInit DEF OutcomeInv, PoolInv, BegunInv, GrowInv, PassedInv, RaisedAll, Visiting, Swapping

LEMMA OutcomeKept ==
  ASSUME Inv, Inv', SetsInv, OutcomeInv, [Next]_vars
  PROVE  OutcomeInv'
<1> QED
  BY UpperKept, SeenKept, UpperVisitKept, BegunKept, GrowKept, PassedKept, RaisedKept DEF OutcomeInv, SetsInv

\* However many masters, pools and pages there are and whatever fails, an attempt leaves
\* pools that UpgradeOutcome has: upgradeAgentPools stops at a pool that is at hand, at the
\* first one without an old agent or after the last, upgradeAgentScaleSets at any page, and
\* neither before the masters are new.
THEOREM OutcomesAreComplete == Spec => OutcomesComplete
<1>1. ASSUME Inv, Inv', SetsInv, SetsInv', OutcomeInv, [Next]_vars
      PROVE  [(pc # "idle" /\ pc' = "idle" /\ faults' < MasterCount) =>
                IF outcome' = "ok"
                THEN \E visited \in PoolsVisited(begun.u, Pools, {p \in Pools : begun.pools[p].behind}) :
                       \A p \in Pools : IF p \in visited THEN Completed(p)' ELSE Untouched(p)'
                ELSE \/ \A p \in Pools : Untouched(p)'
                     \/ /\ Present(masters', {"new"}) = MasterIndices
                        /\ \A p \in Pools : (Untouched(p) \/ Interrupted(p) \/ Completed(p))']_vars
  <2>1. CASE ScaleSets = {}
    BY <1>1, <2>1, AgentsEnd DEF OutcomeInv, SetsInv
  <2>2. CASE ScaleSets # {}
    BY <1>1, <2>2, SetsEnd DEF OutcomeInv
  <2> QED
    BY <2>1, <2>2
<1> QED
  BY <1>1, Invariant, SetsInit, SetsKept, OutcomeInit, OutcomeKept, PTL DEF Spec, OutcomesComplete

=============================================================================
