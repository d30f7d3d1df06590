------------------------ MODULE ClusterUpgrade_proofs ------------------------
(***************************************************************************)
(* Proofs about ClusterUpgrade, for any numbers of masters, agents,        *)
(* failures, pages and pools: the types, what masters and agents failures  *)
(* can cost, and that no deployment names an agent that exists.            *)
(*                                                                         *)
(* The invariant says what the lists of an attempt have to do with the     *)
(* nodes: the masters (MastersInv), the VMs listed at the start and since  *)
(* then (ListInv), agentVMs and the agents of the pool at hand (VisitInv), *)
(* the counts and agentVMs (CountInv).  ChargeInv charges every agent that *)
(* runs no pods and is not being created to a failure.                     *)
(***************************************************************************)
EXTENDS ClusterUpgrade, FiniteSetTheorems, WellFoundedInduction, TLAPS

AllNew == \A i \in MasterIndices : masters[i] = "new"

\* upgradeMasterNodes keeps its lists true, and takes one master away at a time.
MastersInv ==
  /\ pc # "idle" <=> outcome = "working"
  /\ pc \in {"masters", "master"} =>
       /\ mastersTodo = Present(masters, {"old"})
       /\ mastersDone = Present(masters, {"new"})
  /\ pc = "masters" => mastersToCreate = Cardinality(Present(masters, {"none"}))
  /\ pc = "master" =>
       /\ index \in MasterIndices
       /\ masters[index] = "none"
       /\ mastersToCreate + 1 = Cardinality(Present(masters, {"none"}))
  /\ Cardinality(Present(masters, {"none"})) <= faults + 1
  /\ pc # "master" => Cardinality(Present(masters, {"none"})) <= faults
  /\ pc \notin {"idle", "masters", "master"} \/ outcome = "ok" => AllNew

Fresh    == {"Creating", "ready", "unready", "Failed"}
Visiting == {"purge", "fill", "filling", "swap", "replace", "swapping"}
Swapping == {"swap", "replace", "swapping"}

\* What may have become of an agent since it was listed, if the attempt has not
\* come to its pool yet.
Since(state) ==
  CASE state \in {"none", "old", "ready", "Failed"} -> {state}
    [] state \in {"leaving", "Deleting"}            -> {state, "none"}
    [] OTHER                                        -> Fresh

ListInv ==
  pc # "idle" =>
    /\ \A p \in poolsTodo : \A i \in Indices : vms[p][i] \in Since(seen[p][i])
    /\ \A p \in Pools : \A i \in Indices :
         seen[p][i] \in {"leaving", "Deleting"} => vms[p][i] # "old"

\* What agentVMs says of an agent, and what it is.
Known(i) ==
  LET vm == vms[pool][i] IN
  \/ /\ agentVMs[i] = "none"
     /\ \/ vm = "none"
        \/ pc = "purge" /\ seen[pool][i] = "Failed" /\ vm = "Failed"
        \/ pc = "filling" /\ i = index /\ vm \in Fresh
  \/ /\ agentVMs[i] = "notUpgraded"
     /\ \/ vm = "old"
        \/ vm \in {"leaving", "none"} /\ seen[pool][i] = "leaving"
        \/ pc = "replace" /\ i = index /\ vm = "none"
        \/ pc = "swapping" /\ i = index /\ vm \in Fresh
  \/ agentVMs[i] = "upgraded" /\ vm \in Fresh
  \/ agentVMs[i] = "ignored" /\ vm \in {"Deleting", "none"} /\ seen[pool][i] = "Deleting"

VisitInv ==
  pc \in Visiting =>
    /\ pool \notin poolsTodo
    /\ \A i \in Indices : Known(i)
    /\ pc = "purge" => \A i \in Indices : seen[pool][i] = "Failed" => agentVMs[i] = "none"
    /\ pc = "filling" =>
         index \in Indices /\ agentVMs[index] = "none" /\ vms[pool][index] \in Fresh
    /\ pc \in {"replace", "swapping"} => index \in Indices /\ agentVMs[index] = "notUpgraded"
    /\ pc = "replace" => vms[pool][index] = "none"
    /\ pc = "swapping" => vms[pool][index] \in Fresh

Up  == Present(agentVMs, {"upgraded"})
Not == Present(agentVMs, {"notUpgraded"})

\* There is an extra agent as long as one is left to replace.
CountInv ==
  /\ pc \in {"purge", "fill", "filling"} =>
       count = Cardinality(Up) /\ todo = Cardinality(Not)
  /\ pc = "filling" => count + todo < AgentsNeeded
  /\ pc \in Swapping =>
       /\ count + Cardinality(Not) = todo
       /\ Cardinality(Up) + Cardinality(Not) >= AgentCount
       /\ Not # {} => Cardinality(Up) + Cardinality(Not) > AgentCount

\* The agents on the list, or left by earlier attempts, that run no pods.
InProgress(p, i) == pc \in {"filling", "swapping"} /\ p = pool /\ i = index

Charge(p, i) ==
  \/ vms[p][i] \in {"leaving", "unready", "Failed", "Deleting"}
  \/ vms[p][i] = "Creating" /\ ~InProgress(p, i)
  \/ pc # "idle" /\ vms[p][i] = "none" /\ seen[p][i] \in {"leaving", "Deleting"}

Charged(p) == {i \in Indices : Charge(p, i)}

ChargeInv == \A p \in Pools : Cardinality(Charged(p)) <= faults

-----------------------------------------------------------------------------
(* Numbers and sets. *)

LEMMA Numbers ==
  /\ AgentCount \in Nat /\ AgentCount >= 1
  /\ MasterCount \in Nat /\ MasterCount >= 1
  /\ MaxFaults \in Nat
  /\ MaxPages \in Nat /\ MaxPages >= 1
<1> QED
  BY ScaleSetAssumption, CountsAssumption

LEMMA IndicesFinite ==
  /\ IsFiniteSet(Indices)
  /\ IsFiniteSet(MasterIndices)
  /\ Cardinality(MasterIndices) = MasterCount
<1>1. /\ IsFiniteSet(0 .. AgentCount + MaxFaults)
      /\ IsFiniteSet(0 .. MasterCount - 1)
      /\ Cardinality(0 .. MasterCount - 1) = MasterCount
  BY Numbers, FS_Interval
<1> QED
  BY <1>1 DEF Indices, MasterIndices

\* The indices with one of some values are finitely many.
LEMMA PresentFinite ==
  ASSUME NEW f, IsFiniteSet(DOMAIN f), NEW states
  PROVE  /\ IsFiniteSet(Present(f, states))
         /\ Cardinality(Present(f, states)) \in Nat
         /\ Cardinality(Present(f, states)) <= Cardinality(DOMAIN f)
<1>1. Present(f, states) \subseteq DOMAIN f
  BY DEF Present
<1> QED
  BY <1>1, FS_Subset, FS_CardinalityType

\* How they change when one index may get another value.
LEMMA PresentChanged ==
  ASSUME NEW f, NEW g, NEW i \in DOMAIN f, DOMAIN g = DOMAIN f,
         \A j \in DOMAIN f : j # i => g[j] = f[j],
         NEW states
  PROVE  /\ g[i] \in states => Present(g, states) = Present(f, states) \cup {i}
         /\ g[i] \notin states => Present(g, states) = Present(f, states) \ {i}
<1> QED
  BY DEF Present

LEMMA PresentCount ==
  ASSUME NEW f, NEW g, IsFiniteSet(DOMAIN f), NEW i \in DOMAIN f, DOMAIN g = DOMAIN f,
         \A j \in DOMAIN f : j # i => g[j] = f[j],
         NEW states
  PROVE  /\ Cardinality(Present(f, states)) \in Nat
         /\ g[i] \in states /\ f[i] \notin states =>
              Cardinality(Present(g, states)) = Cardinality(Present(f, states)) + 1
         /\ g[i] \notin states /\ f[i] \in states =>
              Cardinality(Present(g, states)) = Cardinality(Present(f, states)) - 1
         /\ (g[i] \in states <=> f[i] \in states) => Present(g, states) = Present(f, states)
<1>1. i \in Present(f, states) <=> f[i] \in states
  BY DEF Present
<1>2. IsFiniteSet(Present(f, states)) /\ Cardinality(Present(f, states)) \in Nat
  BY PresentFinite
<1>3. /\ g[i] \in states => Present(g, states) = Present(f, states) \cup {i}
      /\ g[i] \notin states => Present(g, states) = Present(f, states) \ {i}
  BY PresentChanged
<1>4. i \notin Present(f, states) =>
        Cardinality(Present(f, states) \cup {i}) = Cardinality(Present(f, states)) + 1
  BY <1>2, FS_AddElement
<1>5. i \in Present(f, states) =>
        Cardinality(Present(f, states) \ {i}) = Cardinality(Present(f, states)) - 1
  BY <1>2, FS_RemoveElement
<1>6. (g[i] \in states <=> f[i] \in states) => Present(g, states) = Present(f, states)
  BY <1>1, <1>3
<1> QED
  BY <1>1, <1>2, <1>3, <1>4, <1>5, <1>6

\* A set of numbers that is not empty has a least member: the set of those up to
\* it is the smallest one.
LEMMA LeastMember ==
  ASSUME NEW S \in SUBSET Nat, IsFiniteSet(S), S # {}
  PROVE  \E least \in S : \A x \in S : least <= x
<1> DEFINE upTo(x) == {y \in S : y <= x}
           T == {upTo(x) : x \in S}
<1>1. IsWellFoundedOn(StrictSubsetOrdering(S), SUBSET S)
  BY FS_StrictSubsetOrderingWellFounded, FS_FiniteSubsetsOfFinite
<1>2. T \subseteq SUBSET S /\ T # {}
  OBVIOUS
<1>3. \E t \in T : \A u \in T : ~(<<u, t>> \in StrictSubsetOrdering(S))
  <2> HIDE DEF T
  <2> QED
    BY <1>1, <1>2, WFMin
<1>4. PICK least \in S : \A x \in S : ~(<<upTo(x), upTo(least)>> \in StrictSubsetOrdering(S))
  BY <1>3
<1>5. ASSUME NEW x \in S, x < least
      PROVE  FALSE
  <2>1. S \subseteq Nat /\ least \in Nat /\ x \in Nat
    OBVIOUS
  <2>2. (\A y \in S : y <= x => y <= least) /\ ~(least <= x) /\ least <= least
    BY <1>5, <2>1
  <2>3. upTo(x) \subseteq upTo(least) /\ least \in upTo(least) /\ least \notin upTo(x)
    BY <2>2
  <2>4. <<upTo(x), upTo(least)>> \in StrictSubsetOrdering(S)
    BY <2>3 DEF StrictSubsetOrdering
  <2> QED
    BY <1>4, <2>4
<1> QED
  BY <1>5

LEMMA GreatestMember ==
  ASSUME NEW S \in SUBSET Nat, IsFiniteSet(S), S # {}
  PROVE  \E greatest \in S : \A x \in S : x <= greatest
<1> DEFINE from(x) == {y \in S : x <= y}
           T == {from(x) : x \in S}
<1>1. IsWellFoundedOn(StrictSubsetOrdering(S), SUBSET S)
  BY FS_StrictSubsetOrderingWellFounded, FS_FiniteSubsetsOfFinite
<1>2. T \subseteq SUBSET S /\ T # {}
  OBVIOUS
<1>3. \E t \in T : \A u \in T : ~(<<u, t>> \in StrictSubsetOrdering(S))
  <2> HIDE DEF T
  <2> QED
    BY <1>1, <1>2, WFMin
<1>4. PICK greatest \in S : \A x \in S : ~(<<from(x), from(greatest)>> \in StrictSubsetOrdering(S))
  BY <1>3
<1>5. ASSUME NEW x \in S, greatest < x
      PROVE  FALSE
  <2>1. S \subseteq Nat /\ greatest \in Nat /\ x \in Nat
    OBVIOUS
  <2>2. (\A y \in S : x <= y => greatest <= y) /\ ~(x <= greatest) /\ greatest <= greatest
    BY <1>5, <2>1
  <2>3. from(x) \subseteq from(greatest) /\ greatest \in from(greatest) /\ greatest \notin from(x)
    BY <2>2
  <2>4. <<from(x), from(greatest)>> \in StrictSubsetOrdering(S)
    BY <2>3 DEF StrictSubsetOrdering
  <2> QED
    BY <1>4, <2>4
<1> QED
  BY <1>5

\* findMissingMaster's loop finds an index.
LEMMA MissingMasterMissing ==
  ASSUME mastersDone # MasterIndices, mastersDone \subseteq MasterIndices
  PROVE  MissingMaster \in MasterIndices \ mastersDone
<1> DEFINE S == MasterIndices \ mastersDone
<1>1. MasterIndices \subseteq Nat
  BY Numbers DEF MasterIndices
<1>2. S \in SUBSET Nat /\ IsFiniteSet(S) /\ S # {}
  BY <1>1, IndicesFinite, FS_Subset
<1>3. \E i \in S : \A j \in S : i <= j
  <2> HIDE DEF S
  <2> QED
    BY <1>2, LeastMember
<1> QED
  BY <1>3 DEF MissingMaster

-----------------------------------------------------------------------------
(* The masters. *)

MastersStep ==
  \/ Start
  \/ \E i \in MasterIndices : DeleteMaster(i)
  \/ FindMissingMaster
  \/ CreateMaster
  \/ MastersUpgraded
  \/ MasterNotReady

\* All other steps leave the masters alone, and come after them if they do not end
\* the attempt.
LEMMA OtherSteps ==
  ASSUME TypeOK, [Next]_vars, ~MastersStep
  PROVE  /\ masters' = masters
         /\ faults' \in 0 .. MaxFaults /\ faults' >= faults
         /\ \/ UNCHANGED <<pc, outcome, index, mastersTodo, mastersDone, mastersToCreate>>
            \/ /\ pc # "idle" /\ pc' = "idle" /\ outcome' = "error"
               /\ pc \in {"masters", "master"} => faults' = faults + 1
            \/ /\ pc \notin {"idle", "masters", "master"} /\ pc' \notin {"masters", "master"}
               /\ outcome' = IF pc' = "idle" THEN "ok" ELSE outcome
<1> DEFINE Unmoved  == UNCHANGED <<pc, outcome, index, mastersTodo, mastersDone, mastersToCreate>>
           Ends     == /\ pc # "idle" /\ pc' = "idle" /\ outcome' = "error"
                       /\ pc \in {"masters", "master"} => faults' = faults + 1
           Proceeds == /\ pc \notin {"idle", "masters", "master"} /\ pc' \notin {"masters", "master"}
                       /\ outcome' = IF pc' = "idle" THEN "ok" ELSE outcome
           Result   == /\ masters' = masters /\ faults' \in 0 .. MaxFaults /\ faults' >= faults
                       /\ Unmoved \/ Ends \/ Proceeds
<1>1. faults \in 0 .. MaxFaults /\ MaxFaults \in Nat
  BY Numbers DEF TypeOK
<1>2. Fault => faults' \in 0 .. MaxFaults /\ faults' = faults + 1
  BY <1>1 DEF Fault
<1>3. CASE UpgradeScaleSets
  <2>1. masters' = masters
    BY <1>3 DEF UpgradeScaleSets
  <2>2. CASE (\E s \in Pools, n \in Pages : NextEntry(s, n)) \/ SetSku \/ ScaleSetsUpgraded
    BY <1>1, <2>1, <2>2 DEF NextEntry, SetSku, ScaleSetsUpgraded
  <2>3. ASSUME NEW i \in InstanceIDs, DeleteInstance(i) \/ InstanceNotFound(i)
        PROVE  Result
    <3>1. InstanceDone(i) => pc' \in {"scaleSets", "capacity"}
      BY DEF InstanceDone
    <3> QED
      BY <1>1, <2>1, <2>3, <3>1 DEF DeleteInstance, InstanceNotFound, ScaleSetsFail
  <2> QED
    BY <1>3, <2>2, <2>3 DEF UpgradeScaleSets, ScaleSetStep
<1>4. CASE \E p \in Pools : VisitPool(p)
  BY <1>1, <1>4 DEF VisitPool, azure
<1>5. CASE \E i \in Indices : DeleteFailedNode(i)
  BY <1>1, <1>5 DEF DeleteFailedNode, others, topology, stages, visit
<1>6. CASE FailedNodesDeleted \/ PoolFilled \/ AgentUpgraded \/ PoolUpgraded \/ PoolsUpgraded
  BY <1>1, <1>6 DEF FailedNodesDeleted, PoolFilled, AgentUpgraded, PoolUpgraded, PoolsUpgraded, azure
<1>7. CASE CreateMissingAgent \/ (\E i \in Indices : DeleteAgent(i)) \/ CreateAgent
  BY <1>1, <1>7 DEF CreateMissingAgent, DeleteAgent, CreateAgent, others
<1>8. CASE Succeed
  BY <1>1, <1>8 DEF Succeed, azure
<1>9. CASE (\E i \in Indices : AgentNotFound(i)) \/ AgentNotUpgraded
  BY <1>1, <1>9 DEF AgentNotFound, AgentNotUpgraded, Fail, ScaleSetsFail, azure
<1>10. CASE CallFails \/ (\E i \in Indices : DeletionFails(i))
  BY <1>1, <1>2, <1>10 DEF CallFails, DeletionFails, Fail, ScaleSetsFail, azure, others
<1>11. CASE InstanceFails
  BY <1>1, <1>2, <1>11 DEF InstanceFails, ScaleSetCallFails, ScaleSetsFail
<1>12. CASE AzureStep
  BY <1>1, <1>2, <1>12 DEF AzureStep, NodeComesUp, NodeDoesNot, NodeGone, others, topology, stages, visit
<1>13. CASE Upgraded \/ UNCHANGED vars
  BY <1>1, <1>13 DEF Upgraded, vars, azure, topology, stages, visit
<1> QED
  BY <1>3, <1>4, <1>5, <1>6, <1>7, <1>8, <1>9, <1>10, <1>11, <1>12, <1>13
     DEF Next, Advance, Failures, MastersStep

\* One master is deleted or created.
LEMMA OneMasterChanges ==
  ASSUME NEW f \in [MasterIndices -> {"none", "old", "new"}],
         NEW g \in [MasterIndices -> {"none", "old", "new"}],
         NEW i \in MasterIndices, \A j \in MasterIndices : j # i => g[j] = f[j]
  PROVE  \A v \in {"none", "old", "new"} :
           /\ Cardinality(Present(f, {v})) \in Nat
           /\ g[i] = v => Present(g, {v}) = Present(f, {v}) \cup {i}
           /\ g[i] # v => Present(g, {v}) = Present(f, {v}) \ {i}
           /\ g[i] = v /\ f[i] # v =>
                Cardinality(Present(g, {v})) = Cardinality(Present(f, {v})) + 1
           /\ g[i] # v /\ f[i] = v =>
                Cardinality(Present(g, {v})) = Cardinality(Present(f, {v})) - 1
<1> TAKE v \in {"none", "old", "new"}
<1>1. IsFiniteSet(DOMAIN f) /\ i \in DOMAIN f /\ DOMAIN g = DOMAIN f
  BY IndicesFinite
<1>2. \A j \in DOMAIN f : j # i => g[j] = f[j]
  OBVIOUS
<1>3. /\ g[i] \in {v} => Present(g, {v}) = Present(f, {v}) \cup {i}
      /\ g[i] \notin {v} => Present(g, {v}) = Present(f, {v}) \ {i}
  BY <1>1, <1>2, PresentChanged
<1>4. /\ Cardinality(Present(f, {v})) \in Nat
      /\ g[i] \in {v} /\ f[i] \notin {v} =>
           Cardinality(Present(g, {v})) = Cardinality(Present(f, {v})) + 1
      /\ g[i] \notin {v} /\ f[i] \in {v} =>
           Cardinality(Present(g, {v})) = Cardinality(Present(f, {v})) - 1
  BY <1>1, <1>2, PresentCount
<1> QED
  BY <1>3, <1>4

Changed(i, version) ==
  /\ masters' \in [MasterIndices -> {"none", "old", "new"}]
  /\ \A j \in MasterIndices : j # i => masters'[j] = masters[j]
  /\ masters'[i] = version

LEMMA MasterChanged ==
  ASSUME TypeOK, NEW i \in MasterIndices, NEW version \in {"none", "old", "new"},
         masters' = [masters EXCEPT ![i] = version]
  PROVE  Changed(i, version)
<1> QED
  BY DEF Changed, TypeOK

LEMMA MasterDeleted ==
  ASSUME TypeOK, NEW i \in MasterIndices, masters[i] = "old", Changed(i, "none")
  PROVE  /\ Present(masters', {"old"}) = Present(masters, {"old"}) \ {i}
         /\ Present(masters', {"new"}) = Present(masters, {"new"})
         /\ Cardinality(Present(masters, {"none"})) \in Nat
         /\ Cardinality(Present(masters', {"none"})) = Cardinality(Present(masters, {"none"})) + 1
         /\ masters'[i] = "none"
<1>1. masters \in [MasterIndices -> {"none", "old", "new"}]
  BY DEF TypeOK
<1>2. i \notin Present(masters, {"new"})
  BY DEF Present
<1>3. /\ Present(masters', {"old"}) = Present(masters, {"old"}) \ {i}
      /\ Present(masters', {"new"}) = Present(masters, {"new"}) \ {i}
      /\ Cardinality(Present(masters, {"none"})) \in Nat
      /\ Cardinality(Present(masters', {"none"})) = Cardinality(Present(masters, {"none"})) + 1
  BY <1>1, OneMasterChanges DEF Changed
<1> QED
  BY <1>2, <1>3 DEF Changed

LEMMA MasterCreated ==
  ASSUME TypeOK, NEW i \in MasterIndices, masters[i] = "none", Changed(i, "new")
  PROVE  /\ Present(masters', {"old"}) = Present(masters, {"old"})
         /\ Present(masters', {"new"}) = Present(masters, {"new"}) \cup {i}
         /\ Cardinality(Present(masters, {"none"})) \in Nat
         /\ Cardinality(Present(masters', {"none"})) = Cardinality(Present(masters, {"none"})) - 1
         /\ masters'[i] = "new"
<1>1. masters \in [MasterIndices -> {"none", "old", "new"}]
  BY DEF TypeOK
<1>2. i \notin Present(masters, {"old"})
  BY DEF Present
<1>3. /\ Present(masters', {"old"}) = Present(masters, {"old"}) \ {i}
      /\ Present(masters', {"new"}) = Present(masters, {"new"}) \cup {i}
      /\ Cardinality(Present(masters, {"none"})) \in Nat
      /\ Cardinality(Present(masters', {"none"})) = Cardinality(Present(masters, {"none"})) - 1
  BY <1>1, OneMasterChanges DEF Changed
<1> QED
  BY <1>2, <1>3 DEF Changed

LEMMA MastersStart ==
  ASSUME TypeOK, MastersInv, Start
  PROVE  MastersInv'
<1>1. /\ masters' = masters /\ faults' = faults /\ pc = "idle" /\ pc' = "masters"
      /\ outcome' = "working"
      /\ mastersTodo' = Present(masters, {"old"})
      /\ mastersDone' = Present(masters, {"new"})
      /\ mastersToCreate' = Cardinality(Present(masters, {"none"}))
  BY DEF Start, azure
<1> QED
  BY <1>1 DEF MastersInv

LEMMA MastersDelete ==
  ASSUME TypeOK, MastersInv, NEW i \in MasterIndices, DeleteMaster(i)
  PROVE  MastersInv'
<1>1. /\ pc = "masters" /\ pc' = "master" /\ i \in mastersTodo /\ index' = i
      /\ mastersTodo' = mastersTodo \ {i} /\ mastersDone' = mastersDone
      /\ mastersToCreate' = mastersToCreate /\ outcome' = outcome /\ faults' = faults
  BY DEF DeleteMaster
<1>2. Changed(i, "none")
  BY MasterChanged DEF DeleteMaster
<1>3. /\ mastersTodo = Present(masters, {"old"}) /\ mastersDone = Present(masters, {"new"})
      /\ mastersToCreate = Cardinality(Present(masters, {"none"}))
      /\ Cardinality(Present(masters, {"none"})) <= faults /\ outcome = "working"
  BY <1>1 DEF MastersInv
<1>4. masters[i] = "old" /\ faults \in Nat
  BY <1>1, <1>3, Numbers DEF Present, TypeOK
<1> QED
  BY <1>1, <1>2, <1>3, <1>4, MasterDeleted DEF MastersInv

LEMMA MastersMissing ==
  ASSUME TypeOK, MastersInv, FindMissingMaster
  PROVE  MastersInv'
<1>1. /\ pc = "masters" /\ pc' = "master" /\ mastersTodo = {} /\ mastersToCreate > 0
      /\ index' = MissingMaster /\ mastersToCreate' = mastersToCreate - 1
      /\ masters' = masters /\ mastersTodo' = mastersTodo /\ mastersDone' = mastersDone
      /\ outcome' = outcome /\ faults' = faults
  BY DEF FindMissingMaster, azure
<1>2. /\ masters \in [MasterIndices -> {"none", "old", "new"}]
      /\ IsFiniteSet(DOMAIN masters) /\ DOMAIN masters = MasterIndices
      /\ faults \in Nat
  BY IndicesFinite, Numbers DEF TypeOK
<1>3. Cardinality(Present(masters, {"none"})) \in Nat
  BY <1>2, PresentFinite
<1>4. Cardinality(Present(masters, {"none"})) # 0
  BY <1>1, <1>3 DEF MastersInv
<1>5. Present(masters, {"none"}) # {}
  BY <1>4, FS_EmptySet
<1>6. mastersDone # MasterIndices /\ mastersDone \subseteq MasterIndices
  BY <1>1, <1>2, <1>5 DEF MastersInv, Present
<1>7. MissingMaster \in MasterIndices \ mastersDone
  BY <1>6, MissingMasterMissing
<1>8. masters[MissingMaster] = "none"
  BY <1>1, <1>2, <1>7 DEF MastersInv, Present
<1> QED
  BY <1>1, <1>2, <1>3, <1>7, <1>8 DEF MastersInv

LEMMA MastersCreate ==
  ASSUME TypeOK, MastersInv, CreateMaster
  PROVE  MastersInv'
<1>1. /\ pc = "master" /\ pc' = "masters"
      /\ mastersTodo' = mastersTodo /\ mastersDone' = mastersDone \cup {index}
      /\ mastersToCreate' = mastersToCreate /\ outcome' = outcome /\ faults' = faults
  BY DEF CreateMaster
<1>2. /\ index \in MasterIndices /\ masters[index] = "none"
      /\ mastersTodo = Present(masters, {"old"}) /\ mastersDone = Present(masters, {"new"})
      /\ mastersToCreate + 1 = Cardinality(Present(masters, {"none"}))
      /\ Cardinality(Present(masters, {"none"})) <= faults + 1 /\ outcome = "working"
  BY <1>1 DEF MastersInv
<1>3. Changed(index, "new")
  BY <1>2, MasterChanged DEF CreateMaster
<1>4. faults \in Nat /\ mastersToCreate \in Nat
  BY Numbers DEF TypeOK
<1> QED
  BY <1>1, <1>2, <1>3, <1>4, MasterCreated DEF MastersInv

LEMMA MastersFinish ==
  ASSUME TypeOK, MastersInv, MastersUpgraded
  PROVE  MastersInv'
<1>1. /\ pc = "masters" /\ pc' = "scaleSets" /\ mastersTodo = {} /\ mastersToCreate = 0
      /\ masters' = masters /\ outcome' = outcome /\ faults' = faults
  BY DEF MastersUpgraded, azure
<1>2. /\ masters \in [MasterIndices -> {"none", "old", "new"}]
      /\ IsFiniteSet(DOMAIN masters) /\ DOMAIN masters = MasterIndices
  BY IndicesFinite DEF TypeOK
<1>3. Present(masters, {"none"}) = {} /\ Present(masters, {"old"}) = {}
  BY <1>1, <1>2, PresentFinite, FS_EmptySet DEF MastersInv
<1>4. AllNew
  BY <1>2, <1>3 DEF Present, AllNew
<1> QED
  BY <1>1, <1>4 DEF MastersInv, AllNew

LEMMA MastersNotReady ==
  ASSUME TypeOK, MastersInv, MasterNotReady
  PROVE  MastersInv'
<1>1. pc = "master" /\ pc' = "idle" /\ outcome' = "error" /\ faults' = faults + 1
  BY DEF MasterNotReady, Fail, ScaleSetsFail, Fault
<1>2. /\ index \in MasterIndices /\ masters[index] = "none"
      /\ Cardinality(Present(masters, {"none"})) <= faults + 1
  BY <1>1 DEF MastersInv
<1>3. masters' = masters \/ Changed(index, "new")
  BY <1>2, MasterChanged DEF MasterNotReady
<1>4. /\ masters \in [MasterIndices -> {"none", "old", "new"}]
      /\ IsFiniteSet(DOMAIN masters) /\ faults \in Nat
  BY Numbers, IndicesFinite DEF TypeOK
<1>5. Cardinality(Present(masters, {"none"})) \in Nat
  BY <1>4, PresentFinite
<1>6. /\ Cardinality(Present(masters', {"none"})) \in Int
      /\ Cardinality(Present(masters', {"none"})) <= faults + 1
  BY <1>2, <1>3, <1>4, <1>5, MasterCreated
<1> QED
  BY <1>1, <1>4, <1>6 DEF MastersInv

LEMMA MastersKept ==
  ASSUME TypeOK, MastersInv, [Next]_vars
  PROVE  MastersInv'
<1>1. CASE ~MastersStep
  <2>1. faults \in Nat /\ faults' \in Nat /\ faults' >= faults
    BY <1>1, OtherSteps, Numbers DEF TypeOK
  <2>2. /\ masters \in [MasterIndices -> {"none", "old", "new"}]
        /\ IsFiniteSet(DOMAIN masters)
    BY IndicesFinite DEF TypeOK
  <2>3. Cardinality(Present(masters, {"none"})) \in Nat /\ masters' = masters
    BY <1>1, <2>2, OtherSteps, PresentFinite
  <2>4. CASE UNCHANGED <<pc, outcome, index, mastersTodo, mastersDone, mastersToCreate>>
    BY <2>1, <2>3, <2>4 DEF MastersInv, AllNew
  <2>5. CASE /\ pc # "idle" /\ pc' = "idle" /\ outcome' = "error"
             /\ pc \in {"masters", "master"} => faults' = faults + 1
    BY <2>1, <2>3, <2>5 DEF MastersInv, AllNew
  <2>6. CASE /\ pc \notin {"idle", "masters", "master"} /\ pc' \notin {"masters", "master"}
             /\ outcome' = IF pc' = "idle" THEN "ok" ELSE outcome
    BY <2>1, <2>3, <2>6 DEF MastersInv, AllNew
  <2> QED
    BY <1>1, <2>4, <2>5, <2>6, OtherSteps
<1> QED
  BY <1>1, MastersStart, MastersDelete, MastersMissing, MastersCreate, MastersFinish,
     MastersNotReady DEF MastersStep

LEMMA MastersInit ==
  ASSUME Init
  PROVE  MastersInv
<1>1. /\ pc = "idle" /\ outcome = "none" /\ faults = 0
      /\ masters = [i \in MasterIndices |-> "old"]
  BY DEF Init
<1>2. Present(masters, {"none"}) = {}
  BY <1>1 DEF Present
<1> QED
  BY <1>1, <1>2, FS_EmptySet DEF MastersInv

-----------------------------------------------------------------------------
(* The steps that concern the agents. *)

\* One agent has another state.
Becomes(p, i, state) ==
  /\ vms' \in [Pools -> [Indices -> VMStates]]
  /\ vms'[p][i] = state
  /\ \A q \in Pools : \A j \in Indices : (q # p \/ j # i) => vms'[q][j] = vms[q][j]

LEMMA VMSet ==
  ASSUME TypeOK, NEW p \in Pools, NEW i \in Indices, NEW state \in VMStates,
         SetVM(p, i, state)
  PROVE  Becomes(p, i, state)
<1>1. vms \in [Pools -> [Indices -> VMStates]]
  BY DEF TypeOK
<1>2. vms' = [vms EXCEPT ![p][i] = state]
  BY DEF SetVM
<1> QED
  BY <1>1, <1>2 DEF Becomes

\* What Azure makes of an agent.
AzureMoves(p, i, state) ==
  /\ Becomes(p, i, state)
  /\ \/ vms[p][i] \in {"Creating", "unready"} /\ state = "ready" /\ faults' = faults
     \/ vms[p][i] = "Creating" /\ state \in {"unready", "Failed"} /\ faults' = faults + 1
     \/ vms[p][i] \in {"leaving", "Deleting"} /\ state = "none" /\ faults' = faults
  /\ UNCHANGED <<pc, seen, poolsTodo, pool, agentVMs, todo, count, index, outcome>>

LEMMA AzureMoving ==
  ASSUME TypeOK, AzureStep
  PROVE  \E p \in Pools : \E i \in Indices : \E state \in VMStates : AzureMoves(p, i, state)
<1>1. PICK p \in Pools : \E i \in Indices :
        NodeComesUp(p, i) \/ NodeDoesNot(p, i) \/ NodeGone(p, i)
  BY DEF AzureStep
<1>2. PICK i \in Indices : NodeComesUp(p, i) \/ NodeDoesNot(p, i) \/ NodeGone(p, i)
  BY <1>1
<1>3. {"ready", "unready", "Failed", "none"} \subseteq VMStates
  BY DEF VMStates, NewStates
<1>4. UNCHANGED <<pc, seen, poolsTodo, pool, agentVMs, todo, count, index, outcome>>
  BY <1>2 DEF NodeComesUp, NodeDoesNot, NodeGone, topology, listing, before, stages, visit
<1>5. CASE NodeComesUp(p, i)
  BY <1>3, <1>4, <1>5, VMSet DEF NodeComesUp, AzureMoves
<1>6. CASE NodeGone(p, i)
  BY <1>3, <1>4, <1>6, VMSet DEF NodeGone, AzureMoves
<1>7. CASE NodeDoesNot(p, i)
  <2>1. PICK state \in {"unready", "Failed"} : SetVM(p, i, state)
    BY <1>7 DEF NodeDoesNot
  <2>2. vms[p][i] = "Creating" /\ faults' = faults + 1
    BY <1>7 DEF NodeDoesNot, Fault
  <2> QED
    BY <1>3, <1>4, <2>1, <2>2, VMSet DEF AzureMoves
<1> QED
  BY <1>2, <1>5, <1>6, <1>7

\* The steps that start or continue the visit of a pool.
LEMMA VisitSteps ==
  ASSUME [Next]_vars, pc' \in Visiting
  PROVE  \/ \E p \in Pools : VisitPool(p)
         \/ \E i \in Indices : DeleteFailedNode(i)
         \/ FailedNodesDeleted
         \/ CreateMissingAgent
         \/ PoolFilled
         \/ \E i \in Indices : DeleteAgent(i)
         \/ CreateAgent
         \/ AgentUpgraded
         \/ AzureStep
         \/ UNCHANGED vars
<1>1. ~Start /\ ~(\E i \in MasterIndices : DeleteMaster(i)) /\ ~FindMissingMaster
      /\ ~CreateMaster /\ ~MastersUpgraded
  BY DEF Start, DeleteMaster, FindMissingMaster, CreateMaster, MastersUpgraded, Visiting
<1>2. ~UpgradeScaleSets
  <2>1. ASSUME NEW i \in InstanceIDs, InstanceDone(i)
        PROVE  pc' \in {"scaleSets", "capacity"}
    BY <2>1 DEF InstanceDone
  <2>2. ~(\E s \in Pools, n \in Pages : NextEntry(s, n)) /\ ~SetSku /\ ~ScaleSetsUpgraded
    BY DEF NextEntry, SetSku, ScaleSetsUpgraded, Visiting
  <2>3. ASSUME NEW i \in InstanceIDs, DeleteInstance(i) \/ InstanceNotFound(i)
        PROVE  FALSE
    BY <2>1, <2>3 DEF DeleteInstance, InstanceNotFound, ScaleSetsFail, Visiting
  <2> QED
    BY <2>2, <2>3 DEF UpgradeScaleSets, ScaleSetStep
<1>3. ~Fail /\ ~ScaleSetsFail
  BY DEF Fail, ScaleSetsFail, Visiting
<1>4. ~PoolUpgraded /\ ~PoolsUpgraded /\ ~Succeed /\ ~Upgraded
  BY DEF PoolUpgraded, PoolsUpgraded, Succeed, Upgraded, vars, Visiting
<1>5. ~(\E i \in Indices : AgentNotFound(i)) /\ ~AgentNotUpgraded /\ ~Failures
  BY <1>3 DEF AgentNotFound, AgentNotUpgraded, Failures, CallFails, MasterNotReady,
     InstanceFails, ScaleSetCallFails, DeletionFails
<1> QED
  BY <1>1, <1>2, <1>4, <1>5 DEF Next, Advance

-----------------------------------------------------------------------------
(* getAvailableIndex. *)

LEMMA UnionCount ==
  ASSUME NEW S, IsFiniteSet(S), NEW T, IsFiniteSet(T)
  PROVE  /\ IsFiniteSet(S \cup T)
         /\ Cardinality(S \cup T) \in Nat
         /\ Cardinality(S \cup T) <= Cardinality(S) + Cardinality(T)
         /\ S \cap T = {} => Cardinality(S \cup T) = Cardinality(S) + Cardinality(T)
<1>1. /\ IsFiniteSet(S \cup T)
      /\ Cardinality(S \cup T) = Cardinality(S) + Cardinality(T) - Cardinality(S \cap T)
  BY FS_Union
<1>2. IsFiniteSet(S \cap T)
  BY FS_Subset
<1>3. /\ Cardinality(S) \in Nat /\ Cardinality(T) \in Nat
      /\ Cardinality(S \cup T) \in Nat /\ Cardinality(S \cap T) \in Nat
  BY <1>1, <1>2, FS_CardinalityType
<1>4. S \cap T = {} => Cardinality(S \cap T) = 0
  BY FS_EmptySet
<1> QED
  BY <1>1, <1>3, <1>4

LEMMA AvailableIndexFree ==
  ASSUME UsedIndices \subseteq Indices, Cardinality(UsedIndices) <= AgentCount + MaxFaults
  PROVE  AvailableIndex \in Indices /\ AvailableIndex \notin UsedIndices
<1> DEFINE U == UsedIndices
           maxIndex == CHOOSE i \in U \cup {0} : \A j \in U : j <= i
           gaps == (0 .. maxIndex - 1) \ U
<1>1. Indices \subseteq Nat /\ U \in SUBSET Nat /\ IsFiniteSet(U) /\ Cardinality(U) \in Nat
  <2>1. Indices \subseteq Nat
    BY Numbers DEF Indices
  <2> QED
    BY <2>1, IndicesFinite, FS_Subset, FS_CardinalityType
<1>2. maxIndex \in U \cup {0} /\ \A j \in U : j <= maxIndex
  <2>1. \E i \in U \cup {0} : \A j \in U : j <= i
    <3> HIDE DEF U
    <3>1. CASE U = {}
      BY <3>1
    <3>2. CASE U # {}
      BY <1>1, <3>2, GreatestMember
    <3> QED
      BY <3>1, <3>2
  <2> QED
    BY <2>1
<1> HIDE DEF maxIndex, U
<1>3. maxIndex \in Nat /\ maxIndex <= AgentCount + MaxFaults
  <2>1. U \subseteq 0 .. AgentCount + MaxFaults
    BY DEF U, Indices
  <2> QED
    BY <1>2, <2>1, Numbers
<1>4. CASE gaps # {}
  <2>1. gaps \in SUBSET Nat /\ IsFiniteSet(gaps)
    <3>1. IsFiniteSet(0 .. maxIndex - 1) /\ 0 .. maxIndex - 1 \subseteq Nat
      BY <1>3, FS_Interval
    <3> QED
      BY <3>1, FS_Subset
  <2>2. \E i \in gaps : \A j \in gaps : i <= j
    <3> HIDE DEF gaps
    <3> QED
      BY <1>4, <2>1, LeastMember
  <2>3. AvailableIndex = CHOOSE i \in gaps : \A j \in gaps : i <= j
    BY <1>4 DEF AvailableIndex, maxIndex, U
  <2>4. AvailableIndex \in gaps
    <3> HIDE DEF gaps
    <3> QED
      BY <2>2, <2>3
  <2> QED
    BY <1>3, <2>4, Numbers DEF Indices, U
<1>5. CASE gaps = {}
  <2>1. AvailableIndex = maxIndex + 1
    BY <1>5 DEF AvailableIndex, maxIndex, U
  <2>2. maxIndex + 1 \notin U
    BY <1>2, <1>3
  <2>3. maxIndex + 1 <= AgentCount + MaxFaults
    <3>1. CASE U = {}
      BY <1>2, <3>1, Numbers
    <3>2. CASE U # {}
      <4>1. maxIndex \in U
        <5>1. PICK x \in U : TRUE
          BY <3>2
        <5>2. x \in Nat /\ x <= maxIndex
          BY <1>1, <1>2, <5>1
        <5>3. CASE maxIndex = 0
          BY <5>1, <5>2, <5>3
        <5> QED
          BY <1>2, <5>3
      <4>2. 0 .. maxIndex \subseteq U
        <5>1. \A x \in 0 .. maxIndex : x = maxIndex \/ x \in 0 .. maxIndex - 1
          BY <1>3
        <5> QED
          BY <1>5, <4>1, <5>1
      <4>3. Cardinality(0 .. maxIndex) = maxIndex + 1
        BY <1>3, FS_Interval
      <4>4. Cardinality(0 .. maxIndex) <= Cardinality(U)
        BY <1>1, <4>2, FS_Subset
      <4> QED
        BY <1>1, <1>3, <4>3, <4>4, Numbers DEF U
    <3> QED
      BY <3>1, <3>2
  <2> QED
    BY <1>3, <2>1, <2>2, <2>3, Numbers DEF Indices, U
<1> QED
  BY <1>4, <1>5

\* Agents counted by what agentVMs says.
LEMMA AgentsListed ==
  ASSUME TypeOK
  PROVE  /\ IsFiniteSet(Up) /\ IsFiniteSet(Not) /\ IsFiniteSet(UsedIndices)
         /\ Up \subseteq Indices /\ Not \subseteq Indices /\ UsedIndices \subseteq Indices
         /\ Up \cap Not = {}
         /\ Cardinality(Up) \in Nat /\ Cardinality(Not) \in Nat
         /\ Cardinality(Up \cup Not) = Cardinality(Up) + Cardinality(Not)
<1>1. DOMAIN agentVMs = Indices
  BY DEF TypeOK
<1>2. /\ IsFiniteSet(Up) /\ IsFiniteSet(Not) /\ IsFiniteSet(UsedIndices)
      /\ Cardinality(Up) \in Nat /\ Cardinality(Not) \in Nat
  BY <1>1, IndicesFinite, PresentFinite DEF Up, Not, UsedIndices
<1>3. Up \cap Not = {}
  BY DEF Up, Not, Present
<1> QED
  BY <1>1, <1>2, <1>3, UnionCount DEF Up, Not, UsedIndices, Present

LEMMA ChargedFinite ==
  ASSUME NEW p \in Pools
  PROVE  Charged(p) \subseteq Indices /\ IsFiniteSet(Charged(p)) /\ Cardinality(Charged(p)) \in Nat
<1>1. Charged(p) \subseteq Indices
  BY DEF Charged
<1> QED
  BY <1>1, IndicesFinite, FS_Subset, FS_CardinalityType

\* A new agent never gets the index of one that is on the list, and always gets one.
LEMMA NewIndex ==
  ASSUME TypeOK, VisitInv, CountInv, ChargeInv, CreateMissingAgent
  PROVE  /\ index' = AvailableIndex
         /\ index' \in Indices /\ agentVMs[index'] = "none" /\ vms[pool][index'] = "none"
<1> DEFINE Ign == Present(agentVMs, {"ignored"})
<1>1. pc = "fill" /\ count + todo < AgentsNeeded /\ index' = AvailableIndex
  BY DEF CreateMissingAgent
<1>2. pool \in Pools /\ agentVMs \in [Indices -> {"none", "upgraded", "notUpgraded", "ignored"}]
  BY DEF TypeOK
<1>3. Ign \subseteq Charged(pool)
  BY <1>1, <1>2 DEF VisitInv, Known, Charged, Charge, Present, Visiting
<1>4. IsFiniteSet(Ign) /\ Cardinality(Ign) \in Nat
  BY <1>2, IndicesFinite, PresentFinite
<1>5. Cardinality(Ign) <= MaxFaults
  <2>1. Cardinality(Ign) <= Cardinality(Charged(pool))
    BY <1>2, <1>3, ChargedFinite, FS_Subset
  <2>2. Cardinality(Charged(pool)) <= faults /\ faults \in 0 .. MaxFaults
    BY <1>2 DEF ChargeInv, TypeOK
  <2> QED
    BY <1>2, <1>4, <2>1, <2>2, ChargedFinite, Numbers
<1>6. UsedIndices = (Up \cup Not) \cup Ign
  BY DEF UsedIndices, Up, Not, Present
<1>7. IsFiniteSet(Up \cup Not)
  BY AgentsListed, UnionCount
<1>8. Cardinality(UsedIndices) <= Cardinality(Up \cup Not) + Cardinality(Ign)
  BY <1>4, <1>6, <1>7, UnionCount
<1>9. Cardinality(Up \cup Not) = count + todo
  BY <1>1, AgentsListed DEF CountInv
<1>10. count + todo <= AgentCount /\ count \in Nat /\ todo \in Nat
  BY <1>1, Numbers DEF AgentsNeeded, TypeOK
<1>11. Cardinality(UsedIndices) \in Nat
  BY AgentsListed, FS_CardinalityType
<1>12. AvailableIndex \in Indices /\ AvailableIndex \notin UsedIndices
  BY <1>4, <1>5, <1>8, <1>9, <1>10, <1>11, AgentsListed, AvailableIndexFree, Numbers
<1>13. agentVMs[AvailableIndex] = "none"
  BY <1>2, <1>12 DEF UsedIndices, Present
<1> QED
  BY <1>1, <1>12, <1>13 DEF VisitInv, Known, Visiting

-----------------------------------------------------------------------------
(* What the steps do that change an agent. *)

Listed == <<seen, poolsTodo, pool>>

LEMMA Purges ==
  ASSUME TypeOK, VisitInv, NEW i \in Indices, DeleteFailedNode(i)
  PROVE  /\ pc = "purge" /\ pool \in Pools /\ Becomes(pool, i, "none")
         /\ vms[pool][i] = "Failed" /\ agentVMs[i] = "none" /\ seen[pool][i] = "Failed"
         /\ UNCHANGED <<pc, Listed, agentVMs, todo, count, index, outcome, faults>>
<1>1. pc = "purge" /\ i \in FailedNodes /\ SetVM(pool, i, "none")
  BY DEF DeleteFailedNode
<1>2. UNCHANGED <<pc, Listed, agentVMs, todo, count, index, outcome, faults>>
  BY DEF DeleteFailedNode, topology, listing, before, stages, visit, Listed
<1>3. pool \in Pools /\ "none" \in VMStates
  BY DEF TypeOK, VMStates
<1>4. seen[pool][i] = "Failed" /\ vms[pool][i] # "none"
  BY <1>1 DEF FailedNodes, Agents, Present
<1>5. Known(i) /\ agentVMs[i] = "none"
  BY <1>1, <1>4 DEF VisitInv, Visiting
<1>6. vms[pool][i] = "Failed"
  BY <1>1, <1>4, <1>5 DEF Known
<1> QED
  BY <1>1, <1>2, <1>3, <1>4, <1>5, <1>6, VMSet

LEMMA Fills ==
  ASSUME TypeOK, VisitInv, CountInv, ChargeInv, CreateMissingAgent
  PROVE  /\ pc = "fill" /\ pc' = "filling" /\ pool \in Pools
         /\ index' \in Indices /\ agentVMs[index'] = "none" /\ vms[pool][index'] = "none"
         /\ Becomes(pool, index', "Creating")
         /\ count + todo < AgentsNeeded
         /\ UNCHANGED <<Listed, agentVMs, todo, count, outcome, faults>>
<1>1. /\ pc = "fill" /\ pc' = "filling" /\ SetVM(pool, index', "Creating")
      /\ count + todo < AgentsNeeded
      /\ UNCHANGED <<Listed, agentVMs, todo, count, outcome, faults>>
  BY DEF CreateMissingAgent, topology, listing, before, stages, Listed
<1>2. pool \in Pools /\ "Creating" \in VMStates
  BY DEF TypeOK, VMStates, NewStates
<1> QED
  BY <1>1, <1>2, NewIndex, VMSet

LEMMA Deletes ==
  ASSUME TypeOK, VisitInv, NEW i \in Indices, DeleteAgent(i)
  PROVE  /\ pc = "swap" /\ pool \in Pools /\ Becomes(pool, i, "none")
         /\ agentVMs[i] = "notUpgraded" /\ vms[pool][i] \in OldStates
         /\ UNCHANGED <<Listed, todo, outcome, faults>>
         /\ \/ /\ Replaced /\ pc' = "replace" /\ index' = i
               /\ UNCHANGED <<agentVMs, count>>
            \/ /\ ~Replaced /\ pc' = "swap" /\ index' = index /\ count' = count + 1
               /\ agentVMs' = [agentVMs EXCEPT ![i] = "none"]
<1>1. pc = "swap" /\ agentVMs[i] = "notUpgraded" /\ vms[pool][i] # "none" /\ SetVM(pool, i, "none")
  BY DEF DeleteAgent
<1>2. UNCHANGED <<Listed, todo, outcome, faults>>
  BY DEF DeleteAgent, topology, listing, before, stages, Listed
<1>3. \/ /\ Replaced /\ pc' = "replace" /\ index' = i
         /\ UNCHANGED <<agentVMs, count>>
      \/ /\ ~Replaced /\ pc' = "swap" /\ index' = index /\ count' = count + 1
         /\ agentVMs' = [agentVMs EXCEPT ![i] = "none"]
  BY <1>1 DEF DeleteAgent
<1>4. pool \in Pools /\ "none" \in VMStates
  BY DEF TypeOK, VMStates
<1>5. Known(i)
  BY <1>1 DEF VisitInv, Visiting
<1>6. vms[pool][i] \in OldStates
  BY <1>1, <1>5 DEF Known, OldStates
<1> QED
  BY <1>1, <1>2, <1>3, <1>4, <1>6, VMSet

LEMMA Replaces ==
  ASSUME TypeOK, VisitInv, CreateAgent
  PROVE  /\ pc = "replace" /\ pc' = "swapping" /\ pool \in Pools /\ index \in Indices
         /\ agentVMs[index] = "notUpgraded" /\ vms[pool][index] = "none"
         /\ Becomes(pool, index, "Creating")
         /\ UNCHANGED <<Listed, agentVMs, todo, count, index, outcome, faults>>
<1>1. /\ pc = "replace" /\ pc' = "swapping" /\ SetVM(pool, index, "Creating")
      /\ UNCHANGED <<Listed, agentVMs, todo, count, index, outcome, faults>>
  BY DEF CreateAgent, topology, listing, before, stages, visit, Listed
<1>2. pool \in Pools /\ "Creating" \in VMStates
  BY DEF TypeOK, VMStates, NewStates
<1>3. index \in Indices /\ agentVMs[index] = "notUpgraded" /\ vms[pool][index] = "none"
  BY <1>1 DEF VisitInv, Visiting
<1> QED
  BY <1>1, <1>2, <1>3, VMSet

LEMMA FailsToDelete ==
  ASSUME TypeOK, VisitInv, NEW i \in Indices, DeletionFails(i)
  PROVE  /\ pc' = "idle" /\ outcome' = "error" /\ faults' = faults + 1 /\ pool \in Pools
         /\ UNCHANGED <<Listed, agentVMs, todo, count, index>>
         /\ \E state \in {"none", "leaving", "Deleting"} : Becomes(pool, i, state)
         /\ \/ pc = "purge" /\ vms[pool][i] = "Failed"
            \/ pc = "swap" /\ agentVMs[i] = "notUpgraded" /\ vms[pool][i] \in OldStates
<1>1. /\ \/ pc = "purge" /\ i \in FailedNodes
         \/ pc = "swap" /\ agentVMs[i] = "notUpgraded" /\ vms[pool][i] # "none"
      /\ \E state \in {"none", "leaving", "Deleting"} : SetVM(pool, i, state)
  BY DEF DeletionFails
<1>2. /\ pc' = "idle" /\ outcome' = "error" /\ faults' = faults + 1
      /\ UNCHANGED <<Listed, agentVMs, todo, count, index>>
  BY DEF DeletionFails, Fault, Fail, ScaleSetsFail, before, stages, visit, Listed
<1>3. pool \in Pools /\ {"none", "leaving", "Deleting"} \subseteq VMStates
  BY DEF TypeOK, VMStates, OldStates, NewStates
<1>4. Known(i)
  BY <1>1 DEF VisitInv, Visiting
<1>5. i \in FailedNodes => seen[pool][i] = "Failed" /\ vms[pool][i] # "none"
  BY DEF FailedNodes, Agents, Present
<1>6. \/ pc = "purge" /\ vms[pool][i] = "Failed"
      \/ pc = "swap" /\ agentVMs[i] = "notUpgraded" /\ vms[pool][i] \in OldStates
  <2>1. CASE pc = "purge" /\ i \in FailedNodes
    <3>1. agentVMs[i] = "none"
      BY <1>5, <2>1 DEF VisitInv, Visiting
    <3> QED
      BY <1>4, <1>5, <2>1, <3>1 DEF Known
  <2>2. CASE pc = "swap" /\ agentVMs[i] = "notUpgraded" /\ vms[pool][i] # "none"
    BY <1>4, <2>2 DEF Known, OldStates
  <2> QED
    BY <1>1, <2>1, <2>2
<1> QED
  BY <1>1, <1>2, <1>3, <1>6, VMSet

\* No other step changes an agent.
LEMMA VMSteps ==
  ASSUME [Next]_vars, vms' # vms
  PROVE  \/ \E i \in Indices : DeleteFailedNode(i)
         \/ CreateMissingAgent
         \/ \E i \in Indices : DeleteAgent(i)
         \/ CreateAgent
         \/ \E i \in Indices : DeletionFails(i)
         \/ AzureStep
<1>1. ~Start /\ ~(\E i \in MasterIndices : DeleteMaster(i)) /\ ~FindMissingMaster
      /\ ~CreateMaster /\ ~MastersUpgraded /\ ~UpgradeScaleSets
  BY DEF Start, DeleteMaster, FindMissingMaster, CreateMaster, MastersUpgraded, UpgradeScaleSets,
     azure, agents
<1>2. ~(\E p \in Pools : VisitPool(p)) /\ ~FailedNodesDeleted /\ ~PoolFilled /\ ~AgentUpgraded
      /\ ~PoolUpgraded /\ ~PoolsUpgraded /\ ~Succeed
  BY DEF VisitPool, FailedNodesDeleted, PoolFilled, AgentUpgraded, PoolUpgraded, PoolsUpgraded,
     Succeed, azure, agents
<1>3. ~(\E i \in Indices : AgentNotFound(i)) /\ ~AgentNotUpgraded /\ ~CallFails /\ ~MasterNotReady
      /\ ~InstanceFails
  BY DEF AgentNotFound, AgentNotUpgraded, CallFails, MasterNotReady, InstanceFails, azure, agents
<1>4. ~Upgraded /\ ~UNCHANGED vars
  BY DEF Upgraded, vars, azure, agents
<1> QED
  BY <1>1, <1>2, <1>3, <1>4 DEF Next, Advance, Failures

\* As long as an attempt goes on, its list stays as it is.
LEMMA Continues ==
  ASSUME [Next]_vars, pc' # "idle", ~Start
  PROVE  pc # "idle" /\ seen' = seen /\ poolsTodo' \subseteq poolsTodo
<1>1. CASE (\E i \in MasterIndices : DeleteMaster(i)) \/ FindMissingMaster \/ CreateMaster \/ MastersUpgraded
  BY <1>1 DEF DeleteMaster, FindMissingMaster, CreateMaster, MastersUpgraded, topology, listing, before, stages
<1>2. CASE UpgradeScaleSets
  <2>1. seen' = seen /\ poolsTodo' = poolsTodo
    BY <1>2 DEF UpgradeScaleSets, before, stages
  <2>2. pc # "idle"
    BY <1>2 DEF UpgradeScaleSets, ScaleSetStep, NextEntry, SetSku, DeleteInstance, InstanceNotFound,
       ScaleSetsUpgraded
  <2> QED
    BY <2>1, <2>2
<1>3. CASE \E p \in Pools : VisitPool(p)
  BY <1>3 DEF VisitPool, listing, before
<1>4. CASE (\E i \in Indices : DeleteFailedNode(i)) \/ FailedNodesDeleted \/ CreateMissingAgent \/ PoolFilled
  BY <1>4 DEF DeleteFailedNode, FailedNodesDeleted, CreateMissingAgent, PoolFilled, topology, listing, before, stages
<1>5. CASE (\E i \in Indices : DeleteAgent(i)) \/ CreateAgent \/ AgentUpgraded
  BY <1>5 DEF DeleteAgent, CreateAgent, AgentUpgraded, topology, listing, before, stages
<1>6. CASE PoolUpgraded \/ PoolsUpgraded \/ Succeed
  BY <1>6 DEF PoolUpgraded, PoolsUpgraded, Succeed, topology, listing, before, stages
<1>7. CASE (\E i \in Indices : AgentNotFound(i)) \/ AgentNotUpgraded \/ Failures
  BY <1>7 DEF AgentNotFound, AgentNotUpgraded, Failures, CallFails, MasterNotReady, InstanceFails,
     ScaleSetCallFails, DeletionFails, Fail, ScaleSetsFail
<1>8. CASE AzureStep
  BY <1>8 DEF AzureStep, NodeComesUp, NodeDoesNot, NodeGone, topology, listing, before, stages
<1>9. CASE Upgraded \/ UNCHANGED vars
  BY <1>9 DEF Upgraded, vars, topology, listing, before, stages
<1> QED
  BY <1>1, <1>2, <1>3, <1>4, <1>5, <1>6, <1>7, <1>8, <1>9 DEF Next, Advance

-----------------------------------------------------------------------------
(* The list of an attempt and the agents. *)

LEMMA ListKept ==
  ASSUME TypeOK, ListInv, VisitInv, CountInv, ChargeInv, [Next]_vars
  PROVE  ListInv'
<1> SUFFICES ASSUME pc' # "idle"
             PROVE  /\ \A p \in poolsTodo' : \A i \in Indices : vms'[p][i] \in Since(seen'[p][i])
                    /\ \A p \in Pools : \A i \in Indices :
                         seen'[p][i] \in {"leaving", "Deleting"} => vms'[p][i] # "old"
  BY DEF ListInv
<1>1. /\ vms \in [Pools -> [Indices -> VMStates]]
      /\ poolsTodo \subseteq Pools /\ pool \in Pools
  BY DEF TypeOK
<1>2. CASE Start
  <2>1. vms' = vms /\ seen' = vms /\ poolsTodo' \subseteq Pools
    BY <1>2 DEF Start, azure, agents
  <2>2. \A state \in VMStates : state \in Since(state)
    BY DEF VMStates, OldStates, NewStates, Since, Fresh
  <2> QED
    BY <1>1, <2>1, <2>2
<1>3. CASE ~Start
  <2>1. pc # "idle" /\ seen' = seen /\ poolsTodo' \subseteq poolsTodo
    BY <1>3, Continues
  <2>2. /\ \A p \in poolsTodo : \A i \in Indices : vms[p][i] \in Since(seen[p][i])
        /\ \A p \in Pools : \A i \in Indices :
             seen[p][i] \in {"leaving", "Deleting"} => vms[p][i] # "old"
    BY <2>1 DEF ListInv
  <2>3. CASE vms' = vms
    BY <2>1, <2>2, <2>3
  <2>4. ASSUME NEW i \in Indices, NEW state \in {"none", "Creating"},
               pc \in Visiting, Becomes(pool, i, state)
        PROVE  ListInv'
    <3>1. pool \notin poolsTodo
      BY <2>4 DEF VisitInv
    <3> QED
      BY <1>1, <2>1, <2>2, <2>4, <3>1 DEF Becomes, ListInv
  <2>5. CASE (\E i \in Indices : DeleteFailedNode(i)) \/ CreateMissingAgent
             \/ (\E i \in Indices : DeleteAgent(i)) \/ CreateAgent
    <3>1. \E i \in Indices : \E state \in {"none", "Creating"} :
            pc \in Visiting /\ Becomes(pool, i, state)
      BY <2>5, Purges, Fills, Deletes, Replaces DEF Visiting
    <3> QED
      BY <2>4, <3>1 DEF ListInv
  <2>6. CASE \E i \in Indices : DeletionFails(i)
    BY <2>6, FailsToDelete
  <2>7. CASE AzureStep
    <3>1. PICK p \in Pools : \E i \in Indices : \E state \in VMStates : AzureMoves(p, i, state)
      BY <2>7, AzureMoving
    <3>2. PICK i \in Indices : \E state \in VMStates : AzureMoves(p, i, state)
      BY <3>1
    <3>3. PICK state \in VMStates : AzureMoves(p, i, state)
      BY <3>2
    <3>4. Becomes(p, i, state) /\ state # "old"
      BY <3>3 DEF AzureMoves
    <3>5. ASSUME NEW was, vms[p][i] \in Since(was)
          PROVE  state \in Since(was)
      BY <3>3, <3>5 DEF AzureMoves, Since, Fresh
    <3> QED
      BY <1>1, <2>1, <2>2, <3>4, <3>5 DEF Becomes
  <2> QED
    BY <2>3, <2>5, <2>6, <2>7, VMSteps
<1> QED
  BY <1>2, <1>3

-----------------------------------------------------------------------------
(* agentVMs and the agents. *)

LEMMA VisitStarts ==
  ASSUME TypeOK, ListInv, NEW p \in Pools, VisitPool(p)
  PROVE  VisitInv'
<1>1. /\ pc = "pools" /\ pc' = "purge" /\ p \in poolsTodo /\ pool' = p /\ poolsTodo' = poolsTodo \ {p}
      /\ agentVMs' = [i \in Indices |-> StatusOf(seen[p][i])]
      /\ vms' = vms /\ seen' = seen
  BY DEF VisitPool, azure, agents, listing, before
<1>2. ASSUME NEW i \in Indices
      PROVE  Known(i)' /\ (seen[p][i] = "Failed" => agentVMs'[i] = "none")
  <2>1. agentVMs'[i] = StatusOf(seen[p][i]) /\ vms'[pool'][i] = vms[p][i] /\ seen'[pool'][i] = seen[p][i]
    BY <1>1
  <2>2. vms[p][i] \in Since(seen[p][i]) /\ seen[p][i] \in VMStates
    BY <1>1 DEF ListInv, TypeOK
  <2> QED
    BY <1>1, <2>1, <2>2 DEF Known, StatusOf, Since, VMStates, OldStates, NewStates, Fresh
<1> QED
  BY <1>1, <1>2 DEF VisitInv

LEMMA VisitKept ==
  ASSUME TypeOK, ListInv, VisitInv, CountInv, ChargeInv, [Next]_vars
  PROVE  VisitInv'
<1> SUFFICES ASSUME pc' \in Visiting
             PROVE  VisitInv'
  BY DEF VisitInv
<1>1. /\ vms \in [Pools -> [Indices -> VMStates]]
      /\ poolsTodo \subseteq Pools /\ pool \in Pools
      /\ agentVMs \in [Indices -> {"none", "upgraded", "notUpgraded", "ignored"}]
  BY DEF TypeOK
<1>2. CASE \E p \in Pools : VisitPool(p)
  BY <1>2, VisitStarts
<1>3. ASSUME NEW i \in Indices, DeleteFailedNode(i)
      PROVE  VisitInv'
  BY <1>1, <1>3, Purges DEF VisitInv, Known, Becomes, Visiting, Listed
<1>4. CASE FailedNodesDeleted
  <2>1. /\ pc = "purge" /\ pc' = "fill" /\ FailedNodes = {}
        /\ UNCHANGED <<vms, Listed, agentVMs, index>>
    BY <1>4 DEF FailedNodesDeleted, azure, agents, topology, listing, before, stages, visit, Listed
  <2>2. \A i \in Indices : seen[pool][i] = "Failed" => vms[pool][i] # "Failed"
    BY <1>1, <2>1 DEF FailedNodes, Agents, Present, VMStates, NewStates, TypeOK
  <2> QED
    BY <2>1, <2>2 DEF VisitInv, Known, Visiting, Listed
<1>5. CASE CreateMissingAgent
  BY <1>1, <1>5, Fills DEF VisitInv, Known, Becomes, Visiting, Listed, Fresh
<1>6. CASE PoolFilled
  <2>1. /\ pc = "fill" /\ pc' \in {"save", "swap"}
        /\ UNCHANGED <<vms, Listed, agentVMs, index>>
    BY <1>6 DEF PoolFilled, azure, agents, topology, listing, before, stages, Listed
  <2> QED
    BY <2>1 DEF VisitInv, Known, Visiting, Listed
<1>7. ASSUME NEW i \in Indices, DeleteAgent(i)
      PROVE  VisitInv'
  <2>1. /\ pc = "swap" /\ Becomes(pool, i, "none") /\ agentVMs[i] = "notUpgraded"
        /\ UNCHANGED <<Listed, todo, outcome, faults>>
    BY <1>7, Deletes
  <2>2. CASE pc' = "replace" /\ index' = i /\ agentVMs' = agentVMs
    BY <1>1, <2>1, <2>2 DEF VisitInv, Known, Becomes, Visiting, Listed
  <2>3. CASE pc' = "swap" /\ index' = index /\ agentVMs' = [agentVMs EXCEPT ![i] = "none"]
    BY <1>1, <2>1, <2>3 DEF VisitInv, Known, Becomes, Visiting, Listed
  <2> QED
    BY <1>7, <2>2, <2>3, Deletes
<1>8. CASE CreateAgent
  BY <1>1, <1>8, Replaces DEF VisitInv, Known, Becomes, Visiting, Listed, Fresh
<1>9. CASE AgentUpgraded
  <2>1. /\ \/ pc = "filling" /\ pc' = "fill"
           \/ pc = "swapping" /\ pc' = "swap"
        /\ vms[pool][index] = "ready" /\ agentVMs' = [agentVMs EXCEPT ![index] = "upgraded"]
        /\ UNCHANGED <<vms, Listed, index>>
    BY <1>9 DEF AgentUpgraded, NodeValidated, azure, agents, topology, listing, before, stages, Listed
  <2> QED
    BY <1>1, <2>1 DEF VisitInv, Known, Visiting, Listed, Fresh
<1>10. CASE AzureStep
  <2>1. PICK p \in Pools : \E i \in Indices : \E state \in VMStates : AzureMoves(p, i, state)
    BY <1>10, AzureMoving
  <2>2. PICK i \in Indices : \E state \in VMStates : AzureMoves(p, i, state)
    BY <2>1
  <2>3. PICK state \in VMStates : AzureMoves(p, i, state)
    BY <2>2
  <2>4. pc' = pc /\ UNCHANGED <<Listed, agentVMs, index>> /\ pc \in Visiting
    BY <2>3 DEF AzureMoves, Listed
  <2>5. \A j \in Indices : \/ vms'[pool][j] = vms[pool][j]
                           \/ vms[pool][j] \in Fresh /\ vms'[pool][j] \in Fresh /\ vms[pool][j] # "Failed"
                           \/ vms[pool][j] \in {"leaving", "Deleting"} /\ vms'[pool][j] = "none"
    BY <1>1, <2>3 DEF AzureMoves, Becomes, Fresh
  <2>6. ASSUME NEW j \in Indices
        PROVE  Known(j)'
    BY <2>4, <2>5, <2>6 DEF VisitInv, Known, Listed, Fresh, Visiting
  <2>7. pool \notin poolsTodo /\ poolsTodo' = poolsTodo /\ pool' = pool
    BY <2>4 DEF VisitInv, Listed
  <2> QED
    BY <2>4, <2>5, <2>6, <2>7 DEF VisitInv, Listed, Fresh
<1>11. CASE UNCHANGED vars
  BY <1>11 DEF vars, azure, agents, topology, listing, before, stages, visit, VisitInv, Known
<1> QED
  BY <1>2, <1>3, <1>4, <1>5, <1>6, <1>7, <1>8, <1>9, <1>10, <1>11, VisitSteps

-----------------------------------------------------------------------------
(* The counts. *)

\* One entry of agentVMs has another value.
Turns(i, status) ==
  /\ agentVMs' \in [Indices -> {"none", "upgraded", "notUpgraded", "ignored"}]
  /\ agentVMs'[i] = status
  /\ \A j \in Indices : j # i => agentVMs'[j] = agentVMs[j]

LEMMA Turned ==
  ASSUME TypeOK, NEW i \in Indices, NEW status \in {"none", "upgraded", "notUpgraded", "ignored"},
         agentVMs' = [agentVMs EXCEPT ![i] = status]
  PROVE  Turns(i, status)
<1> QED
  BY DEF TypeOK, Turns

LEMMA TurnedCount ==
  ASSUME TypeOK, NEW i \in Indices, NEW status, Turns(i, status)
  PROVE  /\ Cardinality(Up) \in Nat /\ Cardinality(Not) \in Nat
         /\ status = "upgraded" /\ agentVMs[i] # "upgraded" =>
              Cardinality(Up') = Cardinality(Up) + 1
         /\ status # "upgraded" /\ agentVMs[i] # "upgraded" => Up' = Up
         /\ status # "notUpgraded" /\ agentVMs[i] = "notUpgraded" =>
              Cardinality(Not') = Cardinality(Not) - 1 /\ Not' = Not \ {i} /\ i \in Not
         /\ status # "notUpgraded" /\ agentVMs[i] # "notUpgraded" => Not' = Not
<1>1. /\ DOMAIN agentVMs = Indices /\ DOMAIN agentVMs' = Indices /\ agentVMs'[i] = status
      /\ IsFiniteSet(DOMAIN agentVMs) /\ i \in DOMAIN agentVMs
      /\ \A j \in DOMAIN agentVMs : j # i => agentVMs'[j] = agentVMs[j]
  BY IndicesFinite DEF TypeOK, Turns
<1>2. /\ Cardinality(Present(agentVMs, {"upgraded"})) \in Nat
      /\ agentVMs'[i] \in {"upgraded"} /\ agentVMs[i] \notin {"upgraded"} =>
           Cardinality(Present(agentVMs', {"upgraded"})) = Cardinality(Present(agentVMs, {"upgraded"})) + 1
      /\ (agentVMs'[i] \in {"upgraded"} <=> agentVMs[i] \in {"upgraded"}) =>
           Present(agentVMs', {"upgraded"}) = Present(agentVMs, {"upgraded"})
  BY <1>1, PresentCount
<1>3. /\ Cardinality(Present(agentVMs, {"notUpgraded"})) \in Nat
      /\ agentVMs'[i] \notin {"notUpgraded"} /\ agentVMs[i] \in {"notUpgraded"} =>
           Cardinality(Present(agentVMs', {"notUpgraded"})) = Cardinality(Present(agentVMs, {"notUpgraded"})) - 1
      /\ (agentVMs'[i] \in {"notUpgraded"} <=> agentVMs[i] \in {"notUpgraded"}) =>
           Present(agentVMs', {"notUpgraded"}) = Present(agentVMs, {"notUpgraded"})
  BY <1>1, PresentCount
<1>4. agentVMs'[i] \notin {"notUpgraded"} =>
        Present(agentVMs', {"notUpgraded"}) = Present(agentVMs, {"notUpgraded"}) \ {i}
  BY <1>1, PresentChanged
<1>5. agentVMs[i] = "notUpgraded" => i \in Present(agentVMs, {"notUpgraded"})
  BY <1>1 DEF Present
<1> QED
  BY <1>1, <1>2, <1>3, <1>4, <1>5 DEF Up, Not

LEMMA CountsStart ==
  ASSUME TypeOK, NEW p \in Pools, VisitPool(p)
  PROVE  CountInv'
<1>1. /\ pc' = "purge"
      /\ agentVMs' = [i \in Indices |-> StatusOf(seen[p][i])]
      /\ todo' = Cardinality(Present(seen[p], OldStates))
      /\ count' = Cardinality(Present(seen[p], {"Creating", "ready", "unready"}))
  BY DEF VisitPool
<1>2. seen[p] \in [Indices -> VMStates]
  BY DEF TypeOK
<1>3. \A i \in Indices : /\ agentVMs'[i] = "upgraded" <=> seen[p][i] \in {"Creating", "ready", "unready"}
                         /\ agentVMs'[i] = "notUpgraded" <=> seen[p][i] \in OldStates
  BY <1>1, <1>2 DEF StatusOf, OldStates
<1>4. DOMAIN agentVMs' = Indices
  BY <1>1
<1>5. /\ Up' = Present(seen[p], {"Creating", "ready", "unready"})
      /\ Not' = Present(seen[p], OldStates)
  BY <1>2, <1>3, <1>4 DEF Up, Not, Present
<1> QED
  BY <1>1, <1>5 DEF CountInv, Swapping

LEMMA CountKept ==
  ASSUME TypeOK, ListInv, VisitInv, CountInv, ChargeInv, [Next]_vars
  PROVE  CountInv'
<1> SUFFICES ASSUME pc' \in Visiting
             PROVE  CountInv'
  BY DEF CountInv, Visiting, Swapping
<1>1. count \in Nat /\ todo \in Nat /\ Cardinality(Up) \in Nat /\ Cardinality(Not) \in Nat
  BY AgentsListed DEF TypeOK
<1>2. CASE \E p \in Pools : VisitPool(p)
  BY <1>2, CountsStart
<1>3. ASSUME UNCHANGED <<agentVMs, count, todo>>
      PROVE  Up' = Up /\ Not' = Not /\ AgentsNeeded' = AgentsNeeded
  BY <1>3 DEF Up, Not, Present, AgentsNeeded
<1>4. CASE UNCHANGED <<pc, agentVMs, count, todo>>
  BY <1>3, <1>4 DEF CountInv
<1>5. CASE \E i \in Indices : DeleteFailedNode(i)
  BY <1>4, <1>5, Purges
<1>6. CASE FailedNodesDeleted
  <2>1. pc = "purge" /\ pc' = "fill" /\ UNCHANGED <<agentVMs, count, todo>>
    BY <1>6 DEF FailedNodesDeleted, visit
  <2> QED
    BY <1>3, <2>1 DEF CountInv, Swapping
<1>7. CASE CreateMissingAgent
  BY <1>3, <1>7, Fills DEF CountInv, Swapping
<1>8. CASE PoolFilled
  <2>1. /\ pc = "fill" /\ count + todo >= AgentsNeeded /\ todo # 0 /\ pc' = "swap"
        /\ count' = 0 /\ UNCHANGED <<agentVMs, todo>>
    BY <1>8 DEF PoolFilled, Visiting
  <2>2. Up' = Up /\ Not' = Not
    BY <2>1 DEF Up, Not
  <2>3. AgentsNeeded = AgentCount + 1
    BY <1>1, <2>1 DEF AgentsNeeded
  <2>4. count = Cardinality(Up) /\ todo = Cardinality(Not)
    BY <2>1 DEF CountInv
  <2> QED
    BY <1>1, <2>1, <2>2, <2>3, <2>4, Numbers DEF CountInv
<1>9. ASSUME NEW i \in Indices, DeleteAgent(i)
      PROVE  CountInv'
  <2>1. /\ pc = "swap" /\ agentVMs[i] = "notUpgraded" /\ todo' = todo
        /\ count + Cardinality(Not) = todo
        /\ Cardinality(Up) + Cardinality(Not) >= AgentCount
        /\ Not # {} => Cardinality(Up) + Cardinality(Not) > AgentCount
    BY <1>9, Deletes DEF CountInv, Swapping
  <2>2. CASE pc' = "replace" /\ UNCHANGED <<agentVMs, count>>
    BY <1>3, <2>1, <2>2 DEF CountInv, Swapping
  <2>3. CASE ~Replaced /\ pc' = "swap" /\ count' = count + 1 /\ Turns(i, "none")
    <3>1. /\ Up' = Up /\ i \in Not /\ Not' = Not \ {i}
          /\ Cardinality(Not') = Cardinality(Not) - 1
      BY <2>1, <2>3, TurnedCount
    <3>2. Cardinality(Not) <= 1
      BY <1>1, <2>1, <2>3 DEF Replaced
    <3>3. Cardinality(Not') = 0
      <4>1. Cardinality(Not) # 0
        BY <3>1, AgentsListed, FS_EmptySet
      <4> QED
        BY <1>1, <3>1, <3>2, <4>1
    <3>4. Not' = {}
      BY <3>1, <3>3, AgentsListed, FS_EmptySet, FS_Subset
    <3> QED
      BY <1>1, <2>1, <2>3, <3>1, <3>4, Numbers DEF CountInv
  <2> QED
    BY <1>9, <2>2, <2>3, Deletes, Turned
<1>10. CASE CreateAgent
  BY <1>3, <1>10, Replaces DEF CountInv, Swapping
<1>11. CASE AgentUpgraded
  <2>1. /\ count' = count + 1 /\ todo' = todo /\ AgentsNeeded' = AgentsNeeded
        /\ pc \in {"filling", "swapping"} /\ pc' = IF pc = "filling" THEN "fill" ELSE "swap"
    BY <1>11 DEF AgentUpgraded, AgentsNeeded
  <2>2. index \in Indices /\ agentVMs[index] = IF pc = "filling" THEN "none" ELSE "notUpgraded"
    BY <2>1 DEF VisitInv, Visiting
  <2>3. Turns(index, "upgraded")
    BY <1>11, <2>2, Turned DEF AgentUpgraded
  <2>4. Cardinality(Up') = Cardinality(Up) + 1
    BY <2>2, <2>3, TurnedCount
  <2>5. CASE pc = "filling"
    <3>1. Not' = Not
      BY <2>2, <2>3, <2>5, TurnedCount
    <3> QED
      BY <1>1, <2>1, <2>4, <2>5, <3>1 DEF CountInv, Swapping
  <2>6. CASE pc = "swapping"
    <3>1. /\ Cardinality(Not') = Cardinality(Not) - 1
          /\ Not' = Not \ {index} /\ index \in Not
      BY <2>2, <2>3, <2>6, TurnedCount
    <3>2. /\ count + Cardinality(Not) = todo
          /\ Cardinality(Up) + Cardinality(Not) > AgentCount
      BY <2>6, <3>1 DEF CountInv, Swapping
    <3> QED
      BY <1>1, <2>1, <2>4, <2>6, <3>1, <3>2, Numbers DEF CountInv
  <2> QED
    BY <2>1, <2>5, <2>6
<1>12. CASE AzureStep
  <2>1. UNCHANGED <<pc, agentVMs, count, todo>>
    BY <1>12, AzureMoving DEF AzureMoves
  <2> QED
    BY <1>4, <2>1
<1>13. CASE UNCHANGED vars
  BY <1>4, <1>13 DEF vars, visit
<1> QED
  BY <1>2, <1>5, <1>6, <1>7, <1>8, <1>9, <1>10, <1>11, <1>12, <1>13, VisitSteps

-----------------------------------------------------------------------------
(* The agents that failures have cost. *)

LEMMA FaultsGrow ==
  ASSUME TypeOK, [Next]_vars
  PROVE  faults' \in {faults, faults + 1} /\ faults' \in 0 .. MaxFaults
<1> SUFFICES faults' = faults \/ Fault
  BY Numbers DEF Fault, TypeOK
<1>1. CASE Start \/ (\E i \in MasterIndices : DeleteMaster(i)) \/ FindMissingMaster \/ CreateMaster
           \/ MastersUpgraded
  BY <1>1 DEF Start, DeleteMaster, FindMissingMaster, CreateMaster, MastersUpgraded
<1>2. CASE UpgradeScaleSets
  BY <1>2 DEF UpgradeScaleSets, ScaleSetStep, NextEntry, SetSku, DeleteInstance, InstanceNotFound,
     ScaleSetsUpgraded
<1>3. CASE (\E p \in Pools : VisitPool(p)) \/ (\E i \in Indices : DeleteFailedNode(i))
           \/ FailedNodesDeleted \/ CreateMissingAgent \/ PoolFilled
  BY <1>3 DEF VisitPool, DeleteFailedNode, FailedNodesDeleted, CreateMissingAgent, PoolFilled
<1>4. CASE (\E i \in Indices : DeleteAgent(i)) \/ CreateAgent \/ AgentUpgraded \/ PoolUpgraded
           \/ PoolsUpgraded \/ Succeed
  BY <1>4 DEF DeleteAgent, CreateAgent, AgentUpgraded, PoolUpgraded, PoolsUpgraded, Succeed
<1>5. CASE (\E i \in Indices : AgentNotFound(i)) \/ AgentNotUpgraded \/ Failures
  BY <1>5 DEF AgentNotFound, AgentNotUpgraded, Failures, CallFails, MasterNotReady, InstanceFails,
     ScaleSetCallFails, DeletionFails
<1>6. CASE AzureStep
  BY <1>6 DEF AzureStep, NodeComesUp, NodeDoesNot, NodeGone
<1>7. CASE Upgraded \/ UNCHANGED vars
  BY <1>7 DEF Upgraded, vars
<1> QED
  BY <1>1, <1>2, <1>3, <1>4, <1>5, <1>6, <1>7 DEF Next, Advance

LEMMA ChargeGrows ==
  ASSUME TypeOK, ChargeInv, [Next]_vars, NEW p \in Pools, NEW x \in Indices,
         \A i \in Indices : Charge(p, i)' => Charge(p, i) \/ (i = x /\ faults' = faults + 1)
  PROVE  Cardinality(Charged(p)') <= faults'
<1>1. /\ IsFiniteSet(Charged(p)) /\ Cardinality(Charged(p)) \in Nat
      /\ Cardinality(Charged(p)) <= faults /\ faults \in Nat /\ faults' >= faults
  BY ChargedFinite, FaultsGrow, Numbers DEF ChargeInv, TypeOK
<1>2. CASE faults' = faults + 1
  <2>1. Charged(p)' \subseteq Charged(p) \cup {x}
    BY DEF Charged
  <2>2. /\ IsFiniteSet(Charged(p) \cup {x})
        /\ Cardinality(Charged(p) \cup {x}) \in {Cardinality(Charged(p)), Cardinality(Charged(p)) + 1}
    BY <1>1, FS_AddElement
  <2>3. IsFiniteSet(Charged(p)') /\ Cardinality(Charged(p)') <= Cardinality(Charged(p) \cup {x})
    BY <2>1, <2>2, FS_Subset
  <2>4. Cardinality(Charged(p)') \in Nat
    BY <2>3, FS_CardinalityType
  <2> QED
    BY <1>1, <1>2, <2>2, <2>3, <2>4
<1>3. CASE faults' # faults + 1
  <2>1. Charged(p)' \subseteq Charged(p)
    BY <1>3 DEF Charged
  <2>2. IsFiniteSet(Charged(p)') /\ Cardinality(Charged(p)') <= Cardinality(Charged(p))
    BY <1>1, <2>1, FS_Subset
  <2>3. Cardinality(Charged(p)') \in Nat
    BY <2>2, FS_CardinalityType
  <2> QED
    BY <1>1, <2>2, <2>3, FaultsGrow
<1> QED
  BY <1>2, <1>3

\* An agent being created is waited for until it is there, or else the attempt fails.
LEMMA ProgressEnds ==
  ASSUME [Next]_vars, pc \in {"filling", "swapping"}, vms' = vms
  PROVE  \/ UNCHANGED <<pc, pool, index>>
         \/ vms[pool][index] \in {"ready", "unready", "Failed"}
         \/ faults' = faults + 1
<1>1. ~Start /\ ~(\E i \in MasterIndices : DeleteMaster(i)) /\ ~FindMissingMaster
      /\ ~CreateMaster /\ ~MastersUpgraded /\ ~UpgradeScaleSets
  BY DEF Start, DeleteMaster, FindMissingMaster, CreateMaster, MastersUpgraded, UpgradeScaleSets,
     ScaleSetStep, NextEntry, SetSku, DeleteInstance, InstanceNotFound, ScaleSetsUpgraded
<1>2. ~(\E p \in Pools : VisitPool(p)) /\ ~(\E i \in Indices : DeleteFailedNode(i))
      /\ ~FailedNodesDeleted /\ ~CreateMissingAgent /\ ~PoolFilled
  BY DEF VisitPool, DeleteFailedNode, FailedNodesDeleted, CreateMissingAgent, PoolFilled
<1>3. ~(\E i \in Indices : DeleteAgent(i)) /\ ~CreateAgent /\ ~PoolUpgraded /\ ~PoolsUpgraded
      /\ ~Succeed /\ ~(\E i \in Indices : AgentNotFound(i))
  BY DEF DeleteAgent, CreateAgent, PoolUpgraded, PoolsUpgraded, Succeed, AgentNotFound
<1>4. AgentUpgraded \/ AgentNotUpgraded => vms[pool][index] \in {"ready", "unready", "Failed"}
  BY DEF AgentUpgraded, AgentNotUpgraded, NodeValidated
<1>5. Failures => faults' = faults + 1
  BY DEF Failures, CallFails, MasterNotReady, InstanceFails, ScaleSetCallFails, DeletionFails, Fault
<1>6. AzureStep \/ Upgraded \/ UNCHANGED vars => UNCHANGED <<pc, pool, index>>
  BY DEF AzureStep, NodeComesUp, NodeDoesNot, NodeGone, Upgraded, vars, visit
<1> QED
  BY <1>1, <1>2, <1>3, <1>4, <1>5, <1>6 DEF Next, Advance

LEMMA ChargeElsewhere ==
  ASSUME NEW p \in Pools, NEW q \in Pools, NEW i \in Indices, NEW state, Becomes(q, i, state),
         NEW j \in Indices, p # q \/ j # i,
         seen' = seen, pc' # "idle" => pc # "idle", InProgress(p, j) => InProgress(p, j)',
         Charge(p, j)'
  PROVE  Charge(p, j)
<1>1. vms'[p][j] = vms[p][j]
  BY DEF Becomes
<1> QED
  BY <1>1 DEF Charge

LEMMA ChargeKept ==
  ASSUME TypeOK, ListInv, VisitInv, CountInv, ChargeInv, [Next]_vars
  PROVE  ChargeInv'
<1> SUFFICES ASSUME NEW p \in Pools
             PROVE  Cardinality(Charged(p)') <= faults'
  BY DEF ChargeInv
<1> DEFINE Grows(x) == \A j \in Indices : Charge(p, j)' => Charge(p, j) \/ (j = x /\ faults' = faults + 1)
<1> SUFFICES \E x \in Indices : Grows(x)
  BY ChargeGrows
<1>1. /\ vms \in [Pools -> [Indices -> VMStates]] /\ pool \in Pools
      /\ 0 \in Indices
  BY Numbers DEF TypeOK, Indices
<1>2. CASE vms' = vms
  <2>1. ASSUME NEW i \in Indices, Charge(p, i)', ~Charge(p, i)
        PROVE  i = index /\ faults' = faults + 1
    <3>1. vms[p][i] \notin {"leaving", "unready", "Failed", "Deleting"}
      BY <2>1 DEF Charge
    <3>2. ~(pc' # "idle" /\ vms[p][i] = "none" /\ seen'[p][i] \in {"leaving", "Deleting"})
      <4>1. CASE Start
        BY <4>1 DEF Start
      <4>2. CASE ~Start
        BY <2>1, <4>2, Continues DEF Charge
      <4> QED
        BY <4>1, <4>2
    <3>3. vms[p][i] = "Creating" /\ ~InProgress(p, i)' /\ InProgress(p, i)
      BY <1>2, <2>1, <3>1, <3>2 DEF Charge
    <3>4. pc \in {"filling", "swapping"} /\ p = pool /\ i = index
      BY <3>3 DEF InProgress
    <3> QED
      BY <1>2, <3>3, <3>4, ProgressEnds DEF InProgress
  <2>2. CASE index \in Indices
    <3>1. Grows(index)
      BY <2>1
    <3> QED
      BY <2>2, <3>1
  <2>3. CASE index \notin Indices
    <3>1. Grows(0)
      BY <2>1, <2>3
    <3> QED
      BY <1>1, <3>1
  <2> QED
    BY <2>2, <2>3
<1>3. ASSUME NEW i \in Indices, DeleteFailedNode(i)
      PROVE  Grows(i)
  <2>1. /\ pc = "purge" /\ pc' = "purge" /\ Becomes(pool, i, "none")
        /\ seen[pool][i] = "Failed" /\ seen' = seen
    BY <1>3, Purges DEF Listed
  <2> SUFFICES ASSUME NEW j \in Indices, Charge(p, j)'
               PROVE  Charge(p, j)
    BY DEF Charge, InProgress
  <2>2. CASE p # pool \/ j # i
    BY <1>1, <2>1, <2>2, ChargeElsewhere DEF InProgress
  <2>3. CASE p = pool /\ j = i
    BY <2>1, <2>3 DEF Becomes, Charge
  <2> QED
    BY <2>2, <2>3
<1>4. CASE CreateMissingAgent
  <2>1. /\ pc = "fill" /\ pc' = "filling" /\ index' \in Indices /\ pool' = pool /\ seen' = seen
        /\ Becomes(pool, index', "Creating")
    BY <1>4, Fills DEF Listed
  <2>2. ASSUME NEW j \in Indices, Charge(p, j)'
        PROVE  Charge(p, j)
    <3>1. CASE p # pool \/ j # index'
      BY <1>1, <2>1, <2>2, <3>1, ChargeElsewhere DEF InProgress
    <3>2. CASE p = pool /\ j = index'
      BY <2>1, <2>2, <3>2 DEF Becomes, Charge, InProgress
    <3> QED
      BY <3>1, <3>2
  <2>3. Grows(index')
    BY <2>2
  <2> QED
    BY <2>1, <2>3
<1>5. ASSUME NEW i \in Indices, DeleteAgent(i)
      PROVE  Grows(i)
  <2>1. /\ pc = "swap" /\ pc' \in {"swap", "replace"} /\ Becomes(pool, i, "none")
        /\ vms[pool][i] \in OldStates /\ pool' = pool /\ seen' = seen
    BY <1>5, Deletes DEF Listed
  <2>2. seen[pool][i] \in {"leaving", "Deleting"} => vms[pool][i] = "leaving"
    BY <1>1, <2>1 DEF ListInv, OldStates
  <2> SUFFICES ASSUME NEW j \in Indices, Charge(p, j)'
               PROVE  Charge(p, j)
    BY DEF Charge, InProgress
  <2>3. CASE p # pool \/ j # i
    BY <1>1, <2>1, <2>3, ChargeElsewhere DEF InProgress
  <2>4. CASE p = pool /\ j = i
    BY <2>1, <2>2, <2>4 DEF Becomes, Charge
  <2> QED
    BY <2>3, <2>4
<1>6. CASE CreateAgent
  <2>1. /\ pc = "replace" /\ pc' = "swapping" /\ index \in Indices /\ index' = index
        /\ pool' = pool /\ seen' = seen /\ Becomes(pool, index, "Creating")
    BY <1>6, Replaces DEF Listed
  <2>2. ASSUME NEW j \in Indices, Charge(p, j)'
        PROVE  Charge(p, j)
    <3>1. CASE p # pool \/ j # index
      BY <1>1, <2>1, <2>2, <3>1, ChargeElsewhere DEF InProgress
    <3>2. CASE p = pool /\ j = index
      BY <2>1, <2>2, <3>2 DEF Becomes, Charge, InProgress
    <3> QED
      BY <3>1, <3>2
  <2>3. Grows(index)
    BY <2>2
  <2> QED
    BY <2>1, <2>3
<1>7. ASSUME NEW i \in Indices, DeletionFails(i)
      PROVE  Grows(i)
  <2>1. PICK state \in {"none", "leaving", "Deleting"} : Becomes(pool, i, state)
    BY <1>7, FailsToDelete
  <2>2. pc \in {"purge", "swap"} /\ pc' = "idle" /\ faults' = faults + 1 /\ seen' = seen
    BY <1>7, FailsToDelete DEF Listed
  <2> SUFFICES ASSUME NEW j \in Indices, Charge(p, j)', p # pool \/ j # i
               PROVE  Charge(p, j)
    BY <2>2
  <2> QED
    BY <1>1, <2>1, <2>2, ChargeElsewhere DEF InProgress
<1>8. CASE AzureStep
  <2>1. PICK q \in Pools : \E i \in Indices : \E state \in VMStates : AzureMoves(q, i, state)
    BY <1>8, AzureMoving
  <2>2. PICK i \in Indices : \E state \in VMStates : AzureMoves(q, i, state)
    BY <2>1
  <2>3. PICK state \in VMStates : AzureMoves(q, i, state)
    BY <2>2
  <2>4. Becomes(q, i, state) /\ pc' = pc /\ seen' = seen /\ UNCHANGED <<pool, index>>
    BY <2>3 DEF AzureMoves
  <2>5. ASSUME NEW j \in Indices, Charge(p, j)'
        PROVE  Charge(p, j) \/ (j = i /\ faults' = faults + 1)
    <3>1. InProgress(p, j)' <=> InProgress(p, j)
      BY <2>4 DEF InProgress
    <3>2. CASE p # q \/ j # i
      BY <2>4, <2>5, <3>1, <3>2, ChargeElsewhere
    <3>3. CASE p = q /\ j = i
      <4>1. vms'[p][i] = state
        BY <2>4, <3>3 DEF Becomes
      <4> QED
        BY <2>3, <2>5, <3>3, <4>1 DEF AzureMoves, Charge
    <3> QED
      BY <3>2, <3>3
  <2>6. Grows(i)
    BY <2>5
  <2> QED
    BY <2>6
<1> QED
  BY <1>2, <1>3, <1>4, <1>5, <1>6, <1>7, <1>8, VMSteps

-----------------------------------------------------------------------------
(* Types. *)

LEMMA InstancesFinite ==
  ASSUME ScaleSetsTypeOK, NEW s \in Pools
  PROVE  IsFiniteSet(Instances(s)) /\ Instances(s) \subseteq InstanceIDs /\ Cardinality(Instances(s)) \in Nat
<1>1. IsFiniteSet(InstanceIDs)
  BY Numbers, FS_Interval DEF InstanceIDs
<1>2. Instances(s) \subseteq InstanceIDs
  BY DEF ScaleSetsTypeOK, Instances, Present
<1> QED
  BY <1>1, <1>2, FS_Subset, FS_CardinalityType

LEMMA ScaledTyped ==
  ASSUME ScaleSetsTypeOK, NEW s \in Pools, NEW capacity, NEW version \in {"old", "new"},
         NEW scaled \in Scaled(s, capacity, version)
  PROVE  scaled \in [InstanceIDs -> {"none", "old", "new"}]
<1>1. instances[s] \in [InstanceIDs -> {"none", "old", "new"}]
  BY DEF ScaleSetsTypeOK
<1> QED
  BY <1>1 DEF Scaled

LEMMA CapacityTyped ==
  ASSUME ScaleSetsTypeOK, NEW s \in Pools, NEW capacity, SetCapacity(s, capacity)
  PROVE  instances' \in [Pools -> [InstanceIDs -> {"none", "old", "new"}]]
<1>1. PICK scaled \in Scaled(s, capacity, model[s]) : instances' = [instances EXCEPT ![s] = scaled]
  BY DEF SetCapacity
<1>2. model[s] \in {"old", "new"}
  BY DEF ScaleSetsTypeOK
<1>3. scaled \in [InstanceIDs -> {"none", "old", "new"}]
  BY <1>2, ScaledTyped
<1> QED
  BY <1>1, <1>3 DEF ScaleSetsTypeOK

LEMMA DeployedTyped ==
  ASSUME ScaleSetsTypeOK, ScaleSetsDeployed
  PROVE  /\ instances' \in [Pools -> [InstanceIDs -> {"none", "old", "new"}]]
         /\ model' \in [Pools -> {"old", "new"}]
<1>1. model' \in [Pools -> {"old", "new"}]
  BY DEF ScaleSetsDeployed, ScaleSetsTypeOK
<1>2. /\ DOMAIN instances' = Pools
      /\ instances' = [s \in Pools |-> instances'[s]]
      /\ \A s \in Pools : instances'[s] \in Scaled(s, AgentCount, "new") \/ instances'[s] = instances[s]
  BY DEF ScaleSetsDeployed
<1>3. \A s \in Pools : instances'[s] \in [InstanceIDs -> {"none", "old", "new"}]
  BY <1>2, ScaledTyped DEF ScaleSetsTypeOK
<1> QED
  BY <1>1, <1>2, <1>3

LEMMA ListTyped ==
  ASSUME ScaleSetsTypeOK, ListScaleSets
  PROVE  sku' \in [Pools -> Nat] /\ listed' \in [Pools -> [Pages -> SUBSET InstanceIDs]]
<1>1. sku' \in [Pools -> Nat]
  BY InstancesFinite DEF ListScaleSets
<1>2. \A s \in Pools : Present(instances[s], {"old"}) \subseteq InstanceIDs
  BY DEF ScaleSetsTypeOK, Present
<1>3. UNION {SUBSET Present(instances[s], {"old"}) : s \in Pools} \subseteq SUBSET InstanceIDs
  BY <1>2
<1>4. listed' \in [Pools -> [Pages -> UNION {SUBSET Present(instances[s], {"old"}) : s \in Pools}]]
  BY DEF ListScaleSets
<1> QED
  BY <1>1, <1>3, <1>4

LEMMA DoneTyped ==
  ASSUME ScaleSetsTypeOK, NEW i, InstanceDone(i)
  PROVE  listed' \in [Pools -> [Pages -> SUBSET InstanceIDs]]
<1>1. entry[1] \in Pools /\ entry[2] \in Pages
  BY DEF ScaleSetsTypeOK
<1> QED
  BY <1>1 DEF ScaleSetsTypeOK, InstanceDone

LEMMA RemoveTyped ==
  ASSUME ScaleSetsTypeOK, NEW s, NEW i, Remove(s, i)
  PROVE  instances' \in [Pools -> [InstanceIDs -> {"none", "old", "new"}]]
<1> QED
  BY DEF ScaleSetsTypeOK, Remove

LEMMA FailTyped ==
  ASSUME ScaleSetsTypeOK, ScaleSetsFail
  PROVE  /\ sku' \in [Pools -> Nat]
         /\ listed' \in [Pools -> [Pages -> SUBSET InstanceIDs]]
         /\ entry' = entry
<1> QED
  BY DEF ScaleSetsFail, NothingListed

LEMMA ScaleSetsTyped ==
  ASSUME ScaleSetsTypeOK, [Next]_vars
  PROVE  ScaleSetsTypeOK'
<1>1. entry[1] \in Pools /\ entry[2] \in Pages
  BY DEF ScaleSetsTypeOK
<1>2. CASE UNCHANGED <<agents, entries>>
  BY <1>2 DEF agents, scaleSets, entries, ScaleSetsTypeOK, ScaleSets, InstanceIDs, Pages
<1>3. CASE UNCHANGED <<profile, scaleSets>> /\ (UNCHANGED entries \/ Fail)
  <2>1. UNCHANGED entries \/ ScaleSetsFail
    BY <1>3 DEF Fail
  <2> QED
    BY <1>3, <2>1, FailTyped DEF scaleSets, entries, ScaleSetsTypeOK, ScaleSets, InstanceIDs, Pages
<1>4. CASE Start
  BY <1>4, ListTyped DEF Start, ListScaleSets, azure, agents, scaleSets, ScaleSetsTypeOK, InstanceIDs, Pages
<1>5. CASE CreateMaster \/ MasterNotReady
  <2>1. /\ profile' = profile
        /\ ScaleSetsDeployed \/ UNCHANGED scaleSets
        /\ UNCHANGED entries \/ ScaleSetsFail
    BY <1>5 DEF CreateMaster, MasterNotReady, Fail, listing
  <2>2. /\ instances' \in [Pools -> [InstanceIDs -> {"none", "old", "new"}]]
        /\ model' \in [Pools -> {"old", "new"}]
    BY <2>1, DeployedTyped DEF scaleSets, ScaleSetsTypeOK
  <2> QED
    BY <2>1, <2>2, FailTyped DEF entries, ScaleSetsTypeOK, InstanceIDs, Pages
<1>6. CASE UpgradeScaleSets \/ InstanceFails
  <2>1. profile' = profile
    BY <1>6 DEF UpgradeScaleSets, InstanceFails
  <2>2. CASE \E s \in Pools, n \in Pages : NextEntry(s, n)
    <3>1. PICK s \in Pools, n \in Pages : NextEntry(s, n)
      BY <2>2
    <3>2. sku' \in [Pools -> Nat]
      BY <3>1 DEF NextEntry, NewCapacity, ScaleSetsTypeOK
    <3> QED
      BY <2>1, <3>1, <3>2 DEF NextEntry, scaleSets, ScaleSetsTypeOK, InstanceIDs, Pages
  <2>3. CASE SetSku
    BY <1>1, <2>1, <2>3, CapacityTyped DEF SetSku, entries, ScaleSetsTypeOK, InstanceIDs, Pages
  <2>4. ASSUME NEW i \in InstanceIDs, DeleteInstance(i)
        PROVE  ScaleSetsTypeOK'
    BY <2>1, <2>4, RemoveTyped, DoneTyped DEF DeleteInstance, ScaleSetsTypeOK, InstanceIDs, Pages
  <2>5. ASSUME NEW i \in InstanceIDs, InstanceNotFound(i)
        PROVE  ScaleSetsTypeOK'
    BY <2>1, <2>5, FailTyped, DoneTyped DEF InstanceNotFound, scaleSets, ScaleSetsTypeOK, InstanceIDs, Pages
  <2>6. CASE ScaleSetsUpgraded
    BY <2>1, <2>6 DEF ScaleSetsUpgraded, scaleSets, entries, ScaleSetsTypeOK, InstanceIDs, Pages
  <2>7. CASE InstanceFails
    <3>1. instances' \in [Pools -> [InstanceIDs -> {"none", "old", "new"}]]
      BY <1>1, <2>7, CapacityTyped, RemoveTyped DEF InstanceFails, ScaleSetCallFails
    <3> QED
      BY <2>1, <2>7, <3>1, FailTyped DEF InstanceFails, ScaleSetCallFails, ScaleSetsTypeOK, InstanceIDs, Pages
  <2> QED
    BY <1>6, <2>2, <2>3, <2>4, <2>5, <2>6, <2>7 DEF UpgradeScaleSets, ScaleSetStep
<1>7. CASE (\E i \in MasterIndices : DeleteMaster(i)) \/ FindMissingMaster \/ MastersUpgraded
  BY <1>2, <1>7 DEF DeleteMaster, FindMissingMaster, MastersUpgraded, azure, listing, topology
<1>8. CASE (\E p \in Pools : VisitPool(p)) \/ FailedNodesDeleted \/ PoolFilled \/ AgentUpgraded
           \/ PoolUpgraded \/ PoolsUpgraded \/ Succeed
  BY <1>2, <1>8 DEF VisitPool, FailedNodesDeleted, PoolFilled, AgentUpgraded, PoolUpgraded,
     PoolsUpgraded, Succeed, azure, topology, listing
<1>9. CASE (\E i \in Indices : DeleteFailedNode(i)) \/ CreateMissingAgent
           \/ (\E i \in Indices : DeleteAgent(i)) \/ CreateAgent
           \/ (\E i \in Indices : DeletionFails(i))
  BY <1>3, <1>9 DEF DeleteFailedNode, CreateMissingAgent, DeleteAgent, CreateAgent, DeletionFails,
     others, topology, listing
<1>10. CASE (\E i \in Indices : AgentNotFound(i)) \/ AgentNotUpgraded \/ CallFails
  BY <1>3, <1>10 DEF AgentNotFound, AgentNotUpgraded, CallFails, azure, agents
<1>11. CASE AzureStep
  BY <1>3, <1>11 DEF AzureStep, NodeComesUp, NodeDoesNot, NodeGone, others, topology, listing
<1>12. CASE Upgraded \/ UNCHANGED vars
  BY <1>2, <1>12 DEF Upgraded, vars, azure, topology, listing
<1> QED
  BY <1>4, <1>5, <1>6, <1>7, <1>8, <1>9, <1>10, <1>11, <1>12 DEF Next, Advance, Failures

LEMMA VMsTyped ==
  ASSUME TypeOK, VisitInv, CountInv, ChargeInv, [Next]_vars
  PROVE  vms' \in [Pools -> [Indices -> VMStates]]
<1>1. CASE vms' = vms
  BY <1>1 DEF TypeOK
<1>2. CASE (\E i \in Indices : DeleteFailedNode(i)) \/ CreateMissingAgent
           \/ (\E i \in Indices : DeleteAgent(i)) \/ CreateAgent
  BY <1>2, Purges, Fills, Deletes, Replaces DEF Becomes
<1>3. CASE \E i \in Indices : DeletionFails(i)
  BY <1>3, FailsToDelete DEF Becomes
<1>4. CASE AzureStep
  BY <1>4, AzureMoving DEF AzureMoves, Becomes
<1> QED
  BY <1>1, <1>2, <1>3, <1>4, VMSteps

LEMMA MastersTyped ==
  ASSUME TypeOK, MastersInv, [Next]_vars
  PROVE  /\ masters' \in [MasterIndices -> {"none", "old", "new"}]
         /\ mastersTodo' \subseteq MasterIndices
         /\ mastersDone' \subseteq MasterIndices
         /\ mastersToCreate' \in 0 .. MasterCount
<1> USE DEF TypeOK
<1>1. mastersToCreate \in 0 .. MasterCount /\ MasterCount \in Nat
  BY Numbers
<1>2. CASE Start
  <2>1. /\ Present(masters, {"old"}) \subseteq MasterIndices
        /\ Present(masters, {"new"}) \subseteq MasterIndices
    BY DEF Present
  <2>2. Cardinality(Present(masters, {"none"})) \in 0 .. MasterCount
    <3>1. IsFiniteSet(DOMAIN masters) /\ Cardinality(DOMAIN masters) = MasterCount
      BY IndicesFinite
    <3> QED
      BY <1>1, <3>1, PresentFinite
  <2> QED
    BY <1>2, <2>1, <2>2 DEF Start, azure
<1>3. CASE (\E i \in MasterIndices : DeleteMaster(i)) \/ MastersUpgraded
  BY <1>3 DEF DeleteMaster, MastersUpgraded, azure, topology, stages
<1>4. CASE FindMissingMaster
  BY <1>1, <1>4 DEF FindMissingMaster, azure
<1>5. CASE CreateMaster
  <2>1. index \in MasterIndices
    BY <1>5 DEF CreateMaster, MastersInv
  <2> QED
    BY <1>5, <2>1 DEF CreateMaster
<1>6. CASE MasterNotReady
  BY <1>6 DEF MasterNotReady, Fail, stages
<1>7. CASE ~MastersStep
  <2>1. masters' = masters
    BY <1>7, OtherSteps
  <2>2. UNCHANGED <<mastersTodo, mastersDone, mastersToCreate>>
    <3>1. CASE UpgradeScaleSets \/ InstanceFails
      BY <3>1 DEF UpgradeScaleSets, InstanceFails, stages
    <3>2. CASE (\E p \in Pools : VisitPool(p)) \/ (\E i \in Indices : DeleteFailedNode(i))
               \/ FailedNodesDeleted \/ CreateMissingAgent \/ PoolFilled
      BY <3>2 DEF VisitPool, DeleteFailedNode, FailedNodesDeleted, CreateMissingAgent, PoolFilled,
         topology, stages
    <3>3. CASE (\E i \in Indices : DeleteAgent(i)) \/ CreateAgent \/ AgentUpgraded \/ PoolUpgraded
               \/ PoolsUpgraded \/ Succeed
      BY <3>3 DEF DeleteAgent, CreateAgent, AgentUpgraded, PoolUpgraded, PoolsUpgraded, Succeed,
         topology, stages
    <3>4. CASE (\E i \in Indices : AgentNotFound(i)) \/ AgentNotUpgraded \/ CallFails
               \/ (\E i \in Indices : DeletionFails(i))
      BY <3>4 DEF AgentNotFound, AgentNotUpgraded, CallFails, DeletionFails, Fail, stages
    <3>5. CASE AzureStep \/ Upgraded \/ UNCHANGED vars
      BY <3>5 DEF AzureStep, NodeComesUp, NodeDoesNot, NodeGone, Upgraded, vars, topology, stages
    <3> QED
      BY <1>7, <3>1, <3>2, <3>3, <3>4, <3>5 DEF Next, Advance, Failures, MastersStep
  <2> QED
    BY <2>1, <2>2
<1> QED
  BY <1>2, <1>3, <1>4, <1>5, <1>6, <1>7 DEF MastersStep

LEMMA NowTyped ==
  ASSUME TypeOK
  PROVE  /\ Now.u \in [scaleSets : BOOLEAN, redeploys : BOOLEAN, pages : {MaxPages}]
         /\ Now.pools \in [Pools -> [size : Nat, behind : BOOLEAN, ahead : BOOLEAN, going : Nat]]
<1>1. ASSUME NEW p \in Pools
      PROVE  Cardinality(Machines(p)) \in Nat /\ Cardinality(Present(vms[p], {"leaving", "Failed"})) \in Nat
  <2>1. IsFiniteSet(DOMAIN vms[p])
    BY IndicesFinite DEF TypeOK
  <2>2. Cardinality(Present(vms[p], {"leaving", "Failed"})) \in Nat
    BY <2>1, PresentFinite
  <2>3. Cardinality(Present(vms[p], VMStates \ {"none", "Deleting"})) \in Nat
    BY <2>1, PresentFinite
  <2> QED
    BY <2>2, <2>3, InstancesFinite DEF Machines, TypeOK
<1> QED
  BY <1>1 DEF Now

LEMMA ListingTyped ==
  ASSUME TypeOK, [Next]_vars
  PROVE  /\ seen' \in [Pools -> [Indices -> VMStates]]
         /\ poolsTodo' \subseteq Pools
         /\ begun'.u \in [scaleSets : BOOLEAN, redeploys : BOOLEAN, pages : {MaxPages}]
         /\ begun'.pools \in [Pools -> [size : Nat, behind : BOOLEAN, ahead : BOOLEAN, going : Nat]]
<1>1. CASE Start
  BY <1>1, NowTyped DEF Start, TypeOK
<1>2. CASE seen' = seen /\ begun' = begun /\ poolsTodo' \subseteq poolsTodo
  BY <1>2 DEF TypeOK
<1>3. CASE (\E i \in MasterIndices : DeleteMaster(i)) \/ FindMissingMaster \/ CreateMaster \/ MastersUpgraded
  BY <1>2, <1>3 DEF DeleteMaster, FindMissingMaster, CreateMaster, MastersUpgraded, topology, listing,
     before, stages
<1>4. CASE UpgradeScaleSets \/ InstanceFails
  BY <1>2, <1>4 DEF UpgradeScaleSets, InstanceFails, before, stages
<1>5. CASE (\E p \in Pools : VisitPool(p)) \/ (\E i \in Indices : DeleteFailedNode(i))
           \/ FailedNodesDeleted \/ CreateMissingAgent \/ PoolFilled
  BY <1>2, <1>5 DEF VisitPool, DeleteFailedNode, FailedNodesDeleted, CreateMissingAgent, PoolFilled,
     topology, listing, before, stages
<1>6. CASE (\E i \in Indices : DeleteAgent(i)) \/ CreateAgent \/ AgentUpgraded \/ PoolUpgraded
           \/ PoolsUpgraded \/ Succeed
  BY <1>2, <1>6 DEF DeleteAgent, CreateAgent, AgentUpgraded, PoolUpgraded, PoolsUpgraded, Succeed,
     topology, listing, before, stages
<1>7. CASE (\E i \in Indices : AgentNotFound(i)) \/ AgentNotUpgraded \/ CallFails \/ MasterNotReady
           \/ (\E i \in Indices : DeletionFails(i))
  BY <1>2, <1>7 DEF AgentNotFound, AgentNotUpgraded, CallFails, MasterNotReady, DeletionFails, Fail,
     before, stages
<1>8. CASE AzureStep \/ Upgraded \/ UNCHANGED vars
  BY <1>2, <1>8 DEF AzureStep, NodeComesUp, NodeDoesNot, NodeGone, Upgraded, vars, topology, listing,
     before, stages
<1> QED
  BY <1>1, <1>3, <1>4, <1>5, <1>6, <1>7, <1>8 DEF Next, Advance, Failures

LEMMA VisitTyped ==
  ASSUME TypeOK, MastersInv, VisitInv, CountInv, ChargeInv, [Next]_vars
  PROVE  /\ pool' \in Pools
         /\ agentVMs' \in [Indices -> {"none", "upgraded", "notUpgraded", "ignored"}]
         /\ todo' \in Nat
         /\ count' \in Nat
         /\ index' \in MasterIndices \cup Indices
<1> USE DEF TypeOK
<1>1. CASE UNCHANGED visit
  BY <1>1 DEF visit
<1>2. CASE (\E i \in MasterIndices : DeleteMaster(i))
  BY <1>2 DEF DeleteMaster
<1>3. CASE FindMissingMaster
  <2>1. index' \in MasterIndices
    BY <1>3, MastersMissing DEF FindMissingMaster, MastersInv
  <2> QED
    BY <1>3, <2>1 DEF FindMissingMaster
<1>4. CASE Start \/ CreateMaster \/ MastersUpgraded \/ UpgradeScaleSets
  BY <1>1, <1>4 DEF Start, CreateMaster, MastersUpgraded, UpgradeScaleSets
<1>5. ASSUME NEW p \in Pools, VisitPool(p)
      PROVE  /\ pool' \in Pools
             /\ agentVMs' \in [Indices -> {"none", "upgraded", "notUpgraded", "ignored"}]
             /\ todo' \in Nat
             /\ count' \in Nat
             /\ index' \in MasterIndices \cup Indices
  <2>1. IsFiniteSet(DOMAIN seen[p])
    BY IndicesFinite
  <2>2. Cardinality(Present(seen[p], OldStates)) \in Nat
    BY <2>1, PresentFinite
  <2>3. Cardinality(Present(seen[p], {"Creating", "ready", "unready"})) \in Nat
    BY <2>1, PresentFinite
  <2>4. \A state : StatusOf(state) \in {"none", "upgraded", "notUpgraded", "ignored"}
    BY DEF StatusOf
  <2> QED
    BY <1>5, <2>2, <2>3, <2>4 DEF VisitPool
<1>6. CASE (\E i \in Indices : DeleteFailedNode(i)) \/ FailedNodesDeleted \/ CreateAgent
           \/ PoolUpgraded \/ PoolsUpgraded \/ Succeed
  BY <1>1, <1>6 DEF DeleteFailedNode, FailedNodesDeleted, CreateAgent, PoolUpgraded, PoolsUpgraded, Succeed
<1>7. CASE CreateMissingAgent
  BY <1>7, Fills DEF Listed
<1>8. CASE PoolFilled \/ AgentUpgraded
  BY <1>8 DEF PoolFilled, AgentUpgraded
<1>9. ASSUME NEW i \in Indices, DeleteAgent(i)
      PROVE  /\ pool' = pool /\ todo' = todo /\ count' \in {count, count + 1} /\ index' \in {index, i}
             /\ agentVMs' \in [Indices -> {"none", "upgraded", "notUpgraded", "ignored"}]
  BY <1>9 DEF DeleteAgent
<1>10. CASE (\E i \in Indices : AgentNotFound(i)) \/ AgentNotUpgraded \/ Failures
  BY <1>1, <1>10 DEF AgentNotFound, AgentNotUpgraded, Failures, CallFails, MasterNotReady, InstanceFails,
     DeletionFails, Fail
<1>11. CASE AzureStep \/ Upgraded \/ UNCHANGED vars
  BY <1>1, <1>11 DEF AzureStep, NodeComesUp, NodeDoesNot, NodeGone, Upgraded, vars
<1> QED
  BY <1>2, <1>3, <1>4, <1>5, <1>6, <1>7, <1>8, <1>9, <1>10, <1>11 DEF Next, Advance

LEMMA ControlTyped ==
  ASSUME TypeOK, [Next]_vars
  PROVE  /\ pc' \in {"idle", "masters", "master", "scaleSets", "capacity", "instance", "pools", "purge",
                     "fill", "filling", "swap", "replace", "swapping", "save"}
         /\ outcome' \in {"none", "working", "ok", "error"}
<1> USE DEF TypeOK
<1>1. CASE Start \/ (\E i \in MasterIndices : DeleteMaster(i)) \/ FindMissingMaster \/ CreateMaster
           \/ MastersUpgraded
  BY <1>1 DEF Start, DeleteMaster, FindMissingMaster, CreateMaster, MastersUpgraded
<1>2. CASE UpgradeScaleSets
  BY <1>2 DEF UpgradeScaleSets, ScaleSetStep, NextEntry, SetSku, DeleteInstance, InstanceNotFound,
     ScaleSetsUpgraded, InstanceDone, ScaleSetsFail
<1>3. CASE (\E p \in Pools : VisitPool(p)) \/ (\E i \in Indices : DeleteFailedNode(i))
           \/ FailedNodesDeleted \/ CreateMissingAgent \/ PoolFilled
  BY <1>3 DEF VisitPool, DeleteFailedNode, FailedNodesDeleted, CreateMissingAgent, PoolFilled
<1>4. CASE (\E i \in Indices : DeleteAgent(i)) \/ CreateAgent \/ AgentUpgraded \/ PoolUpgraded
           \/ PoolsUpgraded \/ Succeed
  BY <1>4 DEF DeleteAgent, CreateAgent, AgentUpgraded, PoolUpgraded, PoolsUpgraded, Succeed
<1>5. CASE (\E i \in Indices : AgentNotFound(i)) \/ AgentNotUpgraded \/ Failures
  BY <1>5 DEF AgentNotFound, AgentNotUpgraded, Failures, CallFails, MasterNotReady, InstanceFails,
     ScaleSetCallFails, DeletionFails, Fail, ScaleSetsFail
<1>6. CASE AzureStep \/ Upgraded \/ UNCHANGED vars
  BY <1>6 DEF AzureStep, NodeComesUp, NodeDoesNot, NodeGone, Upgraded, vars
<1> QED
  BY <1>1, <1>2, <1>3, <1>4, <1>5, <1>6 DEF Next, Advance

LEMMA TypeKept ==
  ASSUME TypeOK, MastersInv, VisitInv, CountInv, ChargeInv, [Next]_vars
  PROVE  TypeOK'
<1>1. ScaleSetsTypeOK'
  BY ScaleSetsTyped DEF TypeOK
<1>2. faults' \in 0 .. MaxFaults
  BY FaultsGrow
<1> QED
  BY <1>1, <1>2, VMsTyped, MastersTyped, ListingTyped, VisitTyped, ControlTyped DEF TypeOK, MasterIndices, Indices, VMStates,
     OldStates, NewStates

-----------------------------------------------------------------------------
(* The invariant. *)

Inv ==
  /\ TypeOK
  /\ MastersInv
  /\ ListInv
  /\ VisitInv
  /\ CountInv
  /\ ChargeInv

LEMMA InvInit ==
  ASSUME Init
  PROVE  Inv
<1>1. /\ 0 \in Indices /\ 0 \in MasterIndices /\ 0 .. AgentCount \subseteq Indices
      /\ 0 \in 0 .. MaxFaults /\ 0 \in 0 .. MasterCount /\ 1 \in Pages
  BY Numbers DEF Indices, MasterIndices, Pages
<1>2. vms \in [Pools -> [Indices -> {"old", "none"}]]
  BY DEF Init
<1>3. ScaleSetsTypeOK
  BY <1>1 DEF Init, ScaleSetsInit, ScaleSetsTypeOK, NothingListed
<1>4. /\ vms \in [Pools -> [Indices -> VMStates]] /\ pool \in Pools
      /\ masters \in [MasterIndices -> {"none", "old", "new"}]
  BY <1>2 DEF Init, VMStates, OldStates
<1>5. /\ pc = "idle" /\ seen = vms /\ outcome = "none" /\ faults = 0 /\ begun = Now
      /\ mastersTodo = {} /\ mastersDone = {} /\ mastersToCreate = 0 /\ poolsTodo = {}
      /\ agentVMs = [i \in Indices |-> "none"] /\ todo = 0 /\ count = 0 /\ index = 0
  BY DEF Init
<1>6. /\ Now.u \in [scaleSets : BOOLEAN, redeploys : BOOLEAN, pages : {MaxPages}]
      /\ Now.pools \in [Pools -> [size : Nat, behind : BOOLEAN, ahead : BOOLEAN, going : Nat]]
  <2>1. ASSUME NEW p \in Pools
        PROVE  /\ Cardinality(Machines(p)) \in Nat
               /\ Cardinality(Present(vms[p], {"leaving", "Failed"})) \in Nat
    <3>1. IsFiniteSet(DOMAIN vms[p])
      BY <1>4, IndicesFinite
    <3>2. Cardinality(Present(vms[p], {"leaving", "Failed"})) \in Nat
      BY <3>1, PresentFinite
    <3>3. Cardinality(Present(vms[p], VMStates \ {"none", "Deleting"})) \in Nat
      BY <3>1, PresentFinite
    <3> QED
      BY <1>3, <3>2, <3>3, InstancesFinite DEF Machines
  <2> QED
    BY <2>1 DEF Now
<1>7. TypeOK
  BY <1>1, <1>3, <1>4, <1>5, <1>6 DEF TypeOK
<1>8. ListInv /\ VisitInv /\ CountInv
  BY <1>5 DEF ListInv, VisitInv, CountInv, Visiting, Swapping
<1>9. ChargeInv
  <2> SUFFICES ASSUME NEW p \in Pools
               PROVE  Cardinality(Charged(p)) <= faults
    BY DEF ChargeInv
  <2>1. Charged(p) = {}
    BY <1>2, <1>5 DEF Charged, Charge
  <2> QED
    BY <1>5, <2>1, FS_EmptySet
<1> QED
  BY <1>7, <1>8, <1>9, MastersInit DEF Inv

LEMMA InvKept ==
  ASSUME Inv, [Next]_vars
  PROVE  Inv'
<1> QED
  BY TypeKept, MastersKept, ListKept, VisitKept, CountKept, ChargeKept DEF Inv

LEMMA Invariant ==
  Spec => []Inv
<1> QED
  BY InvInit, InvKept, PTL DEF Spec

\* Every variable keeps its type, whatever the number of masters, agents, failures
\* and pools: the index of a new node is one of the numbers the model has, because
\* no more nodes are on the list than the pool needs and failures have left.
THEOREM TypeCorrect == Spec => []TypeOK
<1>1. Inv => TypeOK
  BY DEF Inv
<1> QED
  BY <1>1, Invariant, PTL

\* upgradeMasterNodes takes one master away at a time, and an attempt creates the
\* one an earlier attempt left deleted before it ends without error.
THEOREM MastersCost == Spec => []OneMasterPerFailure
<1>1. Inv => OneMasterPerFailure
  BY DEF Inv, MastersInv, OneMasterPerFailure
<1> QED
  BY <1>1, Invariant, PTL

\* getAvailableIndex and the replacements never name an agent that exists.
THEOREM NeverReprovisions == Spec => CreatesOnlyMissing
<1>1. ASSUME Inv, [Next]_vars, NEW p \in Pools, NEW i \in Indices, vms'[p][i] = "Creating"
      PROVE  vms[p][i] \in {"none", "Creating"}
  <2>1. CASE vms' = vms
    BY <1>1, <2>1
  <2>2. ASSUME NEW j \in Indices, NEW state, Becomes(pool, j, state),
               state # "Creating" \/ vms[pool][j] = "none"
        PROVE  vms[p][i] \in {"none", "Creating"}
    BY <1>1, <2>2 DEF Becomes
  <2>3. CASE (\E j \in Indices : DeleteFailedNode(j)) \/ CreateMissingAgent
             \/ (\E j \in Indices : DeleteAgent(j)) \/ CreateAgent
    BY <1>1, <2>2, <2>3, Purges, Fills, Deletes, Replaces DEF Inv
  <2>4. CASE \E j \in Indices : DeletionFails(j)
    BY <1>1, <2>2, <2>4, FailsToDelete DEF Inv
  <2>5. CASE AzureStep
    <3>1. \E q \in Pools : \E j \in Indices : \E state \in VMStates :
            Becomes(q, j, state) /\ state # "Creating"
      BY <1>1, <2>5, AzureMoving DEF Inv, AzureMoves
    <3> QED
      BY <1>1, <3>1 DEF Becomes
  <2> QED
    BY <1>1, <2>1, <2>3, <2>4, <2>5, VMSteps
<1>2. ASSUME Inv, [Next]_vars
      PROVE  [\A p \in Pools, i \in Indices :
                vms'[p][i] = "Creating" => vms[p][i] \in {"none", "Creating"}]_vars
  BY <1>1, <1>2
<1> QED
  BY <1>2, Invariant, PTL DEF Spec, CreatesOnlyMissing

-----------------------------------------------------------------------------
(* Agents that can run pods. *)

Live(p) == Present(vms[p], {"old", "ready"})

LEMMA LiveFinite ==
  ASSUME TypeOK, NEW p \in Pools
  PROVE  IsFiniteSet(Live(p)) /\ Cardinality(Live(p)) \in Nat
<1>1. IsFiniteSet(DOMAIN vms[p])
  BY IndicesFinite DEF TypeOK
<1> QED
  BY <1>1, PresentFinite DEF Live

\* When an old agent is about to go, all that are on the list are live but for
\* those that failures have cost.
LEMMA EnoughLive ==
  ASSUME Inv, pc = "swap", Not # {}
  PROVE  Cardinality(Live(pool)) >= AgentCount + 1 - faults
<1>1. pool \in Pools /\ agentVMs \in [Indices -> {"none", "upgraded", "notUpgraded", "ignored"}]
      /\ faults \in Nat /\ vms \in [Pools -> [Indices -> VMStates]]
  BY Numbers DEF Inv, TypeOK
<1>2. Up \cup Not \subseteq Live(pool) \cup Charged(pool)
  <2> SUFFICES ASSUME NEW i \in Indices, agentVMs[i] \in {"upgraded", "notUpgraded"}
               PROVE  i \in Live(pool) \/ Charge(pool, i)
    BY <1>1 DEF Up, Not, Present, Charged
  <2>1. Known(i)
    BY DEF Inv, VisitInv, Visiting
  <2>2. vms[pool][i] \in {"old", "ready"} \/ Charge(pool, i)
    BY <2>1 DEF Known, Charge, InProgress, Fresh
  <2> QED
    BY <1>1, <2>2 DEF Live, Present
<1>3. Cardinality(Up \cup Not) >= AgentCount + 1 /\ Cardinality(Up \cup Not) \in Nat
  BY AgentsListed, Numbers DEF Inv, CountInv, Swapping
<1>4. /\ IsFiniteSet(Live(pool) \cup Charged(pool)) /\ Cardinality(Live(pool) \cup Charged(pool)) \in Nat
      /\ Cardinality(Live(pool) \cup Charged(pool)) <= Cardinality(Live(pool)) + Cardinality(Charged(pool))
  BY <1>1, LiveFinite, ChargedFinite, UnionCount DEF Inv
<1>5. Cardinality(Up \cup Not) <= Cardinality(Live(pool) \cup Charged(pool))
  BY <1>2, <1>4, FS_Subset
<1>6. Cardinality(Charged(pool)) <= faults /\ Cardinality(Charged(pool)) \in Nat /\ Cardinality(Live(pool)) \in Nat
  BY <1>1, LiveFinite, ChargedFinite DEF Inv, ChargeInv
<1> QED
  BY <1>1, <1>3, <1>4, <1>5, <1>6, Numbers

LEMMA LiveChanges ==
  ASSUME Inv, NEW p \in Pools, NEW q \in Pools, NEW i \in Indices, NEW state, Becomes(q, i, state)
  PROVE  /\ Cardinality(Live(p)') \in Nat
         /\ Cardinality(Live(p)') >= Cardinality(Live(p)) - 1
         /\ p # q => Live(p)' = Live(p)
         /\ state \in {"old", "ready"} \/ vms[q][i] \notin {"old", "ready"} =>
              Cardinality(Live(p)') >= Cardinality(Live(p))
<1>1. vms \in [Pools -> [Indices -> VMStates]] /\ vms' \in [Pools -> [Indices -> VMStates]]
  BY DEF Inv, TypeOK, Becomes
<1>2. IsFiniteSet(Live(p)) /\ Cardinality(Live(p)) \in Nat
  BY LiveFinite DEF Inv
<1>3. CASE p # q
  <2>1. \A j \in Indices : vms'[p][j] = vms[p][j]
    BY <1>3 DEF Becomes
  <2>2. Live(p)' = Live(p)
    BY <1>1, <2>1 DEF Live, Present
  <2> QED
    BY <1>2, <1>3, <2>2
<1>4. CASE p = q
  <2>1. /\ IsFiniteSet(DOMAIN vms[p]) /\ DOMAIN vms[p] = Indices /\ DOMAIN vms'[p] = Indices
        /\ \A j \in DOMAIN vms[p] : j # i => vms'[p][j] = vms[p][j]
        /\ vms'[p][i] = state
    BY <1>1, <1>4, IndicesFinite DEF Becomes
  <2>2. /\ state \in {"old", "ready"} /\ vms[p][i] \notin {"old", "ready"} =>
             Cardinality(Present(vms'[p], {"old", "ready"})) = Cardinality(Present(vms[p], {"old", "ready"})) + 1
        /\ state \notin {"old", "ready"} /\ vms[p][i] \in {"old", "ready"} =>
             Cardinality(Present(vms'[p], {"old", "ready"})) = Cardinality(Present(vms[p], {"old", "ready"})) - 1
        /\ (state \in {"old", "ready"} <=> vms[p][i] \in {"old", "ready"}) =>
             Present(vms'[p], {"old", "ready"}) = Present(vms[p], {"old", "ready"})
    BY <2>1, PresentCount
  <2>3. IsFiniteSet(DOMAIN vms'[p])
    BY <2>1
  <2>4. Cardinality(Present(vms'[p], {"old", "ready"})) \in Nat
    BY <2>3, PresentFinite
  <2> QED
    BY <1>2, <1>4, <2>2, <2>4 DEF Live
<1> QED
  BY <1>3, <1>4

LEMMA ProfileKept ==
  ASSUME [Next]_vars
  PROVE  profile' = profile /\ ScaleSets' = ScaleSets
<1>1. profile' = profile
  <2>1. CASE Start \/ (\E i \in MasterIndices : DeleteMaster(i)) \/ FindMissingMaster \/ CreateMaster
             \/ MastersUpgraded \/ UpgradeScaleSets
    BY <2>1 DEF Start, DeleteMaster, FindMissingMaster, CreateMaster, MastersUpgraded,
       UpgradeScaleSets, azure, agents
  <2>2. CASE (\E p \in Pools : VisitPool(p)) \/ FailedNodesDeleted \/ PoolFilled \/ AgentUpgraded
             \/ PoolUpgraded \/ PoolsUpgraded \/ Succeed \/ (\E i \in Indices : AgentNotFound(i))
             \/ AgentNotUpgraded
    BY <2>2 DEF VisitPool, FailedNodesDeleted, PoolFilled, AgentUpgraded, PoolUpgraded, PoolsUpgraded,
       Succeed, AgentNotFound, AgentNotUpgraded, azure, agents
  <2>3. CASE (\E i \in Indices : DeleteFailedNode(i)) \/ CreateMissingAgent
             \/ (\E i \in Indices : DeleteAgent(i)) \/ CreateAgent
    BY <2>3 DEF DeleteFailedNode, CreateMissingAgent, DeleteAgent, CreateAgent, others
  <2>4. CASE Failures \/ AzureStep
    BY <2>4 DEF Failures, CallFails, MasterNotReady, InstanceFails, DeletionFails, AzureStep, NodeComesUp,
       NodeDoesNot, NodeGone, azure, agents, others
  <2>5. CASE Upgraded \/ UNCHANGED vars
    BY <2>5 DEF Upgraded, vars, azure, agents
  <2> QED
    BY <2>1, <2>2, <2>3, <2>4, <2>5 DEF Next, Advance
<1> QED
  BY <1>1 DEF ScaleSets

LEMMA LiveKept ==
  ASSUME Inv, OneAgentPerFailure, [Next]_vars
  PROVE  OneAgentPerFailure'
<1>1. faults \in Nat /\ faults' \in Nat /\ faults' >= faults
  BY FaultsGrow, Numbers DEF Inv, TypeOK
<1>2. ScaleSets' = ScaleSets
  BY ProfileKept
<1> SUFFICES ASSUME NEW p \in Pools, Cardinality(Live(p)) >= AgentCount - faults
             PROVE  Cardinality(Live(p)') >= AgentCount - faults'
  BY <1>2 DEF OneAgentPerFailure, Live
<1>3. Cardinality(Live(p)) \in Nat /\ AgentCount \in Nat /\ pool \in Pools
  BY LiveFinite, Numbers DEF Inv, TypeOK
<1>4. CASE vms' = vms
  BY <1>1, <1>3, <1>4 DEF Live
<1>5. ASSUME NEW q \in Pools, NEW i \in Indices, NEW state, Becomes(q, i, state),
             state \in {"old", "ready"} \/ vms[q][i] \notin {"old", "ready"} \/ faults' = faults + 1
      PROVE  Cardinality(Live(p)') >= AgentCount - faults'
  BY <1>1, <1>3, <1>5, LiveChanges
<1>6. CASE (\E i \in Indices : DeleteFailedNode(i)) \/ CreateMissingAgent \/ CreateAgent
  BY <1>3, <1>5, <1>6, Purges, Fills, Replaces DEF Inv
<1>7. ASSUME NEW i \in Indices, DeleteAgent(i)
      PROVE  Cardinality(Live(p)') >= AgentCount - faults'
  <2>1. pc = "swap" /\ Becomes(pool, i, "none") /\ agentVMs[i] = "notUpgraded"
    BY <1>7, Deletes DEF Inv
  <2>2. i \in Not
    BY <2>1 DEF Not, Present, Inv, TypeOK
  <2>3. Cardinality(Live(pool)) >= AgentCount + 1 - faults
    BY <2>1, <2>2, EnoughLive
  <2> QED
    BY <1>1, <1>3, <2>1, <2>3, LiveChanges
<1>8. CASE \E i \in Indices : DeletionFails(i)
  BY <1>3, <1>5, <1>8, FailsToDelete DEF Inv
<1>9. CASE AzureStep
  <2>1. \E q \in Pools : \E i \in Indices : \E state \in VMStates :
          Becomes(q, i, state) /\ (state \in {"old", "ready"} \/ vms[q][i] \notin {"old", "ready"})
    BY <1>9, AzureMoving DEF Inv, AzureMoves
  <2> QED
    BY <1>5, <2>1
<1> QED
  BY <1>4, <1>6, <1>7, <1>8, <1>9, VMSteps

LEMMA LiveInit ==
  ASSUME Init
  PROVE  OneAgentPerFailure
<1> SUFFICES ASSUME NEW p \in Pools \ ScaleSets
             PROVE  Cardinality(Live(p)) >= AgentCount - faults
  BY DEF OneAgentPerFailure, Live
<1>1. PICK used \in [Pools -> SUBSET (0 .. AgentCount)] :
        /\ Cardinality(used[p]) \in AgentCount .. AgentCount + 1
        /\ vms[p] = [i \in Indices |-> IF i \in used[p] THEN "old" ELSE "none"]
  BY DEF Init
<1>2. 0 .. AgentCount \subseteq Indices
  BY Numbers DEF Indices
<1>3. Live(p) = used[p]
  BY <1>1, <1>2 DEF Live, Present
<1>4. faults = 0
  BY DEF Init
<1> QED
  BY <1>1, <1>3, <1>4, Numbers

\* A pool in an availability set has as many agents that can run pods as the api_model
\* records, but for one per failure: upgradeAgentPools creates an extra agent before it
\* deletes the first, and what it has on its list is live or has cost a failure.
THEOREM AgentsCost == Spec => []OneAgentPerFailure
<1> QED
  BY Invariant, LiveInit, LiveKept, PTL DEF Spec

=============================================================================
