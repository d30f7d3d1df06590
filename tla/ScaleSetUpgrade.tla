--------------------------- MODULE ScaleSetUpgrade ---------------------------
(***************************************************************************)
(* Upgrading the agents of scale sets: upgradeAgentScaleSets of the        *)
(* acs-engine upgrader, between the masters and the availability sets      *)
(* (module ClusterUpgrade, which shares pc, outcome and faults).           *)
(*                                                                         *)
(* The capacity of a scale set is raised by one, an old instance goes, and *)
(* so on until none of the old ones listed is left.  What is listed is     *)
(* from before the masters were replaced, and their deployments set the    *)
(* scale sets as well.                                                     *)
(***************************************************************************)
EXTENDS Integers, FiniteSets

CONSTANTS
  Pools,       \* the agent pools
  AgentCount,  \* agents the api_model records for each of them
  MaxFaults,   \* bound on the failures a behaviour meets
  MaxPages,    \* pages a scale set's list of VMs takes at most
  Profiles     \* the kinds of pools a cluster may have

ASSUME ScaleSetAssumption ==
  /\ AgentCount \in Nat \ {0}
  /\ MaxFaults \in Nat
  /\ MaxPages \in Nat \ {0}
  /\ Profiles \subseteq {"AvailabilitySet", "VirtualMachineScaleSets"}

VARIABLES
  profile,    \* the availability profile of the pools
  instances,  \* version of each instance, by scale set and ID, or "none"
  model,      \* the version with which a scale set creates instances
  sku,        \* Sku.Capacity, which all entries of a scale set point to
  listed,     \* VMsToUpgrade of each entry, by scale set and page
  entry,      \* the entry the loop is at, as <<scale set, page>>
  pc,         \* where the attempt is
  outcome,    \* what the last attempt returned
  faults      \* failures so far

scaleSets == <<instances, model>>
entries   == <<sku, listed, entry>>

Pages       == 1 .. MaxPages
ScaleSets   == IF profile = "VirtualMachineScaleSets" THEN Pools ELSE {}
\* An attempt can leave as many instances too many as its list has pages, or one
\* if it has failed.
InstanceIDs == 1 .. AgentCount + 2 + MaxPages * (MaxFaults + 2)

\* The indices whose value is one of the given ones.
Present(f, states) == {i \in DOMAIN f : f[i] \in states}
Instances(s) == Present(instances[s], {"old", "new"})

ScaleSetsTypeOK ==
  /\ profile \in Profiles
  /\ instances \in [Pools -> [InstanceIDs -> {"none", "old", "new"}]]
  /\ model \in [Pools -> {"old", "new"}]
  /\ sku \in [Pools -> Nat]
  /\ listed \in [Pools -> [Pages -> SUBSET InstanceIDs]]
  /\ entry \in Pools \X Pages

NothingListed == [s \in Pools |-> [n \in Pages |-> {}]]

\* An abandoned scaling can leave an instance more than the api_model knows of.
ScaleSetsInit ==
  /\ profile \in Profiles
  /\ \E size \in [Pools -> AgentCount .. AgentCount + 1] :
       instances = [s \in Pools |-> [i \in InstanceIDs |->
                      IF s \in ScaleSets /\ i <= size[s] THEN "old" ELSE "none"]]
  /\ model = [s \in Pools |-> "old"]
  /\ sku = [s \in Pools |-> 0]
  /\ listed = NothingListed
  /\ entry \in Pools \X {1}

-----------------------------------------------------------------------------
Fault ==
  /\ faults < MaxFaults
  /\ faults' = faults + 1

\* An error ends the attempt: nothing is saved.
ScaleSetsFail ==
  /\ pc' = "idle"
  /\ outcome' = "error"
  /\ sku' = [s \in Pools |-> 0]
  /\ listed' = NothingListed
  /\ UNCHANGED entry

\* The IDs of k new instances.  (Azure never uses one again; here it is enough
\* that nobody remembers it.)
NewIDs(s, k) ==
  LET free == InstanceIDs \ (Instances(s) \cup UNION {listed[s][n] : n \in Pages})
  IN  CHOOSE ids \in SUBSET free :
        /\ Cardinality(ids) = k
        /\ \A i \in ids, j \in free \ ids : i < j

\* A scale set brought to a capacity: instances are created from its model, or
\* any of them removed.
Scaled(s, capacity, version) ==
  LET size == Cardinality(Instances(s)) IN
  IF capacity >= size
  THEN {[i \in InstanceIDs |-> IF i \in NewIDs(s, capacity - size)
                               THEN version ELSE instances[s][i]]}
  ELSE {[i \in InstanceIDs |-> IF i \in kept THEN instances[s][i] ELSE "none"] :
          kept \in {ids \in SUBSET Instances(s) : Cardinality(ids) = capacity}}

SetCapacity(s, capacity) ==
  \E scaled \in Scaled(s, capacity, model[s]) :
    instances' = [instances EXCEPT ![s] = scaled]

\* What the deployment of a master's template does to the scale sets in it: the
\* new version in the model, and the capacity of the api_model.
ScaleSetsDeployed ==
  /\ model' = [s \in Pools |-> IF s \in ScaleSets THEN "new" ELSE model[s]]
  /\ instances' \in
       {f \in [Pools -> UNION {Scaled(s, AgentCount, "new") : s \in ScaleSets}
                        \cup {instances[s] : s \in Pools}] :
          \A s \in Pools : IF s \in ScaleSets THEN f[s] \in Scaled(s, AgentCount, "new")
                                              ELSE f[s] = instances[s]}

\* getClusterNodeStatus: an entry for every page of every scale set's VMs.
ListScaleSets ==
  /\ sku' = [s \in Pools |-> Cardinality(Instances(s))]
  /\ listed' \in
       {f \in [Pools -> [Pages -> UNION {SUBSET Present(instances[s], {"old"}) : s \in Pools}]] :
          \A s \in Pools :
            /\ UNION {f[s][n] : n \in Pages} = Present(instances[s], {"old"})
            /\ \A m, n \in Pages : m # n => f[s][m] \cap f[s][n] = {}}
  /\ UNCHANGED entry

-----------------------------------------------------------------------------
(* upgradeAgentScaleSets. *)

\* Mutant: there is no buffer node.
NoBuffer(s) == sku[s]

\* newCapacity, a machine more than the scale set has.
NewCapacity(s) == sku[s] + 1

\* The entries of a scale set are visited in the order of its pages, and one
\* without VMs is skipped.
NextEntry(s, n) ==
  /\ pc = "scaleSets"
  /\ listed[s][n] # {}
  /\ \A m \in Pages : m < n => listed[s][m] = {}
  /\ s # entry[1] => \A m \in Pages : listed[entry[1]][m] = {}
  /\ entry' = <<s, n>>
  /\ sku' = [sku EXCEPT ![s] = NewCapacity(s)]
  /\ pc' = "capacity"
  /\ UNCHANGED <<scaleSets, listed, outcome, faults>>

\* SetVirtualMachineScaleSetCapacity.
SetSku ==
  /\ pc = "capacity"
  /\ SetCapacity(entry[1], sku[entry[1]])
  /\ pc' = "instance"
  /\ UNCHANGED <<model, entries, outcome, faults>>

\* The VM is off the list.
InstanceDone(i) ==
  LET left == [listed EXCEPT ![entry[1]][entry[2]] = @ \ {i}] IN
  /\ listed' = left
  /\ pc' = IF left[entry[1]][entry[2]] = {} THEN "scaleSets" ELSE "capacity"

Remove(s, i) == instances' = [instances EXCEPT ![s][i] = "none"]

\* The instance is drained and deleted.  Nobody has asked whether the new one is
\* there as a node.
DeleteInstance(i) ==
  /\ pc = "instance"
  /\ i \in listed[entry[1]][entry[2]]
  /\ i \in Instances(entry[1])
  /\ Remove(entry[1], i)
  /\ InstanceDone(i)
  /\ UNCHANGED <<model, sku, entry, outcome, faults>>

\* The deployment of a master has scaled in, and an instance listed is not there
\* any more.  Its node may still be.
InstanceNotFound(i) ==
  /\ pc = "instance"
  /\ i \in listed[entry[1]][entry[2]]
  /\ i \notin Instances(entry[1])
  /\ \/ ScaleSetsFail
     \/ InstanceDone(i) /\ UNCHANGED <<sku, entry, outcome>>
  /\ UNCHANGED <<scaleSets, faults>>

ScaleSetsUpgraded ==
  /\ pc = "scaleSets"
  /\ listed = NothingListed
  /\ pc' = "pools"
  /\ UNCHANGED <<scaleSets, entries, outcome, faults>>

\* The call returns an error after Azure has done what it was asked to.
ScaleSetCallFails ==
  /\ \/ pc = "capacity" /\ SetCapacity(entry[1], sku[entry[1]])
     \/ /\ pc = "instance"
        /\ \E i \in listed[entry[1]][entry[2]] : Remove(entry[1], i)
  /\ Fault
  /\ ScaleSetsFail
  /\ UNCHANGED model

ScaleSetStep ==
  \/ \E s \in Pools, n \in Pages : NextEntry(s, n)
  \/ SetSku
  \/ \E i \in InstanceIDs : DeleteInstance(i) \/ InstanceNotFound(i)
  \/ ScaleSetsUpgraded

-----------------------------------------------------------------------------
(* Properties. *)

\* A scale set never has fewer machines than the api_model says, whatever fails:
\* the capacity is raised before an instance goes, by a list that may be older
\* than the last deployment.
ScaleSetKeepsCount ==
  \A s \in ScaleSets : Cardinality(Instances(s)) >= AgentCount

=============================================================================
