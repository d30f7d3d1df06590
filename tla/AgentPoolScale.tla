--------------------------- MODULE AgentPoolScale ---------------------------
(***************************************************************************)
(* Scaling one agent pool of an availability set, VM by VM: scaleCluster   *)
(* of acsengine/cluster_scale.go with ScaleVMAS and the drain and delete   *)
(* calls it makes, against the Azure resource group it changes.            *)
(*                                                                         *)
(* A VM is its index in the pool (the number at the end of its name).  A   *)
(* call reads the pool once, computes the template parameters or the list  *)
(* of VMs to delete from what it read, and then changes Azure; every call  *)
(* to Azure can fail, and a deployment or the deletion of a VM goes on     *)
(* when the client stops waiting for it, so the pool can change between    *)
(* the reading and the use, and after the call.                            *)
(***************************************************************************)
EXTENDS Integers, FiniteSets

CONSTANTS
  MaxAgents,   \* largest count the schema accepts (100 in validators.go)
  CountLimit,  \* largest value of the template's count parameter (100)
  PageSize,    \* VMs on the first page of a resource group's VM list
  OtherVMs     \* VMs of the resource group that are not of this pool

ASSUME LimitsAssumption ==
  /\ MaxAgents \in Nat \ {0}
  /\ CountLimit \in Nat
  /\ MaxAgents <= CountLimit

\* A page holds something, and the masters are always in the resource group.
ASSUME PageAssumption ==
  /\ PageSize \in Nat \ {0}
  /\ OtherVMs \in Nat \ {0}

VARIABLES
  vms,       \* indices of the pool's VMs that exist in Azure
  pending,   \* indices the running ARM deployment has yet to create
  dying,     \* VMs Azure is deleting although the deletion's call has failed
  recorded,  \* the pool's count in the api_model of the Terraform state
  pc,        \* where the running call of scaleCluster is
  goal,      \* its agentCount
  listed,    \* the pool's VMs ScaleVMAS saw
  highest,   \* its highestUsedIndex
  doomed,    \* its vmsToDelete
  deleting,  \* the deletions of ScaleDownVMs that have not answered yet
  failed,    \* a deletion or the deployment of this call failed
  outcome,   \* what the last call returned
  exact,     \* history: the listing was the pool, at rest
  lost       \* history: VMs this call counts on that a late deletion has taken

azure == <<vms, pending, dying>>
view  == <<listed, highest, doomed, exact>>
vars  == <<azure, recorded, pc, goal, view, deleting, failed, outcome, lost>>

Indices == 0 .. CountLimit - 1

TypeOK ==
  /\ vms \in SUBSET Indices
  /\ pending \in SUBSET Indices
  /\ dying \in SUBSET vms
  /\ recorded \in 1 .. MaxAgents
  /\ pc \in {"idle", "list", "drain", "delete", "deploy", "wait", "save"}
  /\ goal \in 1 .. MaxAgents
  /\ listed \in SUBSET Indices
  /\ highest \in {0} \cup Indices
  /\ doomed \in SUBSET Indices
  /\ deleting \in SUBSET Indices
  /\ failed \in BOOLEAN
  /\ outcome \in {"working", "ok", "error"}
  /\ exact \in BOOLEAN
  /\ lost \in SUBSET Indices

\* The pool as the cluster's own deployment creates it: 0, 1, ..., count - 1.
Init ==
  /\ recorded \in 1 .. MaxAgents
  /\ vms = 0 .. recorded - 1
  /\ pending = {}
  /\ dying = {}
  /\ pc = "idle"
  /\ goal = recorded
  /\ listed = vms
  /\ highest = recorded - 1
  /\ doomed = {}
  /\ deleting = {}
  /\ failed = FALSE
  /\ outcome = "ok"
  /\ exact = TRUE
  /\ lost = {}

-----------------------------------------------------------------------------
(* What scaleCluster computes from what it read. *)

currentNodeCount == Cardinality(listed)

\* Mutant: the indices no VM uses any more are not made up for.
CountWithoutGaps == goal

\* setCountForTemplate.  highestUsedIndex is 0 when the pool is a scale set,
\* but also when VM 0 is the only one seen and when none was.
CountForTemplate ==
  IF highest # 0 THEN goal + highest + 1 - currentNodeCount ELSE goal

\* Mutant: numbering goes on from the number of VMs.
OffsetFromCount == currentNodeCount

\* The Offset parameter: the first index the template creates.
Offset == highest + 1

\* The copy loop of the template runs from Offset to Count - 1.
NewVMs == Offset .. CountForTemplate - 1

\* Mutant: the template states no upper limit.
ParametersPositive == CountForTemplate >= 1

\* The allowedValues of the two parameters in agentparams.t.
ParametersAllowed ==
  /\ CountForTemplate \in 1 .. CountLimit
  /\ Offset \in 0 .. CountLimit - 1

\* Mutant: the loop runs once too often.
vmsToDeleteOneMore(seen) ==
  {S \in SUBSET seen : Cardinality(S) = Cardinality(seen) - goal + 1}

\* vmsToDeleteList cuts the tail off the list.  The list has no order the code
\* can rely on, so that is any subset of the right size.
vmsToDeleteList(seen) ==
  {S \in SUBSET seen : Cardinality(S) = Cardinality(seen) - goal}

\* What one page of the list can show: it is full unless it holds everything.
FirstPage ==
  {S \in SUBSET vms :
     /\ Cardinality(S) <= PageSize
     /\ \/ S = vms
        \/ Cardinality(S) + OtherVMs >= PageSize}

-----------------------------------------------------------------------------
Return(result) ==
  /\ pc' = "idle"
  /\ outcome' = result

\* resourceACSEngineK8sClusterUpdate: HasChange on the pool's count.
Scale(count) ==
  /\ pc = "idle"
  /\ count # recorded
  /\ goal' = count
  /\ pc' = "list"
  /\ failed' = FALSE
  /\ outcome' = "working"
  /\ lost' = {}
  /\ UNCHANGED <<azure, recorded, view, deleting>>

\* ScaleVMAS, and the three ways scaleCluster goes on from it.
ListVMs ==
  /\ pc = "list"
  /\ \E page \in FirstPage : \E h \in page \cup {0} :
       /\ \A i \in page : i <= h
       /\ listed' = page
       /\ highest' = h
       /\ exact' = (page = vms /\ pending = {} /\ dying = {})
  /\ LET current == Cardinality(listed') IN
       \/ /\ current = goal
          /\ Return("ok")
          /\ doomed' = {}
       \/ /\ current > goal
          /\ doomed' \in vmsToDeleteList(listed')
          /\ pc' = "drain"
          /\ UNCHANGED outcome
       \/ /\ current < goal
          /\ doomed' = {}
          /\ pc' = "deploy"
          /\ UNCHANGED outcome
  /\ UNCHANGED <<azure, recorded, goal, deleting, failed, lost>>

\* DrainNodes reports success: every node was drained (module DrainNodes).
DrainNodes ==
  /\ pc = "drain"
  /\ pc' = "delete"
  /\ deleting' = doomed
  /\ UNCHANGED <<azure, recorded, goal, view, failed, outcome, lost>>

\* Azure has deleted VM i.
Gone(i) ==
  /\ vms' = vms \ {i}
  /\ dying' = dying \ {i}

\* ScaleDownVMs: one goroutine per VM.
DeleteVM(i) ==
  /\ pc = "delete"
  /\ i \in deleting
  /\ deleting' = deleting \ {i}
  /\ Gone(i)
  /\ UNCHANGED <<pending, recorded, pc, goal, view, failed, outcome, lost>>

\* CleanDeleteVirtualMachine fails before Azure deletes the VM; while it does,
\* the wait having been cancelled or timed out; or after it has, on the network
\* interface, the disk or the role assignments.
DeleteFails(i) ==
  /\ pc = "delete"
  /\ i \in deleting
  /\ deleting' = deleting \ {i}
  /\ \/ UNCHANGED <<vms, dying>>
     \/ vms' = vms /\ dying' = dying \cup ({i} \cap vms)
     \/ Gone(i)
  /\ failed' = TRUE
  /\ UNCHANGED <<pending, recorded, pc, goal, view, outcome, lost>>

\* Mutant: the list of errors is logged and dropped.
DeletionErrorsDropped ==
  /\ pc = "delete"
  /\ deleting = {}
  /\ pc' = "save"
  /\ UNCHANGED <<azure, recorded, goal, view, deleting, failed, outcome, lost>>

\* Mutant: only successful deletions are counted as answers.
FailuresNotAnswers ==
  /\ pc = "delete"
  /\ deleting = {}
  /\ ~failed
  /\ pc' = "save"
  /\ UNCHANGED <<azure, recorded, goal, view, deleting, failed, outcome, lost>>

\* ScaleDownVMs has collected every answer.
DeletionsAnswered ==
  /\ pc = "delete"
  /\ deleting = {}
  /\ IF failed THEN Return("error") ELSE pc' = "save" /\ UNCHANGED outcome
  /\ UNCHANGED <<azure, recorded, goal, view, deleting, failed, lost>>

\* scaleUpCluster: ARM accepts the deployment unless one of that name runs.
StartDeployment ==
  /\ pc = "deploy"
  /\ pending = {}
  /\ ParametersAllowed
  /\ pending' = NewVMs
  /\ pc' = "wait"
  /\ UNCHANGED <<vms, dying, recorded, goal, view, deleting, failed, outcome, lost>>

DeploymentSucceeded ==
  /\ pc = "wait"
  /\ pending = {}
  /\ ~failed
  /\ pc' = "save"
  /\ UNCHANGED <<azure, recorded, goal, view, deleting, failed, outcome, lost>>

\* WaitForCompletion returns an error: the deployment failed, perhaps after its
\* last VM, or the context was cancelled or the polling timed out while it runs.
WaitFails ==
  /\ pc = "wait"
  /\ Return("error")
  /\ UNCHANGED <<azure, recorded, goal, view, deleting, failed, lost>>

\* saveScaledApimodel.
SaveScaledApimodel ==
  /\ pc = "save"
  /\ recorded' = goal
  /\ Return("ok")
  /\ UNCHANGED <<azure, goal, view, deleting, failed, lost>>

\* The error returns: loading the model and listing, the kube config and the
\* drain, the refused deployment, the templates that cannot be written.
CallFails ==
  /\ pc \in {"list", "drain", "deploy", "save"}
  /\ Return("error")
  /\ UNCHANGED <<azure, recorded, goal, view, deleting, failed, lost>>

-----------------------------------------------------------------------------
(* Azure's side of a deployment, which another call may have started. *)

CreateVM(i) ==
  /\ i \in pending
  /\ pending' = pending \ {i}
  /\ vms' = vms \cup {i}
  /\ UNCHANGED <<dying, recorded, pc, goal, view, deleting, failed, outcome, lost>>

DeploymentFails ==
  /\ pending # {}
  /\ pending' = {}
  /\ failed' = (failed \/ pc = "wait")
  /\ UNCHANGED <<vms, dying, recorded, pc, goal, view, deleting, outcome, lost>>

(* Its side of a deletion nobody waits for any more. *)

VMVanishes(i) ==
  /\ i \in dying
  /\ Gone(i)
  /\ lost' = IF pc = "list" THEN lost ELSE lost \cup ({i} \ doomed)
  /\ UNCHANGED <<pending, recorded, pc, goal, view, deleting, failed, outcome>>

\* It fails, and the VM stays.
VMSurvives(i) ==
  /\ i \in dying
  /\ dying' = dying \ {i}
  /\ UNCHANGED <<vms, pending, recorded, pc, goal, view, deleting, failed, outcome, lost>>

-----------------------------------------------------------------------------
CallStep ==
  \/ ListVMs
  \/ DrainNodes
  \/ \E i \in Indices : DeleteVM(i) \/ DeleteFails(i)
  \/ DeletionsAnswered
  \/ StartDeployment
  \/ DeploymentSucceeded
  \/ WaitFails
  \/ SaveScaledApimodel
  \/ CallFails

Next ==
  \/ \E count \in 1 .. MaxAgents : Scale(count)
  \/ CallStep
  \/ \E i \in Indices : CreateVM(i) \/ VMVanishes(i) \/ VMSurvives(i)
  \/ DeploymentFails

Spec == Init /\ [][Next]_vars

\* Every request to Azure is answered or times out.
FairSpec == Spec /\ WF_vars(CallStep)

-----------------------------------------------------------------------------
(* Properties. *)

\* What the call makes of the pool.  If it saw no VM of it the numbering goes on
\* as if there were a VM 0, so one is missing.
Aim == IF listed = {} THEN goal - 1 ELSE goal

\* No call of scaleCluster takes the last agent of a pool, whatever calls came
\* before it: the pool is empty only if a deletion that outlived its call has
\* taken a VM the running call left alone, or the last one (ScaleDownVMs).
EmptiedLate == [][vms # {} /\ vms' = {} => lost # {} \/ vms \subseteq dying]_vars

\* A call that returns no error has left at least the agents it was asked for,
\* but for those an earlier deletion has taken behind its back, and for one if
\* the first page it read showed none of the pool (setCountForTemplate).
SuccessIsEnough == outcome = "ok" => Cardinality(vms \cup lost) >= Aim

\* It has left exactly that many if ScaleVMAS saw the whole pool at rest:
\* the offset and the count make up for every gap earlier calls left behind.
SuccessIsExact == outcome = "ok" /\ exact => Cardinality(vms) = Aim

\* A deployment started from such a listing never names a VM that exists: the
\* template would re-provision the running node.
NoRedeploy == exact => pending \cap vms = {}

\* A call of scaleCluster returns.
CallReturns == pc # "idle" ~> pc = "idle"

\* Every step is one PoolPromise allows, seen as numbers of agents.
Promise == INSTANCE PoolPromise WITH
  count   <- Cardinality(vms),
  leaving <- Cardinality(dying),
  lost    <- Cardinality(lost \ vms),
  found   <- listed # {}
PromiseSpec == Promise!Spec

=============================================================================
