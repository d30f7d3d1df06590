----------------------------- MODULE DrainNodes -----------------------------
(***************************************************************************)
(* Taking agents out of a running cluster: DrainNodes of scale_client.go   *)
(* with a goroutine per node that cordons it and evicts its pods           *)
(* (acs-engine's cordondrainvm.go), and the deletion of the VMs that       *)
(* scaleDownCluster goes on to.  Kubernetes acts meanwhile: it changes     *)
(* node objects, replaces evicted pods and schedules pods on every node    *)
(* that is not cordoned.                                                   *)
(*                                                                         *)
(* Pods are those that can be evicted, each with the one that replaces it. *)
(***************************************************************************)
EXTENDS Integers, Sequences, FiniteSets

CONSTANTS
  Nodes,             \* vmsToDelete
  Pods,
  Elsewhere,         \* stands for the nodes that stay
  Unassigned,        \* the empty node name: of a pending pod, of an empty Node
  CordonMaxRetries,  \* how often SafelyDrainNodeWithClient tries to cordon (5)
  MaxTouches         \* bound on the changes Kubernetes makes to a node object

ASSUME DrainAssumption ==
  /\ Nodes # {} /\ IsFiniteSet(Nodes)
  /\ Elsewhere \notin Nodes
  /\ Unassigned \notin Nodes \cup {Elsewhere}
  /\ CordonMaxRetries \in Nat \ {0}
  /\ MaxTouches \in Nat

VARIABLES
  podOn,     \* the node of each pod
  cordoned,  \* nodes that are marked unschedulable
  touches,   \* changes made to each node object
  worker,    \* where the goroutine of each node is
  fresh,     \* the node object it got is still the latest
  retries,   \* its failed attempts to cordon
  target,    \* the name in the node object it drains
  victims,   \* pods it has listed and not seen go
  result,    \* what SafelyDrainNode returned
  errChan,   \* the answers in the channel
  closed,    \* the channel is closed
  received,  \* answers DrainNodes has taken from it
  pc,        \* where scaleDownCluster is
  vms,       \* the VMs that exist
  crashed    \* the provider's process has panicked

kubernetes == <<podOn, cordoned, touches>>
channel    == <<errChan, closed>>
caller     == <<received, pc, vms>>
vars       == <<kubernetes, worker, fresh, retries, target, victims, result,
                channel, caller, crashed>>

Results == {"none", "ok", "error"}

TypeOK ==
  /\ podOn \in [Pods -> Nodes \cup {Elsewhere, Unassigned}]
  /\ cordoned \subseteq Nodes
  /\ touches \in [Nodes -> 0 .. MaxTouches]
  /\ worker \in [Nodes -> {"get", "update", "list", "evict", "answer", "done"}]
  /\ fresh \in [Nodes -> BOOLEAN]
  /\ retries \in [Nodes -> 0 .. CordonMaxRetries]
  /\ target \in [Nodes -> Nodes \cup {Unassigned}]
  /\ victims \in [Nodes -> SUBSET Pods]
  /\ result \in [Nodes -> Results]
  /\ errChan \in Seq(Results)
  /\ Len(errChan) + received <= Cardinality(Nodes)
  /\ closed \in BOOLEAN
  /\ received \in 0 .. Cardinality(Nodes)
  /\ pc \in {"drain", "delete", "ok", "error"}
  /\ vms \subseteq Nodes
  /\ crashed \in BOOLEAN

Init ==
  /\ podOn \in [Pods -> Nodes \cup {Elsewhere, Unassigned}]
  /\ cordoned = {}
  /\ touches = [n \in Nodes |-> 0]
  /\ worker = [n \in Nodes |-> "get"]
  /\ fresh = [n \in Nodes |-> TRUE]
  /\ retries = [n \in Nodes |-> 0]
  /\ target = [n \in Nodes |-> n]
  /\ victims = [n \in Nodes |-> {}]
  /\ result = [n \in Nodes |-> "none"]
  /\ errChan = <<>>
  /\ closed = FALSE
  /\ received = 0
  /\ pc = "drain"
  /\ vms = Nodes
  /\ crashed = FALSE

-----------------------------------------------------------------------------
(* The goroutine of a node: SafelyDrainNode. *)

At(n, place) == worker[n] = place /\ ~crashed

Goto(n, place) == worker' = [worker EXCEPT ![n] = place]

DrainReturns(n, r) ==
  /\ result' = [result EXCEPT ![n] = r]
  /\ Goto(n, "answer")

GetNode(n) ==
  /\ At(n, "get")
  /\ n \in vms
  /\ fresh' = [fresh EXCEPT ![n] = TRUE]
  /\ target' = [target EXCEPT ![n] = n]
  /\ Goto(n, "update")
  /\ UNCHANGED <<kubernetes, retries, victims, result, channel, caller, crashed>>

\* UpdateNode with the node marked unschedulable.
Cordon(n) ==
  /\ At(n, "update")
  /\ fresh[n]
  /\ cordoned' = cordoned \cup {n}
  /\ Goto(n, "list")
  /\ UNCHANGED <<podOn, touches, fresh, retries, target, victims, result, channel,
                 caller, crashed>>

\* Somebody else has changed the node.  UpdateNode returns an empty Node with
\* its error; the loop gets the node again, but the last time around it just
\* ends, and goes on with the empty one.
CordonConflict(n) ==
  /\ At(n, "update")
  /\ ~fresh[n]
  /\ retries' = [retries EXCEPT ![n] = @ + 1]
  /\ target' = [target EXCEPT ![n] = Unassigned]
  /\ Goto(n, IF retries'[n] < CordonMaxRetries THEN "get" ELSE "list")
  /\ UNCHANGED <<kubernetes, fresh, victims, result, channel, caller, crashed>>

\* The pods whose spec.nodeName is the node's name.
PodsOn(n) == {p \in Pods : podOn[p] = target[n]}

\* getPodsForDeletion; without pods the drain is over.
ListPods(n) ==
  /\ At(n, "list")
  /\ victims' = [victims EXCEPT ![n] = PodsOn(n)]
  /\ IF PodsOn(n) = {} THEN DrainReturns(n, "ok")
                       ELSE Goto(n, "evict") /\ UNCHANGED result
  /\ UNCHANGED <<kubernetes, fresh, retries, target, channel, caller, crashed>>

\* Eviction of a pod until WaitForDelete sees it gone.  Its controller replaces
\* it.  One that has gone by itself is not found.
EvictPod(n, p) ==
  /\ At(n, "evict")
  /\ p \in victims[n]
  /\ victims' = [victims EXCEPT ![n] = @ \ {p}]
  /\ podOn' = IF podOn[p] = target[n] THEN [podOn EXCEPT ![p] = Unassigned] ELSE podOn
  /\ IF victims[n] = {p} THEN DrainReturns(n, "ok") ELSE UNCHANGED <<worker, result>>
  /\ UNCHANGED <<cordoned, touches, fresh, retries, target, channel, caller, crashed>>

\* A call fails, a pod may not be evicted, or the drain takes too long.
DrainFails(n) ==
  /\ \E place \in {"get", "update", "list", "evict"} : At(n, place)
  /\ DrainReturns(n, "error")
  /\ UNCHANGED <<kubernetes, fresh, retries, target, victims, channel, caller, crashed>>

\* Mutant: the goroutine does not return after it has sent its error.
AnsweredTwice(n) ==
  IF result[n] = "error" THEN <<"error", "ok">> ELSE <<"ok">>

\* Mutant: the goroutine only logs its error.
AnsweredIfDrained(n) ==
  IF result[n] = "error" THEN <<>> ELSE <<"ok">>

\* What the goroutine sends.
Answers(n) == <<result[n]>>

\* errChan <-: the buffer has room, but a send on a closed channel panics.
Answer(n) ==
  /\ At(n, "answer")
  /\ Goto(n, "done")
  /\ IF closed THEN crashed' = TRUE /\ UNCHANGED errChan
               ELSE errChan' = errChan \o Answers(n) /\ UNCHANGED crashed
  /\ UNCHANGED <<kubernetes, fresh, retries, target, victims, result, closed, caller>>

-----------------------------------------------------------------------------
(* DrainNodes, and scaleDownCluster around it. *)

\* Mutant: errors are logged, and the draining goes on.
ErrorsIgnored(answer) == FALSE

EndsDraining(answer) == answer = "error"

\* It returns at the first error, and with it the deferred close is run.
Receive ==
  /\ pc = "drain"
  /\ ~crashed
  /\ errChan # <<>>
  /\ errChan' = Tail(errChan)
  /\ received' = received + 1
  /\ pc' = IF EndsDraining(Head(errChan)) THEN "error"
           ELSE IF received' = Cardinality(Nodes) THEN "delete" ELSE "drain"
  /\ closed' = (pc' # "drain")
  /\ UNCHANGED <<kubernetes, worker, fresh, retries, target, victims, result, vms,
                 crashed>>

\* ScaleDownVMs; module AgentPoolScale has its failures.
DeleteVM(n) ==
  /\ pc = "delete"
  /\ ~crashed
  /\ n \in vms
  /\ vms' = vms \ {n}
  /\ pc' = IF vms = {n} THEN "ok" ELSE "delete"
  /\ UNCHANGED <<kubernetes, worker, fresh, retries, target, victims, result, channel,
                 received, crashed>>

-----------------------------------------------------------------------------
(* Kubernetes. *)

\* The kubelet or a controller updates the node object.
Touch(n) ==
  /\ n \in vms
  /\ touches[n] < MaxTouches
  /\ touches' = [touches EXCEPT ![n] = @ + 1]
  /\ fresh' = [fresh EXCEPT ![n] = FALSE]
  /\ UNCHANGED <<podOn, cordoned, worker, retries, target, victims, result, channel,
                 caller, crashed>>

Schedule(p) ==
  /\ podOn[p] = Unassigned
  /\ \E n \in (vms \ cordoned) \cup {Elsewhere} : podOn' = [podOn EXCEPT ![p] = n]
  /\ UNCHANGED <<cordoned, touches, worker, fresh, retries, target, victims, result,
                 channel, caller, crashed>>

-----------------------------------------------------------------------------
Drain(n) ==
  \/ GetNode(n)
  \/ Cordon(n)
  \/ CordonConflict(n)
  \/ ListPods(n)
  \/ \E p \in Pods : EvictPod(n, p)
  \/ DrainFails(n)
  \/ Answer(n)

Kubernetes ==
  \/ \E n \in Nodes : Touch(n)
  \/ \E p \in Pods : Schedule(p)

Next ==
  \/ \E n \in Nodes : Drain(n) \/ DeleteVM(n)
  \/ Receive
  \/ Kubernetes

Spec == Init /\ [][Next]_vars

\* Goroutines run, and every call they make returns: the last resort is the hour
\* a drain may take.
FairSpec ==
  /\ Spec
  /\ \A n \in Nodes : WF_vars(Drain(n)) /\ WF_vars(DeleteVM(n))
  /\ WF_vars(Receive)

-----------------------------------------------------------------------------
(* Properties. *)

\* No VM is deleted with a pod on it that could have been evicted, however the
\* pods move between the nodes that are drained at the same time.
NoPodKilled == \A p \in Pods : podOn[p] \in vms \cup {Elsewhere, Unassigned}

\* A scale-down ends: every goroutine answers, whatever happens to its node.
ScaleDownEnds == <>(pc \in {"ok", "error"})

\* What the log of SafelyDrainNodeWithClient says before the eviction: the node
\* has been marked unschedulable.
MarkedUnschedulable ==
  \A n \in Nodes : worker[n] \in {"list", "evict"} => n \in cordoned

\* What DrainNodes does when a node fails to drain is return an error: the
\* provider goes on, with the other resources it works on.
ErrorIsReturned == ~crashed

=============================================================================
