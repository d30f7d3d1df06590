-------------------------- MODULE DrainNodes_proofs --------------------------
(***************************************************************************)
(* Proofs about DrainNodes, for any nodes and pods and any number of tries *)
(* to cordon a node.                                                       *)
(*                                                                         *)
(* The argument: a try to cordon fails only when the node object has been  *)
(* changed since it was got, so while there are fewer changes than tries   *)
(* one succeeds.  From then on nothing is scheduled on the node, and what  *)
(* was listed on it is all there is to evict.  Each goroutine answers      *)
(* once, hence DrainNodes has counted as many answers as there are nodes   *)
(* only when every one of them was drained.                                *)
(***************************************************************************)
EXTENDS DrainNodes, FiniteSetTheorems, TLAPS

Done == {n \in Nodes : worker[n] = "done"}

\* A goroutine that may try again has tries left.
TriesLeft ==
  \A n \in Nodes : worker[n] \in {"get", "update"} => retries[n] < CordonMaxRetries

\* An answer is sent by a goroutine that ends with it.
AnsweredOnce == Len(errChan) + received <= Cardinality(Done)

TypeInv == TypeOK /\ TriesLeft /\ AnsweredOnce

\* Each failed try has had a change of its own.
ConflictsCounted ==
  \A n \in Nodes :
    /\ retries[n] <= touches[n]
    /\ worker[n] = "update" => target[n] = n
    /\ worker[n] = "update" /\ ~fresh[n] => retries[n] < touches[n]

\* What is on a node that is drained has been listed.
VictimsListed ==
  \A n \in Nodes :
    /\ worker[n] \in {"list", "evict"} => n \in cordoned /\ target[n] = n
    /\ worker[n] = "evict" => \A p \in Pods : podOn[p] = n => p \in victims[n]

\* A node is reported drained when nothing is on it, and nothing will be.
DrainedIsEmpty ==
  \A n \in Nodes :
    /\ worker[n] \in {"answer", "done"} <=> result[n] \in {"ok", "error"}
    /\ result[n] = "ok" => n \in cordoned /\ \A p \in Pods : podOn[p] # n

\* An error is in the channel until DrainNodes has returned it.
ErrorIsKnown ==
  \A n \in Nodes :
    worker[n] = "done" /\ result[n] = "error" =>
      pc = "error" \/ \E i \in DOMAIN errChan : errChan[i] = "error"

\* VMs are deleted only when all nodes are drained.
DeletesDrained ==
  /\ closed = (pc # "drain")
  /\ pc \in {"delete", "ok"} => \A n \in Nodes : worker[n] = "done" /\ result[n] = "ok"

IInv ==
  /\ TypeInv
  /\ ConflictsCounted
  /\ VictimsListed
  /\ DrainedIsEmpty
  /\ ErrorIsKnown
  /\ DeletesDrained
  /\ NoPodKilled

-----------------------------------------------------------------------------
(* Types. *)

LEMMA NodesType ==
  /\ Cardinality(Nodes) \in Nat \ {0}
  /\ CordonMaxRetries \in Nat
  /\ MaxTouches \in Nat
<1>1. Cardinality(Nodes) \in Nat
  BY DrainAssumption, FS_CardinalityType
<1>2. Cardinality(Nodes) # 0
  BY DrainAssumption, FS_EmptySet
<1> QED
  BY <1>1, <1>2, DrainAssumption

\* Of the nodes some are done; when as many are as there are nodes, all are.
LEMMA DoneBound ==
  /\ IsFiniteSet(Done)
  /\ Cardinality(Done) \in Nat
  /\ Cardinality(Done) <= Cardinality(Nodes)
  /\ Cardinality(Done) = Cardinality(Nodes) => Done = Nodes
<1>1. Done \subseteq Nodes
  BY DEF Done
<1>2. IsFiniteSet(Done) /\ Cardinality(Done) <= Cardinality(Nodes)
      /\ (Cardinality(Done) = Cardinality(Nodes) => Done = Nodes)
  BY <1>1, DrainAssumption, FS_Subset
<1> QED
  BY <1>2, FS_CardinalityType

\* A goroutine that ends is one more of them.
LEMMA OneMoreDone ==
  ASSUME TypeOK, NEW n \in Nodes, worker[n] = "answer", Goto(n, "done")
  PROVE  Cardinality(Done') = Cardinality(Done) + 1
<1>1. Done' = Done \cup {n} /\ n \notin Done
  BY DEF Done, Goto, TypeOK
<1> QED
  BY <1>1, DoneBound, FS_AddElement

\* A goroutine that is not at its end is none of them.
LEMMA SameDone ==
  ASSUME TypeOK, NEW n \in Nodes, NEW place, worker[n] # "done", place # "done",
         Goto(n, place)
  PROVE  Done' = Done
<1> QED
  BY DEF Done, Goto, TypeOK

LEMMA InitIInv == Init => IInv
<1> SUFFICES ASSUME Init PROVE IInv
  OBVIOUS
<1> USE DEF Init
<1>1. TypeOK
  <2>1. errChan \in Seq(Results) /\ Len(errChan) = 0
    OBVIOUS
  <2>2. result \in [Nodes -> Results]
    BY DEF Results
  <2>3. retries \in [Nodes -> 0 .. CordonMaxRetries] /\ touches \in [Nodes -> 0 .. MaxTouches]
    BY NodesType
  <2>4. Len(errChan) + received <= Cardinality(Nodes) /\ received \in 0 .. Cardinality(Nodes)
    BY <2>1, NodesType
  <2>5. closed \in BOOLEAN /\ crashed \in BOOLEAN /\ fresh \in [Nodes -> BOOLEAN]
    BY Zenon
  <2>6. /\ worker \in [Nodes -> {"get", "update", "list", "evict", "answer", "done"}]
        /\ target \in [Nodes -> Nodes \cup {Unassigned}]
        /\ victims \in [Nodes -> SUBSET Pods]
    OBVIOUS
  <2> QED
    BY <2>1, <2>2, <2>3, <2>4, <2>5, <2>6 DEF TypeOK
<1>2. TriesLeft /\ AnsweredOnce
  BY NodesType, DoneBound, DrainAssumption DEF TriesLeft, AnsweredOnce
<1>3. ConflictsCounted /\ VictimsListed /\ DrainedIsEmpty /\ ErrorIsKnown
  BY DEF ConflictsCounted, VictimsListed, DrainedIsEmpty, ErrorIsKnown
<1>4. DeletesDrained /\ NoPodKilled
  BY DEF DeletesDrained, NoPodKilled
<1> QED
  BY <1>1, <1>2, <1>3, <1>4 DEF IInv, TypeInv

LEMMA TypeStep == TypeInv /\ [Next]_vars => TypeInv'
<1> SUFFICES ASSUME TypeInv, [Next]_vars PROVE TypeInv'
  OBVIOUS
<1> USE DEF kubernetes, channel, caller, At, Results
<1>0. TypeOK /\ TriesLeft /\ AnsweredOnce
  BY DEF TypeInv
<1>1. ASSUME NEW n \in Nodes, GetNode(n) PROVE TypeInv'
  <2>1. TypeOK'
    BY <1>0, <1>1 DEF GetNode, Goto, TypeOK
  <2>2. TriesLeft'
    BY <1>0, <1>1 DEF GetNode, Goto, TypeOK, TriesLeft
  <2>3. AnsweredOnce'
    BY <1>0, <1>1, SameDone DEF GetNode, AnsweredOnce
  <2> QED
    BY <2>1, <2>2, <2>3 DEF TypeInv
<1>2. ASSUME NEW n \in Nodes, Cordon(n) PROVE TypeInv'
  <2>1. TypeOK'
    BY <1>0, <1>2 DEF Cordon, Goto, TypeOK
  <2>2. TriesLeft'
    BY <1>0, <1>2 DEF Cordon, Goto, TypeOK, TriesLeft
  <2>3. AnsweredOnce'
    BY <1>0, <1>2, SameDone DEF Cordon, AnsweredOnce
  <2> QED
    BY <2>1, <2>2, <2>3 DEF TypeInv
<1>3. ASSUME NEW n \in Nodes, CordonConflict(n) PROVE TypeInv'
  <2>0. retries'[n] \in 0 .. CordonMaxRetries
    BY <1>0, <1>3, NodesType DEF CordonConflict, TypeOK, TriesLeft
  <2>1. TypeOK'
    BY <1>0, <1>3, <2>0 DEF CordonConflict, Goto, TypeOK
  <2>2. TriesLeft'
    BY <1>0, <1>3, <2>0 DEF CordonConflict, Goto, TypeOK, TriesLeft
  <2>3. AnsweredOnce'
    BY <1>0, <1>3, SameDone DEF CordonConflict, AnsweredOnce
  <2> QED
    BY <2>1, <2>2, <2>3 DEF TypeInv
<1>4. ASSUME NEW n \in Nodes, ListPods(n) PROVE TypeInv'
  <2>1. TypeOK'
    BY <1>0, <1>4 DEF ListPods, DrainReturns, PodsOn, Goto, TypeOK
  <2>2. TriesLeft'
    BY <1>0, <1>4 DEF ListPods, DrainReturns, Goto, TypeOK, TriesLeft
  <2>3. AnsweredOnce'
    BY <1>0, <1>4, SameDone DEF ListPods, DrainReturns, AnsweredOnce
  <2> QED
    BY <2>1, <2>2, <2>3 DEF TypeInv
<1>5. ASSUME NEW n \in Nodes, NEW p \in Pods, EvictPod(n, p) PROVE TypeInv'
  <2>1. TypeOK'
    BY <1>0, <1>5 DEF EvictPod, DrainReturns, Goto, TypeOK
  <2>2. TriesLeft'
    BY <1>0, <1>5 DEF EvictPod, DrainReturns, Goto, TypeOK, TriesLeft
  <2>3. Done' = Done
    <3>1. CASE UNCHANGED worker
      BY <3>1 DEF Done
    <3>2. CASE Goto(n, "answer")
      BY <1>0, <1>5, <3>2, SameDone DEF EvictPod
    <3> QED
      BY <1>5, <3>1, <3>2 DEF EvictPod, DrainReturns
  <2>4. AnsweredOnce'
    BY <1>0, <1>5, <2>3 DEF EvictPod, AnsweredOnce
  <2> QED
    BY <2>1, <2>2, <2>4 DEF TypeInv
<1>6. ASSUME NEW n \in Nodes, DrainFails(n) PROVE TypeInv'
  <2>1. TypeOK'
    BY <1>0, <1>6 DEF DrainFails, DrainReturns, Goto, TypeOK
  <2>2. TriesLeft'
    BY <1>0, <1>6 DEF DrainFails, DrainReturns, Goto, TypeOK, TriesLeft
  <2>3. AnsweredOnce'
    BY <1>0, <1>6, SameDone DEF DrainFails, DrainReturns, AnsweredOnce
  <2> QED
    BY <2>1, <2>2, <2>3 DEF TypeInv
<1>7. ASSUME NEW n \in Nodes, Answer(n) PROVE TypeInv'
  <2>1. errChan' \in Seq(Results) /\ Len(errChan') <= Len(errChan) + 1
    <3>1. errChan \in Seq(Results) /\ result[n] \in Results
      BY <1>0 DEF TypeOK
    <3>2. CASE closed
      BY <1>7, <3>1, <3>2 DEF Answer
    <3>3. CASE ~closed
      <4>1. errChan' = errChan \o <<result[n]>>
        BY <1>7, <3>3 DEF Answer, Answers
      <4> QED
        BY <3>1, <4>1
    <3> QED
      BY <3>2, <3>3
  <2>2. AnsweredOnce'
    <3>1. Cardinality(Done') = Cardinality(Done) + 1
      BY <1>0, <1>7, OneMoreDone DEF Answer
    <3>2. received' = received /\ received \in Nat /\ Len(errChan) \in Nat
          /\ Len(errChan') \in Nat
      BY <1>0, <1>7, <2>1, NodesType DEF Answer, TypeOK
    <3> QED
      BY <1>0, <2>1, <3>1, <3>2, DoneBound DEF AnsweredOnce
  <2>3. Len(errChan') + received' <= Cardinality(Nodes)
    <3>1. Cardinality(Done') <= Cardinality(Nodes)
      BY DoneBound, DrainAssumption, FS_Subset, FS_CardinalityType DEF Done
    <3>2. Cardinality(Done') \in Nat
      BY <1>0, <1>7, OneMoreDone, DoneBound DEF Answer
    <3> QED
      BY <1>0, <1>7, <2>1, <2>2, <3>1, <3>2, NodesType DEF AnsweredOnce, Answer, TypeOK
  <2>4. TypeOK'
    BY <1>0, <1>7, <2>1, <2>3 DEF Answer, Goto, TypeOK
  <2>5. TriesLeft'
    BY <1>0, <1>7 DEF Answer, Goto, TypeOK, TriesLeft
  <2> QED
    BY <2>2, <2>4, <2>5 DEF TypeInv
<1>8. ASSUME Receive PROVE TypeInv'
  <2>1. errChan' \in Seq(Results) /\ Len(errChan') = Len(errChan) - 1
        /\ Len(errChan) \in Nat
    BY <1>0, <1>8 DEF Receive, TypeOK
  <2>2. received' = received + 1 /\ received \in Nat
    BY <1>0, <1>8, NodesType DEF Receive, TypeOK
  <2>3. Len(errChan') + received' = Len(errChan) + received
        /\ received' \in 0 .. Cardinality(Nodes)
    BY <1>0, <2>1, <2>2, NodesType DEF TypeOK
  <2>4. TypeOK'
    BY <1>0, <1>8, <2>1, <2>3 DEF Receive, TypeOK
  <2>5. TriesLeft' /\ AnsweredOnce'
    BY <1>0, <1>8, <2>3 DEF Receive, TriesLeft, AnsweredOnce, Done
  <2> QED
    BY <2>4, <2>5 DEF TypeInv
<1>9. ASSUME NEW n \in Nodes, DeleteVM(n) PROVE TypeInv'
  BY <1>0, <1>9 DEF DeleteVM, TypeInv, TypeOK, TriesLeft, AnsweredOnce, Done
<1>10. ASSUME NEW n \in Nodes, Touch(n) PROVE TypeInv'
  <2>1. touches' \in [Nodes -> 0 .. MaxTouches]
    BY <1>0, <1>10, NodesType DEF Touch, TypeOK
  <2> QED
    BY <1>0, <1>10, <2>1 DEF Touch, TypeInv, TypeOK, TriesLeft, AnsweredOnce, Done
<1>11. ASSUME NEW p \in Pods, Schedule(p) PROVE TypeInv'
  BY <1>0, <1>11 DEF Schedule, TypeInv, TypeOK, TriesLeft, AnsweredOnce, Done
<1>12. CASE UNCHANGED vars
  BY <1>0, <1>12 DEF vars, TypeInv, TypeOK, TriesLeft, AnsweredOnce, Done
<1> QED
  BY <1>1, <1>2, <1>3, <1>4, <1>5, <1>6, <1>7, <1>8, <1>9, <1>10, <1>11, <1>12
  DEF Next, Drain, Kubernetes

\* TypeOK of the run "drain": DrainNodes never takes more answers than there
\* are nodes, and no goroutine tries to cordon more often than it may.
THEOREM TypeCorrect == Spec => []TypeOK
<1>1. Init => TypeInv
  BY InitIInv DEF IInv
<1>2. TypeInv => TypeOK
  BY DEF TypeInv
<1> QED
  BY <1>1, <1>2, TypeStep, PTL DEF Spec

-----------------------------------------------------------------------------
(* Draining.  Each lemma takes one part of IInv over a step. *)

\* Every action, with the node or the pod it is about, for a proof by cases.
LEMMA NextCases ==
  ASSUME [Next]_vars
  PROVE  \/ \E n \in Nodes :
              \/ GetNode(n) \/ Cordon(n) \/ CordonConflict(n) \/ ListPods(n)
              \/ \E p \in Pods : EvictPod(n, p)
              \/ DrainFails(n) \/ Answer(n) \/ DeleteVM(n) \/ Touch(n)
         \/ \E p \in Pods : Schedule(p)
         \/ Receive
         \/ UNCHANGED vars
<1> QED
  BY DEF Next, Drain, Kubernetes

LEMMA ConflictsStep ==
  ASSUME TypeOK, ConflictsCounted, [Next]_vars
  PROVE  ConflictsCounted'
<1> USE DEF kubernetes, channel, caller, At
<1>0. \A n \in Nodes : retries[n] \in Int /\ touches[n] \in Int
  BY NodesType DEF TypeOK
<1>1. ASSUME NEW n \in Nodes, GetNode(n) PROVE ConflictsCounted'
  BY <1>1 DEF GetNode, Goto, TypeOK, ConflictsCounted
<1>2. ASSUME NEW n \in Nodes, Cordon(n) PROVE ConflictsCounted'
  BY <1>2 DEF Cordon, Goto, TypeOK, ConflictsCounted
<1>3. ASSUME NEW n \in Nodes, CordonConflict(n) PROVE ConflictsCounted'
  BY <1>0, <1>3 DEF CordonConflict, Goto, TypeOK, ConflictsCounted
<1>4. ASSUME NEW n \in Nodes, ListPods(n) PROVE ConflictsCounted'
  BY <1>4 DEF ListPods, DrainReturns, Goto, TypeOK, ConflictsCounted
<1>5. ASSUME NEW n \in Nodes, NEW p \in Pods, EvictPod(n, p) PROVE ConflictsCounted'
  BY <1>5 DEF EvictPod, DrainReturns, Goto, TypeOK, ConflictsCounted
<1>6. ASSUME NEW n \in Nodes, DrainFails(n) PROVE ConflictsCounted'
  BY <1>6 DEF DrainFails, DrainReturns, Goto, TypeOK, ConflictsCounted
<1>7. ASSUME NEW n \in Nodes, Answer(n) PROVE ConflictsCounted'
  BY <1>7 DEF Answer, Goto, TypeOK, ConflictsCounted
<1>8. ASSUME NEW n \in Nodes, Touch(n) PROVE ConflictsCounted'
  BY <1>0, <1>8 DEF Touch, TypeOK, ConflictsCounted
<1>9. CASE \/ \E n \in Nodes : DeleteVM(n)
           \/ \E p \in Pods : Schedule(p)
           \/ Receive
           \/ UNCHANGED vars
  BY <1>9 DEF DeleteVM, Schedule, Receive, vars, ConflictsCounted
<1> QED
  BY <1>1, <1>2, <1>3, <1>4, <1>5, <1>6, <1>7, <1>8, <1>9, NextCases

\* The tries are not used up: the last of them would need another change.
LEMMA AnotherTry ==
  ASSUME MaxTouches < CordonMaxRetries, TypeOK, ConflictsCounted, NEW n \in Nodes,
         CordonConflict(n)
  PROVE  worker' = [worker EXCEPT ![n] = "get"]
<1>1. retries[n] + 1 <= touches[n] /\ touches[n] <= MaxTouches /\ retries[n] \in Int
  BY NodesType DEF CordonConflict, At, TypeOK, ConflictsCounted
<1>2. retries'[n] = retries[n] + 1
  BY DEF CordonConflict, TypeOK
<1>3. retries'[n] < CordonMaxRetries
  BY <1>1, <1>2, NodesType DEF TypeOK
<1> QED
  BY <1>3 DEF CordonConflict, Goto

LEMMA VictimsStep ==
  ASSUME MaxTouches < CordonMaxRetries, TypeOK, ConflictsCounted, VictimsListed,
         DrainedIsEmpty, [Next]_vars
  PROVE  VictimsListed' /\ DrainedIsEmpty'
<1> USE DEF kubernetes, channel, caller, At, TypeOK, VictimsListed, DrainedIsEmpty
<1>1. ASSUME NEW n \in Nodes, GetNode(n) PROVE VictimsListed' /\ DrainedIsEmpty'
  BY <1>1 DEF GetNode, Goto
<1>2. ASSUME NEW n \in Nodes, Cordon(n) PROVE VictimsListed' /\ DrainedIsEmpty'
  BY <1>2 DEF Cordon, Goto, ConflictsCounted
<1>3. ASSUME NEW n \in Nodes, CordonConflict(n)
      PROVE  VictimsListed' /\ DrainedIsEmpty'
  <2>1. worker' = [worker EXCEPT ![n] = "get"]
    BY <1>3, AnotherTry
  <2>2. /\ UNCHANGED <<podOn, cordoned, victims, result>>
        /\ target' = [target EXCEPT ![n] = Unassigned]
        /\ worker[n] = "update"
    BY <1>3 DEF CordonConflict
  <2> QED
    BY <2>1, <2>2
<1>4. ASSUME NEW n \in Nodes, ListPods(n) PROVE VictimsListed' /\ DrainedIsEmpty'
  <2>1. n \in cordoned /\ PodsOn(n) = {p \in Pods : podOn[p] = n}
    BY <1>4 DEF ListPods, PodsOn
  <2>2. CASE PodsOn(n) = {}
    BY <1>4, <2>1, <2>2 DEF ListPods, DrainReturns, Goto
  <2>3. CASE PodsOn(n) # {}
    <3>1. /\ worker' = [worker EXCEPT ![n] = "evict"]
          /\ victims' = [victims EXCEPT ![n] = PodsOn(n)]
          /\ UNCHANGED <<podOn, cordoned, target, result>>
      BY <1>4, <2>3 DEF ListPods, Goto
    <3> QED
      BY <1>4, <2>1, <3>1 DEF ListPods
  <2> QED
    BY <2>2, <2>3
<1>5. ASSUME NEW n \in Nodes, NEW p \in Pods, EvictPod(n, p)
      PROVE  VictimsListed' /\ DrainedIsEmpty'
  <2>1. /\ \A m \in Nodes, q \in Pods : podOn'[q] = m => podOn[q] = m
        /\ podOn'[p] # n
    BY <1>5, DrainAssumption DEF EvictPod
  <2>2. CASE victims[n] = {p}
    <3>1. /\ worker' = [worker EXCEPT ![n] = "answer"]
          /\ result' = [result EXCEPT ![n] = "ok"]
          /\ victims' = [victims EXCEPT ![n] = @ \ {p}]
          /\ UNCHANGED <<cordoned, target>>
      BY <1>5, <2>2 DEF EvictPod, DrainReturns, Goto
    <3>2. n \in cordoned /\ \A q \in Pods : podOn'[q] # n
      BY <1>5, <2>1, <2>2 DEF EvictPod
    <3> QED
      BY <2>1, <3>1, <3>2
  <2>3. CASE victims[n] # {p}
    <3>1. /\ UNCHANGED <<worker, result, cordoned, target>>
          /\ victims' = [victims EXCEPT ![n] = @ \ {p}]
      BY <1>5, <2>3 DEF EvictPod
    <3> QED
      BY <2>1, <3>1
  <2> QED
    BY <2>2, <2>3
<1>6. ASSUME NEW n \in Nodes, DrainFails(n) PROVE VictimsListed' /\ DrainedIsEmpty'
  BY <1>6 DEF DrainFails, DrainReturns, Goto
<1>7. ASSUME NEW n \in Nodes, Answer(n) PROVE VictimsListed' /\ DrainedIsEmpty'
  BY <1>7 DEF Answer, Goto
<1>8. ASSUME NEW p \in Pods, Schedule(p) PROVE VictimsListed' /\ DrainedIsEmpty'
  <2>1. \A m \in cordoned, q \in Pods : podOn'[q] = m => podOn[q] = m
    BY <1>8, DrainAssumption DEF Schedule
  <2> QED
    BY <1>8, <2>1 DEF Schedule
<1>9. CASE \/ \E n \in Nodes : DeleteVM(n) \/ Touch(n)
           \/ Receive
           \/ UNCHANGED vars
  BY <1>9 DEF DeleteVM, Touch, Receive, vars
<1> QED
  BY <1>1, <1>2, <1>3, <1>4, <1>5, <1>6, <1>7, <1>8, <1>9, NextCases

LEMMA ErrorStep ==
  ASSUME TypeOK, DrainedIsEmpty, DeletesDrained, ErrorIsKnown, [Next]_vars
  PROVE  ErrorIsKnown'
<1> USE DEF kubernetes, channel, caller, At, ErrorIsKnown
<1>1. ASSUME NEW n \in Nodes, GetNode(n) \/ Cordon(n) \/ CordonConflict(n)
      PROVE  ErrorIsKnown'
  BY <1>1 DEF GetNode, Cordon, CordonConflict, Goto, TypeOK
<1>2. ASSUME NEW n \in Nodes, ListPods(n) PROVE ErrorIsKnown'
  BY <1>2 DEF ListPods, DrainReturns, Goto, TypeOK
<1>3. ASSUME NEW n \in Nodes, NEW p \in Pods, EvictPod(n, p) PROVE ErrorIsKnown'
  BY <1>3 DEF EvictPod, DrainReturns, Goto, TypeOK
<1>4. ASSUME NEW n \in Nodes, DrainFails(n) PROVE ErrorIsKnown'
  BY <1>4 DEF DrainFails, DrainReturns, Goto, TypeOK
<1>5. ASSUME NEW n \in Nodes, Answer(n) PROVE ErrorIsKnown'
  <2>1. worker' = [worker EXCEPT ![n] = "done"] /\ UNCHANGED <<result, pc>>
    BY <1>5 DEF Answer, Goto
  <2>2. CASE closed
    <3>1. pc = "error" \/ \A m \in Nodes : worker[m] = "done"
      BY <2>2 DEF DeletesDrained, TypeOK
    <3>2. pc = "error"
      BY <1>5, <3>1 DEF Answer
    <3> QED
      BY <2>1, <3>2
  <2>3. CASE ~closed
    <3>1. errChan' = Append(errChan, result[n]) /\ errChan \in Seq(Results)
          /\ result[n] \in Results
      BY <1>5, <2>3 DEF Answer, Answers, TypeOK
    <3>2. \A i \in DOMAIN errChan : i \in DOMAIN errChan' /\ errChan'[i] = errChan[i]
      BY <3>1
    <3>3. Len(errChan) + 1 \in DOMAIN errChan' /\ errChan'[Len(errChan) + 1] = result[n]
      BY <3>1
    <3> QED
      BY <2>1, <3>2, <3>3 DEF TypeOK
  <2> QED
    BY <2>2, <2>3
<1>6. CASE Receive
  <2>1. errChan \in Seq(Results) /\ errChan # <<>> /\ errChan' = Tail(errChan)
        /\ UNCHANGED <<worker, result>>
    BY <1>6 DEF Receive, TypeOK
  <2>2. CASE Head(errChan) = "error"
    BY <1>6, <2>1, <2>2 DEF Receive, EndsDraining
  <2>3. CASE Head(errChan) # "error"
    <3>1. ASSUME NEW i \in DOMAIN errChan, errChan[i] = "error"
          PROVE  i - 1 \in DOMAIN errChan' /\ errChan'[i - 1] = "error"
      BY <2>1, <2>3, <3>1
    <3>2. pc # "error"
      BY <1>6 DEF Receive
    <3> QED
      BY <2>1, <3>1, <3>2
  <2> QED
    BY <2>2, <2>3
<1>7. CASE \/ \E n \in Nodes : DeleteVM(n) \/ Touch(n)
           \/ \E p \in Pods : Schedule(p)
           \/ UNCHANGED vars
  BY <1>7 DEF DeleteVM, Touch, Schedule, vars
<1> QED
  BY <1>1, <1>2, <1>3, <1>4, <1>5, <1>6, <1>7, NextCases

\* The answer that completes the count is the last, and no goroutine has failed.
LEMMA LastAnswer ==
  ASSUME TypeInv, DrainedIsEmpty, ErrorIsKnown, Receive, pc' = "delete"
  PROVE  \A n \in Nodes : worker[n] = "done" /\ result[n] = "ok"
<1>1. /\ pc = "drain"
      /\ Head(errChan) # "error"
      /\ received + 1 = Cardinality(Nodes)
      /\ errChan \in Seq(Results) /\ errChan # <<>>
  BY DEF Receive, EndsDraining, TypeInv, TypeOK
<1>2. Len(errChan) + received <= Cardinality(Done) /\ received \in Int
  BY NodesType DEF TypeInv, AnsweredOnce, TypeOK
<1>3. Len(errChan) = 1 /\ Cardinality(Done) = Cardinality(Nodes)
  <2>1. Len(errChan) \in Nat /\ Len(errChan) # 0
    BY <1>1
  <2>2. Cardinality(Done) \in Nat /\ Cardinality(Done) <= received + 1
    BY <1>1, DoneBound
  <2>3. Len(errChan) = 1 /\ Cardinality(Done) = received + 1
    <3>1. ASSUME NEW l \in Nat, NEW r \in Int, NEW d \in Nat,
                 l # 0, l + r <= d, d <= r + 1
          PROVE  l = 1 /\ d = r + 1
      BY <3>1
    <3> QED
      BY <1>2, <2>1, <2>2, <3>1
  <2> QED
    BY <1>1, <2>3
<1>4. \A n \in Nodes : worker[n] = "done" /\ result[n] \in {"ok", "error"}
  BY <1>3, DoneBound DEF Done, DrainedIsEmpty
<1>5. \A i \in DOMAIN errChan : errChan[i] # "error"
  BY <1>1, <1>3
<1> QED
  BY <1>1, <1>4, <1>5 DEF ErrorIsKnown

LEMMA DeletesStep ==
  ASSUME TypeInv, DrainedIsEmpty, ErrorIsKnown, DeletesDrained, [Next]_vars
  PROVE  DeletesDrained'
<1> USE DEF kubernetes, channel, caller, At, DeletesDrained
<1>0. TypeOK
  BY DEF TypeInv
<1>1. ASSUME NEW n \in Nodes, worker[n] # "done", UNCHANGED <<closed, pc>>
      PROVE  DeletesDrained'
  BY <1>1
<1>2. ASSUME NEW n \in Nodes,
             \/ GetNode(n) \/ Cordon(n) \/ CordonConflict(n) \/ ListPods(n)
             \/ \E p \in Pods : EvictPod(n, p)
             \/ DrainFails(n) \/ Answer(n)
      PROVE  worker[n] # "done" /\ UNCHANGED <<closed, pc>>
  BY <1>2
  DEF GetNode, Cordon, CordonConflict, ListPods, EvictPod, DrainFails, Answer
<1>3. CASE Receive
  <2>1. closed' = (pc' # "drain") /\ UNCHANGED <<worker, result>>
    BY <1>3 DEF Receive
  <2>2. pc' \in {"error", "delete", "drain"}
    BY <1>3 DEF Receive
  <2>3. CASE pc' = "delete"
    BY <1>3, <2>1, <2>3, LastAnswer
  <2>4. CASE pc' # "delete"
    BY <2>1, <2>2, <2>4
  <2> QED
    BY <2>3, <2>4
<1>4. ASSUME NEW n \in Nodes, DeleteVM(n) PROVE DeletesDrained'
  BY <1>4 DEF DeleteVM
<1>5. CASE \/ \E n \in Nodes : Touch(n)
           \/ \E p \in Pods : Schedule(p)
           \/ UNCHANGED vars
  BY <1>5 DEF Touch, Schedule, vars
<1> QED
  BY <1>1, <1>2, <1>3, <1>4, <1>5, NextCases

LEMMA PodsStep ==
  ASSUME TypeOK, DrainedIsEmpty, DeletesDrained, NoPodKilled, [Next]_vars
  PROVE  NoPodKilled'
<1> USE DEF kubernetes, channel, caller, At, NoPodKilled
<1>1. ASSUME NEW n \in Nodes, NEW p \in Pods, EvictPod(n, p) PROVE NoPodKilled'
  <2>1. UNCHANGED vms /\ \A q \in Pods : podOn'[q] \in {podOn[q], Unassigned}
    BY <1>1 DEF EvictPod, TypeOK
  <2> QED
    BY <2>1
<1>2. ASSUME NEW n \in Nodes, DeleteVM(n) PROVE NoPodKilled'
  <2>1. \A p \in Pods : podOn[p] # n
    BY <1>2 DEF DeleteVM, DeletesDrained, DrainedIsEmpty
  <2> QED
    BY <1>2, <2>1, Zenon DEF DeleteVM
<1>3. ASSUME NEW p \in Pods, Schedule(p) PROVE NoPodKilled'
  BY <1>3 DEF Schedule, TypeOK
<1>4. CASE \/ \E n \in Nodes : \/ GetNode(n) \/ Cordon(n) \/ CordonConflict(n)
                               \/ ListPods(n) \/ DrainFails(n) \/ Answer(n)
                               \/ Touch(n)
           \/ Receive
           \/ UNCHANGED vars
  <2>1. UNCHANGED <<podOn, vms>>
    BY <1>4 DEF GetNode, Cordon, CordonConflict, ListPods, DrainFails, Answer, Touch,
                Receive, vars
  <2> QED
    BY <2>1
<1> QED
  BY <1>1, <1>2, <1>3, <1>4, NextCases

\* With fewer changes to a node object than tries to cordon it, IInv is an
\* invariant.  It is what the two theorems below rest on.
THEOREM Drained ==
  ASSUME MaxTouches < CordonMaxRetries
  PROVE  Spec => []IInv
<1>1. IInv /\ [Next]_vars => IInv'
  <2> SUFFICES ASSUME IInv, [Next]_vars PROVE IInv'
    OBVIOUS
  <2>1. TypeInv /\ TypeOK
    BY DEF IInv, TypeInv
  <2>2. TypeInv'
    BY <2>1, TypeStep
  <2>3. ConflictsCounted'
    BY <2>1, ConflictsStep DEF IInv
  <2>4. VictimsListed' /\ DrainedIsEmpty'
    BY <2>1, VictimsStep DEF IInv
  <2>5. ErrorIsKnown'
    BY <2>1, ErrorStep DEF IInv
  <2>6. DeletesDrained'
    BY <2>1, DeletesStep DEF IInv
  <2>7. NoPodKilled'
    BY <2>1, PodsStep DEF IInv
  <2> QED
    BY <2>2, <2>3, <2>4, <2>5, <2>6, <2>7 DEF IInv
<1> QED
  BY <1>1, InitIInv, PTL DEF Spec

\* NoPodKilled of the run "drain": whatever the goroutines do at the same time,
\* scaleDownCluster deletes no VM that a pod could still be evicted from, as long
\* as a try to cordon succeeds.  The run "drain_MarkedUnschedulable" shows that
\* without this hypothesis a node is drained that is not cordoned.
THEOREM PodsSurvive ==
  ASSUME MaxTouches < CordonMaxRetries
  PROVE  Spec => []NoPodKilled
<1>1. IInv => NoPodKilled
  BY DEF IInv
<1> QED
  BY <1>1, Drained, PTL

\* MarkedUnschedulable: what SafelyDrainNodeWithClient logs is true when the
\* tries outnumber the changes.  The run of that name refutes it when they do not.
THEOREM CordonedInTime ==
  ASSUME MaxTouches < CordonMaxRetries
  PROVE  Spec => []MarkedUnschedulable
<1>1. IInv => MarkedUnschedulable
  BY DEF IInv, VictimsListed, MarkedUnschedulable
<1> QED
  BY <1>1, Drained, PTL

=============================================================================
