----------------------- MODULE AgentPoolScale_proofs -----------------------
(***************************************************************************)
(* Proofs about AgentPoolScale, for pools, limits and pages of any size.   *)
(*                                                                         *)
(* The argument: while a call runs, the set of VMs it means to leave has   *)
(* Aim members, and each of them is in the pool or lost; if the listing    *)
(* was exact there is nothing else in the pool, and nothing can be lost.   *)
(* Each conjunct of IInv says this for the part of the call it is named    *)
(* after.                                                                  *)
(***************************************************************************)
EXTENDS AgentPoolScale, FiniteSetTheorems, TLAPS

\* What ScaleVMAS returned: the highest index it saw, and 0 if it saw none.
Seen ==
  pc \in {"drain", "delete", "deploy", "wait"} =>
    /\ listed = {} => highest = 0
    /\ listed # {} => highest \in listed
    /\ \A i \in listed : i <= highest

\* Scaling down: what is kept has goal members.
Down ==
  pc \in {"drain", "delete"} =>
    /\ doomed \in SUBSET listed
    /\ Cardinality(listed \ doomed) = goal
    /\ listed \ doomed \subseteq vms \cup lost

DownDrain ==
  pc = "drain" =>
    /\ ~failed
    /\ exact => vms = listed /\ pending = {} /\ dying = {}

\* No deletion this call has got an answer for goes on, unless one failed.
DownDelete ==
  pc = "delete" =>
    /\ deleting \in SUBSET doomed
    /\ exact => pending = {}
    /\ ~failed => dying \cap doomed \subseteq deleting
    /\ exact /\ ~failed => vms = (listed \ doomed) \cup deleting /\ dying = {}

\* Scaling up: what was listed stays, what is missing comes from NewVMs.
Up ==
  pc \in {"deploy", "wait"} =>
    /\ doomed = {}
    /\ listed \subseteq vms \cup lost
    /\ Cardinality(listed) < goal

UpDeploy ==
  pc = "deploy" =>
    /\ ~failed
    /\ exact => vms = listed /\ pending = {} /\ dying = {} /\ lost = {}

UpWait ==
  pc = "wait" =>
    /\ ~failed => NewVMs \subseteq vms \cup lost \cup pending
    /\ exact => vms \cup pending \subseteq listed \cup NewVMs /\ dying = {} /\ lost = {}

\* Reporting success: SuccessIsEnough and SuccessIsExact, from the last
\* change of the pool on.
Done ==
  pc = "save" \/ outcome = "ok" =>
    /\ Cardinality(vms \cup lost) >= Aim
    /\ dying \cap doomed = {}
    /\ exact => Cardinality(vms) = Aim /\ pending = {} /\ dying = {}

\* While a call deletes, it counts on no VM it means to delete.
LostNotDoomed == pc = "delete" \/ pc = "drain" => lost \cap doomed = {}

Running ==
  /\ pc = "idle" <=> outcome # "working"
  /\ pc \in {"list", "save"} => ~failed
  /\ pc = "list" => lost = {}

IInv ==
  /\ TypeOK
  /\ NoRedeploy
  /\ Running
  /\ Seen
  /\ Down /\ DownDrain /\ DownDelete
  /\ Up /\ UpDeploy /\ UpWait
  /\ Done
  /\ LostNotDoomed

-----------------------------------------------------------------------------
(* Lemmas on the sets and numbers of the module. *)

\* Every set of VMs is finite, so its number of members is a number.
LEMMA FiniteIndices ==
  ASSUME NEW S \in SUBSET Indices
  PROVE  IsFiniteSet(S) /\ Cardinality(S) \in Nat
<1>1. IsFiniteSet(Indices)
  BY LimitsAssumption, FS_Interval DEF Indices
<1>2. QED
  BY <1>1, FS_Subset, FS_CardinalityType

\* A larger set of VMs does not have fewer members.
LEMMA CardinalityGrows ==
  ASSUME NEW S \in SUBSET Indices, NEW T \in SUBSET S
  PROVE  Cardinality(T) <= Cardinality(S)
  BY FiniteIndices, FS_Subset

\* The deployment adds VMs the call has not seen, and exactly as many as Aim
\* demands.  This is where the formula of setCountForTemplate is used, and where
\* its case highestUsedIndex = 0 needs VM 0 to be there.
LEMMA NewVMsComplete ==
  ASSUME TypeOK, listed = {} => highest = 0, listed # {} => highest \in listed,
         \A i \in listed : i <= highest, Cardinality(listed) < goal
  PROVE  /\ NewVMs \cap listed = {}
         /\ Cardinality(listed \cup NewVMs) = Aim
<1> DEFINE n == Cardinality(listed)
<1>1. /\ IsFiniteSet(listed) /\ n \in Nat
      /\ highest \in Nat /\ goal \in Nat
  BY FiniteIndices, LimitsAssumption DEF TypeOK, Indices
<1>2. CountForTemplate \in Int /\ Offset \in Int
  BY <1>1 DEF CountForTemplate, Offset, currentNodeCount
<1>3. CountForTemplate = highest + 1 + Aim - n
  <2>1. CASE highest # 0
    BY <2>1, <1>1 DEF CountForTemplate, currentNodeCount, Aim
  <2>2. CASE highest = 0 /\ listed # {}
    <3>1. listed = {0}
      <4>1. \A i \in listed : i \in Nat
        BY LimitsAssumption DEF TypeOK, Indices
      <4>2. \A i \in listed : i = 0
        BY <2>2, <4>1
      <4>3. 0 \in listed
        BY <2>2
      <4>4. QED
        BY <4>2, <4>3
    <3>2. n = 1
      BY <3>1, FS_Singleton
    <3>3. QED
      BY <2>2, <3>2, <1>1 DEF CountForTemplate, currentNodeCount, Aim
  <2>3. CASE listed = {}
    <3>1. n = 0
      BY <2>3, FS_EmptySet
    <3>2. QED
      BY <2>3, <3>1, <1>1 DEF CountForTemplate, currentNodeCount, Aim
  <2>4. QED
    BY <2>1, <2>2, <2>3
<1>4. Aim \in Int /\ n <= Aim
  <2>1. CASE listed = {}
    <3>1. n = 0
      BY <2>1, FS_EmptySet
    <3>2. QED
      BY <2>1, <3>1, <1>1 DEF Aim
  <2>2. CASE listed # {}
    BY <2>2, <1>1 DEF Aim
  <2>3. QED
    BY <2>1, <2>2
<1>5. IsFiniteSet(NewVMs) /\ Cardinality(NewVMs) = Aim - n
  <2> DEFINE a == Offset
             b == CountForTemplate - 1
  <2>1. a \in Int /\ b \in Int /\ b - a + 1 = Aim - n
    BY <1>1, <1>2, <1>3, <1>4 DEF Offset
  <2>2. /\ IsFiniteSet(a .. b)
        /\ Cardinality(a .. b) = IF a > b THEN 0 ELSE b - a + 1
    BY <2>1, FS_Interval
  <2>3. QED
    BY <1>1, <1>4, <2>1, <2>2 DEF NewVMs
<1>6. NewVMs \cap listed = {}
  BY <1>1, <1>2 DEF NewVMs, Offset
<1>7. Cardinality(listed \cup NewVMs) = n + (Aim - n) - 0
  BY <1>1, <1>5, <1>6, FS_Union, FS_EmptySet
<1>8. QED
  BY <1>1, <1>4, <1>6, <1>7

\* The template's limits keep the indices it creates within bounds.
LEMMA ParametersFit ==
  ASSUME TypeOK, ParametersAllowed
  PROVE  NewVMs \subseteq Indices
<1>1. highest \in Nat /\ CountLimit \in Nat
  BY LimitsAssumption DEF TypeOK, Indices
<1>2. CountForTemplate \in Int /\ CountForTemplate <= CountLimit
  BY <1>1, LimitsAssumption DEF ParametersAllowed
<1>3. QED
  BY <1>1, <1>2 DEF NewVMs, Offset, Indices

-----------------------------------------------------------------------------
(* The invariant is inductive. *)

LEMMA InitIInv == Init => IInv
<1> SUFFICES ASSUME Init PROVE IInv
  OBVIOUS
<1>1. recorded \in Nat /\ recorded >= 1 /\ recorded <= CountLimit
  BY LimitsAssumption DEF Init
<1>2. TypeOK
  <2>1. vms \in SUBSET Indices /\ highest \in Indices
    BY <1>1, LimitsAssumption DEF Init, Indices
  <2>2. QED
    BY <2>1 DEF Init, TypeOK
<1>3. Cardinality(vms) = recorded
  BY <1>1, FS_Interval DEF Init
<1>4. vms # {} /\ vms \cup lost = vms
  BY <1>1 DEF Init
<1>5. QED
  BY <1>1, <1>2, <1>3, <1>4
  DEF Init, IInv, NoRedeploy, Running, LostNotDoomed, Seen, Down,
      DownDrain, DownDelete, Up, UpDeploy, UpWait, Done, Aim

\* What NewVMs is made of does not change after the listing.
LEMMA NewVMsStable ==
  ASSUME UNCHANGED <<goal, listed, highest>>
  PROVE  NewVMs' = NewVMs /\ Aim' = Aim
BY DEF NewVMs, Offset, CountForTemplate, currentNodeCount, Aim

LEMMA ListVMsIInv == IInv /\ ListVMs => IInv'
<1> SUFFICES ASSUME IInv, ListVMs PROVE IInv'
  OBVIOUS
<1> USE DEF IInv
<1> PICK page \in FirstPage : \E h \in page \cup {0} :
       /\ \A i \in page : i <= h
       /\ listed' = page
       /\ highest' = h
       /\ exact' = (page = vms /\ pending = {} /\ dying = {})
  BY DEF ListVMs
<1>1. PICK h \in page \cup {0} :
        /\ \A i \in page : i <= h
        /\ listed' = page
        /\ highest' = h
        /\ exact' = (page = vms /\ pending = {} /\ dying = {})
  OBVIOUS
<1>2. page \in SUBSET vms
  BY <1>1 DEF FirstPage
<1>3. page \in SUBSET Indices /\ vms \in SUBSET Indices
  BY <1>2 DEF TypeOK
<1>4. /\ page = {} => h = 0
      /\ page # {} => h \in page
  <2>1. \A i \in page : i \in Int /\ i >= 0
    BY <1>3, LimitsAssumption DEF Indices
  <2>2. CASE h = 0 /\ page # {}
    <3>1. PICK i \in page : TRUE
      BY <2>2
    <3>2. i = 0
      BY <1>1, <2>1, <2>2, <3>1
    <3>3. QED
      BY <2>2, <3>1, <3>2
  <2>3. QED
    BY <1>1, <2>2
<1>5. /\ IsFiniteSet(page) /\ Cardinality(page) \in Nat
      /\ IsFiniteSet(vms) /\ Cardinality(vms) \in Nat
      /\ goal \in Nat /\ goal >= 1
  BY <1>3, FiniteIndices, LimitsAssumption DEF TypeOK
<1>6. ~failed /\ pc = "list" /\ outcome = "working" /\ lost = {}
  BY DEF ListVMs, Running, LostNotDoomed, TypeOK
<1>7. /\ UNCHANGED <<vms, pending, dying, recorded, goal, deleting, failed, lost>>
      /\ exact' \in BOOLEAN
      /\ exact' => page = vms /\ pending = {} /\ dying = {}
  BY <1>1 DEF ListVMs, azure
<1>8. NoRedeploy'
  BY <1>1, <1>7 DEF NoRedeploy
<1>9. CASE Cardinality(page) = goal /\ pc' = "idle" /\ outcome' = "ok" /\ doomed' = {}
  <2>1. TypeOK'
    BY <1>1, <1>3, <1>4, <1>7, <1>9 DEF TypeOK
  <2>2. Cardinality(vms) >= goal
    BY <1>2, <1>3, <1>9, CardinalityGrows
  <2>3. page # {}
    BY <1>5, <1>9, FS_EmptySet
  <2>4. Aim' = goal /\ vms' \cup lost' = vms
    BY <1>1, <1>6, <1>7, <2>3 DEF Aim
  <2>5. Done'
    BY <1>1, <1>7, <1>9, <2>2, <2>4 DEF Done
  <2>6. QED
    BY <1>8, <1>9, <2>1, <2>5
    DEF Running, LostNotDoomed, Seen, Down, DownDrain, DownDelete, Up, UpDeploy, UpWait
<1>10. CASE /\ Cardinality(page) > goal
            /\ doomed' \in vmsToDeleteList(page)
            /\ pc' = "drain" /\ outcome' = outcome
  <2>1. doomed' \in SUBSET page /\ Cardinality(doomed') = Cardinality(page) - goal
    BY <1>10 DEF vmsToDeleteList
  <2>2. TypeOK'
    BY <1>1, <1>3, <1>4, <1>7, <1>10, <2>1 DEF TypeOK
  <2>3. Cardinality(page \ doomed') = goal
    <3>1. page \cap doomed' = doomed'
      BY <2>1
    <3>2. Cardinality(page \ doomed') = Cardinality(page) - Cardinality(doomed')
      BY <1>5, <3>1, FS_Difference
    <3>3. QED
      BY <1>5, <2>1, <3>2
  <2>4. Seen' /\ Down' /\ DownDrain'
    BY <1>1, <1>2, <1>4, <1>6, <1>7, <1>10, <2>1, <2>3
    DEF Seen, Down, DownDrain
  <2>5. QED
    BY <1>6, <1>7, <1>8, <1>10, <2>2, <2>4
    DEF Running, LostNotDoomed, DownDelete, Up, UpDeploy, UpWait, Done
<1>11. CASE /\ Cardinality(page) < goal
            /\ doomed' = {}
            /\ pc' = "deploy" /\ outcome' = outcome
  <2>1. TypeOK'
    BY <1>1, <1>3, <1>4, <1>7, <1>11 DEF TypeOK
  <2>2. Seen' /\ Up' /\ UpDeploy'
    BY <1>1, <1>2, <1>4, <1>6, <1>7, <1>11 DEF Seen, Up, UpDeploy
  <2>3. QED
    BY <1>6, <1>8, <1>11, <2>1, <2>2
    DEF Running, LostNotDoomed, Down, DownDrain, DownDelete, UpWait, Done
<1>12. QED
  BY <1>1, <1>9, <1>10, <1>11 DEF ListVMs, Return

\* A deletion, successful or not, takes away at most a doomed VM; if it is not
\* over when it fails, the call fails.
LEMMA DeletionIInv ==
  ASSUME IInv, NEW i \in Indices, DeleteVM(i) \/ DeleteFails(i)
  PROVE  IInv'
<1> USE DEF IInv, DeleteVM, DeleteFails, Gone, view
<1>1. /\ pc = "delete" /\ pc' = pc
      /\ i \in deleting /\ deleting' = deleting \ {i}
      /\ vms' \in {vms, vms \ {i}}
      /\ failed' \in BOOLEAN
      /\ failed' = FALSE => failed = FALSE /\ vms' = vms \ {i} /\ dying' = dying \ {i}
      /\ dying' \in SUBSET vms'
      /\ UNCHANGED <<pending, recorded, goal, listed, highest, doomed, exact, outcome, lost>>
  BY DEF TypeOK
<1>2. TypeOK'
  BY <1>1 DEF TypeOK
<1>3. i \in doomed /\ deleting \in SUBSET doomed
  BY <1>1 DEF DownDelete
<1>4. listed \ doomed \subseteq vms' \cup lost
  BY <1>1, <1>3 DEF Down
<1>5. NoRedeploy'
  BY <1>1 DEF NoRedeploy
<1>6. Seen' /\ Down'
  BY <1>1, <1>4 DEF Seen, Down
<1>7. DownDelete'
  <2>1. CASE failed'
    BY <1>1, <1>3, <2>1 DEF DownDelete
  <2>2. CASE ~failed'
    <3>1. /\ ~failed /\ vms' = vms \ {i} /\ dying' = dying \ {i}
      BY <1>1, <2>2
    <3>2. dying' \cap doomed' \subseteq deleting'
      BY <1>1, <3>1 DEF DownDelete
    <3>3. exact => vms' = (listed \ doomed) \cup deleting' /\ dying' = {}
      BY <1>1, <1>3, <3>1 DEF DownDelete
    <3>4. QED
      BY <1>1, <1>3, <3>2, <3>3 DEF DownDelete
  <2>3. QED
    BY <2>1, <2>2
<1>8. QED
  BY <1>1, <1>2, <1>5, <1>6, <1>7
  DEF Running, LostNotDoomed, DownDrain, Up, UpDeploy, UpWait, Done

\* The answers are in: what is left is what was to be kept, and perhaps more.
LEMMA DeletionsAnsweredIInv == IInv /\ DeletionsAnswered => IInv'
<1> SUFFICES ASSUME IInv, DeletionsAnswered PROVE IInv'
  OBVIOUS
<1> USE DEF IInv, DeletionsAnswered, Return, azure, view
<1>1. /\ pc = "delete" /\ deleting = {}
      /\ UNCHANGED <<vms, pending, dying, recorded, goal, listed, highest, doomed,
                     exact, deleting, failed, lost>>
  OBVIOUS
<1>2. /\ failed => pc' = "idle" /\ outcome' = "error"
      /\ ~failed => pc' = "save" /\ outcome' = outcome
  OBVIOUS
<1>3. TypeOK'
  BY <1>1, <1>2 DEF TypeOK
<1>4. Cardinality(vms \cup lost) >= goal
  <2>1. listed \ doomed \in SUBSET (vms \cup lost) /\ vms \cup lost \in SUBSET Indices
    BY <1>1 DEF Down, TypeOK
  <2>2. QED
    BY <1>1, <2>1, CardinalityGrows DEF Down
<1>5. exact /\ ~failed => Cardinality(vms) = goal /\ pending = {} /\ dying = {}
  BY <1>1 DEF Down, DownDelete
<1>6. Aim' = goal
  <2>1. goal # 0 /\ Cardinality(listed \ doomed) = goal
    BY <1>1, LimitsAssumption DEF Down, TypeOK
  <2>2. listed # {}
    <3>1. SUFFICES ASSUME listed = {} PROVE FALSE
      OBVIOUS
    <3>2. listed \ doomed = {}
      BY <3>1
    <3>3. QED
      BY <2>1, <3>2, FS_EmptySet
  <2>3. QED
    BY <1>1, <2>2 DEF Aim
<1>7. Done'
  <2>1. CASE failed
    BY <1>1, <1>2, <2>1 DEF Done
  <2>2. CASE ~failed
    BY <1>1, <1>2, <1>4, <1>5, <1>6, <2>2 DEF Done, DownDelete
  <2>3. QED
    BY <2>1, <2>2
<1>8. outcome = "working"
  BY <1>1 DEF Running, LostNotDoomed, TypeOK
<1>9. QED
  BY <1>1, <1>2, <1>3, <1>7, <1>8
  DEF NoRedeploy, Running, LostNotDoomed, Seen, Down, DownDrain, DownDelete,
      Up, UpDeploy, UpWait

\* The deployment ARM accepts names no VM of an exact listing.
LEMMA StartDeploymentIInv == IInv /\ StartDeployment => IInv'
<1> SUFFICES ASSUME IInv, StartDeployment PROVE IInv'
  OBVIOUS
<1> USE DEF IInv, StartDeployment, view
<1>1. /\ pc = "deploy" /\ pc' = "wait" /\ pending = {} /\ pending' = NewVMs
      /\ UNCHANGED <<vms, dying, recorded, goal, listed, highest, doomed, exact,
                     deleting, failed, outcome, lost>>
  OBVIOUS
<1>2. TypeOK'
  BY <1>1, ParametersFit DEF TypeOK
<1>3. NewVMs \cap listed = {}
  BY <1>1, NewVMsComplete DEF Seen, Up
<1>4. NewVMs' = NewVMs
  BY <1>1, NewVMsStable
<1>5. NoRedeploy'
  BY <1>1, <1>3 DEF NoRedeploy, UpDeploy
<1>6. UpWait'
  BY <1>1, <1>4 DEF UpWait, UpDeploy
<1>7. QED
  BY <1>1, <1>2, <1>5, <1>6
  DEF Running, LostNotDoomed, Seen, Down, DownDrain, DownDelete, Up,
      UpDeploy, Done

\* All VMs of the deployment are there: the pool has what was asked for.
LEMMA DeploymentSucceededIInv == IInv /\ DeploymentSucceeded => IInv'
<1> SUFFICES ASSUME IInv, DeploymentSucceeded PROVE IInv'
  OBVIOUS
<1> USE DEF IInv, DeploymentSucceeded, azure, view
<1>1. /\ pc = "wait" /\ pc' = "save" /\ pending = {} /\ ~failed
      /\ UNCHANGED <<vms, pending, dying, recorded, goal, listed, highest, doomed,
                     exact, deleting, failed, outcome, lost>>
  OBVIOUS
<1>2. TypeOK'
  BY <1>1 DEF TypeOK
<1>3. /\ listed \cup NewVMs \in SUBSET (vms \cup lost)
      /\ vms \cup lost \in SUBSET Indices
  BY <1>1 DEF Up, UpWait, TypeOK
<1>4. Cardinality(listed \cup NewVMs) = Aim /\ Aim' = Aim
  BY <1>1, NewVMsComplete, NewVMsStable DEF Seen, Up
<1>5. Cardinality(vms \cup lost) >= Aim
  BY <1>3, <1>4, CardinalityGrows
<1>6. exact => vms = listed \cup NewVMs
  BY <1>1, <1>3 DEF UpWait
<1>7. Done'
  BY <1>1, <1>4, <1>5, <1>6 DEF Done, Up, UpWait
<1>8. outcome = "working"
  BY <1>1 DEF Running, LostNotDoomed, TypeOK
<1>9. QED
  BY <1>1, <1>2, <1>7, <1>8
  DEF NoRedeploy, Running, LostNotDoomed, Seen, Down, DownDrain, DownDelete,
      Up, UpDeploy, UpWait

\* A VM a deployment creates may come at any time, during any later call.
LEMMA CreateVMIInv ==
  ASSUME IInv, NEW i \in Indices, CreateVM(i)
  PROVE  IInv'
<1> USE DEF IInv, CreateVM, view
<1>1. /\ i \in pending /\ pending' = pending \ {i} /\ vms' = vms \cup {i}
      /\ UNCHANGED <<dying, recorded, pc, goal, listed, highest, doomed, exact,
                     deleting, failed, outcome, lost>>
  OBVIOUS
<1>2. TypeOK'
  BY <1>1 DEF TypeOK
<1>3. NoRedeploy'
  BY <1>1 DEF NoRedeploy
<1>4. Seen' /\ Down' /\ DownDrain' /\ DownDelete'
  BY <1>1 DEF Seen, Down, DownDrain, DownDelete
<1>5. Up' /\ UpDeploy'
  BY <1>1 DEF Up, UpDeploy
<1>6. UpWait'
  <2>1. NewVMs' = NewVMs
    BY <1>1, NewVMsStable
  <2>2. QED
    BY <1>1, <2>1 DEF UpWait
<1>7. Done'
  <2> DEFINE held == vms \cup lost
  <2>1. held \in SUBSET held' /\ held' \in SUBSET Indices /\ held \in SUBSET Indices
    BY <1>1, <1>2 DEF TypeOK
  <2>2. Cardinality(held) <= Cardinality(held')
    BY <2>1, CardinalityGrows
  <2>3. Cardinality(held) \in Nat /\ Cardinality(held') \in Nat /\ Aim \in Int
    BY <2>1, FiniteIndices, LimitsAssumption DEF TypeOK, Aim
  <2>4. pending # {} /\ Aim' = Aim
    BY <1>1, NewVMsStable
  <2>5. QED
    BY <1>1, <2>2, <2>3, <2>4 DEF Done
<1>8. QED
  BY <1>1, <1>2, <1>3, <1>4, <1>5, <1>6, <1>7 DEF Running, LostNotDoomed

LEMMA DeploymentFailsIInv == IInv /\ DeploymentFails => IInv'
<1> SUFFICES ASSUME IInv, DeploymentFails PROVE IInv'
  OBVIOUS
<1> USE DEF IInv, DeploymentFails, view
<1>1. /\ pending' = {}
      /\ pc = "wait" => failed'
      /\ pc # "wait" => failed' = failed
      /\ failed' \in BOOLEAN
      /\ UNCHANGED <<vms, dying, recorded, pc, goal, listed, highest, doomed, exact,
                     deleting, outcome, lost>>
  BY DEF TypeOK
<1>2. TypeOK'
  BY <1>1 DEF TypeOK
<1>3. NewVMs' = NewVMs /\ Aim' = Aim
  BY <1>1, NewVMsStable
<1>4. UpWait' /\ Done'
  BY <1>1, <1>3 DEF UpWait, Done
<1>5. QED
  BY <1>1, <1>2, <1>4
  DEF NoRedeploy, Running, LostNotDoomed, Seen, Down, DownDrain, DownDelete,
      Up, UpDeploy, Done

\* A VM that dies behind the call's back is lost to it, unless it was to be
\* deleted anyway.  A call that has succeeded has none of those left.
LEMMA VMVanishesIInv ==
  ASSUME IInv, NEW i \in Indices, VMVanishes(i)
  PROVE  IInv'
<1> USE DEF IInv, VMVanishes, Gone, view
<1>1. /\ i \in dying /\ vms' = vms \ {i} /\ dying' = dying \ {i}
      /\ lost' = IF pc = "list" THEN lost ELSE lost \cup ({i} \ doomed)
      /\ UNCHANGED <<pending, recorded, pc, goal, listed, highest, doomed, exact,
                     deleting, failed, outcome>>
  OBVIOUS
<1>2. TypeOK'
  BY <1>1 DEF TypeOK
<1>3. NewVMs' = NewVMs /\ Aim' = Aim
  BY <1>1, NewVMsStable
<1>4. Seen' /\ NoRedeploy' /\ Running' /\ LostNotDoomed'
  BY <1>1 DEF Seen, NoRedeploy, Running, LostNotDoomed
<1>5. Down' /\ DownDrain' /\ DownDelete'
  BY <1>1 DEF Down, DownDrain, DownDelete
<1>6. Up' /\ UpDeploy' /\ UpWait'
  BY <1>1, <1>3 DEF Up, UpDeploy, UpWait
<1>7. Done'
  <2>1. SUFFICES ASSUME pc = "save" \/ outcome = "ok" PROVE Done'
    BY <1>1 DEF Done
  <2>2. i \notin doomed /\ pc # "list"
    BY <1>1, <2>1 DEF Done, Running
  <2>3. vms' \cup lost' = vms \cup lost
    BY <1>1, <2>2 DEF TypeOK
  <2>4. QED
    BY <1>1, <1>3, <2>1, <2>3 DEF Done
<1>8. QED
  BY <1>2, <1>4, <1>5, <1>6, <1>7

LEMMA VMSurvivesIInv ==
  ASSUME IInv, NEW i \in Indices, VMSurvives(i)
  PROVE  IInv'
<1> USE DEF IInv, VMSurvives, view
<1>1. NewVMs' = NewVMs /\ Aim' = Aim
  BY NewVMsStable
<1>2. QED
  BY <1>1 DEF TypeOK, NoRedeploy, Running, LostNotDoomed, Seen, Down, DownDrain, DownDelete, Up,
              UpDeploy, UpWait, Done

LEMMA NextIInv == IInv /\ [Next]_vars => IInv'
<1> SUFFICES ASSUME IInv, [Next]_vars PROVE IInv'
  OBVIOUS
<1>1. ASSUME NEW count \in 1 .. MaxAgents, Scale(count) PROVE IInv'
  BY <1>1 DEF IInv, TypeOK, Scale, azure, view, NoRedeploy,
              Running, LostNotDoomed, Seen, Down, DownDrain, DownDelete, Up, UpDeploy, UpWait,
              Done
<1>2. CASE ListVMs
  BY <1>2, ListVMsIInv
<1>3. CASE DrainNodes
  BY <1>3 DEF IInv, TypeOK, DrainNodes, azure, view, NoRedeploy, Running, LostNotDoomed, Seen, Down, DownDrain, DownDelete, Up,
              UpDeploy, UpWait, Done
<1>4. ASSUME NEW i \in Indices, DeleteVM(i) \/ DeleteFails(i) PROVE IInv'
  BY <1>4, DeletionIInv
<1>5. CASE DeletionsAnswered
  BY <1>5, DeletionsAnsweredIInv
<1>6. CASE StartDeployment
  BY <1>6, StartDeploymentIInv
<1>7. CASE DeploymentSucceeded
  BY <1>7, DeploymentSucceededIInv
<1>8. CASE WaitFails \/ CallFails
  BY <1>8 DEF IInv, TypeOK, WaitFails, CallFails, Return, azure, view,
              NoRedeploy, Running, LostNotDoomed, Seen, Down, DownDrain,
              DownDelete, Up, UpDeploy, UpWait, Done
<1>9. CASE SaveScaledApimodel
  BY <1>9, NewVMsStable DEF IInv, TypeOK, SaveScaledApimodel, Return, azure, view,
              NoRedeploy, Running, LostNotDoomed, Seen, Down, DownDrain,
              DownDelete, Up, UpDeploy, UpWait, Done
<1>10. ASSUME NEW i \in Indices, CreateVM(i) PROVE IInv'
  BY <1>10, CreateVMIInv
<1>11. CASE DeploymentFails
  BY <1>11, DeploymentFailsIInv
<1>12. CASE UNCHANGED vars
  <2>1. NewVMs' = NewVMs /\ Aim' = Aim
    BY <1>12, NewVMsStable DEF vars, view
  <2>2. QED
    BY <1>12, <2>1
    DEF IInv, TypeOK, vars, azure, view, NoRedeploy, Running, LostNotDoomed,
        Seen, Down, DownDrain, DownDelete, Up, UpDeploy, UpWait, Done
<1>13. ASSUME NEW i \in Indices, VMVanishes(i) \/ VMSurvives(i) PROVE IInv'
  BY <1>13, VMVanishesIInv, VMSurvivesIInv
<1>14. QED
  BY <1>1, <1>2, <1>3, <1>4, <1>5, <1>6, <1>7, <1>8, <1>9, <1>10, <1>11, <1>12, <1>13
  DEF Next, CallStep

-----------------------------------------------------------------------------
(* Theorems. *)

LEMMA Invariant == Spec => []IInv
BY InitIInv, NextIInv, PTL DEF Spec

\* Type correctness: whatever fails, the VMs of the pool and of a deployment
\* keep indices the template's parameters can express.
THEOREM TypeCorrect == Spec => []TypeOK
<1>1. IInv => TypeOK
  BY DEF IInv
<1>2. QED
  BY <1>1, Invariant, PTL

\* Only a deletion that outlives its call empties a pool: a step of a call that
\* takes the last VM finds that one of those it was to leave has been lost.
THEOREM EmptiedOnlyLate == Spec => EmptiedLate
<1>1. IInv /\ [Next]_vars =>
        [vms # {} /\ vms' = {} => lost # {} \/ vms \subseteq dying]_vars
  <2>1. SUFFICES ASSUME IInv, Next, vms # {}, vms' = {}
                 PROVE  lost # {} \/ vms \subseteq dying
    OBVIOUS
  <2>2. ASSUME NEW i \in Indices, DeleteVM(i) \/ DeleteFails(i)
        PROVE  lost # {}
    <3>1. /\ pc = "delete" /\ i \in doomed
          /\ vms' \in {vms, vms \ {i}}
      <4>1. pc = "delete" /\ i \in deleting /\ vms' \in {vms, vms \ {i}}
        BY <2>2 DEF DeleteVM, DeleteFails, Gone
      <4>2. DownDelete
        BY <2>1 DEF IInv
      <4>3. QED
        BY <4>1, <4>2 DEF DownDelete
    <3>2. listed \ doomed \subseteq lost
      BY <2>1, <3>1 DEF IInv, Down
    <3>3. Cardinality(listed \ doomed) # 0
      <4>1. Cardinality(listed \ doomed) = goal
        BY <2>1, <3>1 DEF IInv, Down
      <4>2. goal # 0
        BY <2>1, LimitsAssumption DEF IInv, TypeOK
      <4>3. QED
        BY <4>1, <4>2
    <3>4. QED
      BY <3>2, <3>3, FS_EmptySet
  <2>3. ASSUME NEW i \in Indices, VMVanishes(i)
        PROVE  vms \subseteq dying
    BY <2>1, <2>3 DEF VMVanishes, Gone
  <2>4. \/ \E i \in Indices : DeleteVM(i) \/ DeleteFails(i)
        \/ \E i \in Indices : VMVanishes(i)
    <3>1. vms' # vms
      BY <2>1
    <3>2. \A i \in Indices : ~CreateVM(i) /\ ~VMSurvives(i)
      BY <2>1 DEF CreateVM, VMSurvives
    <3>3. QED
      BY <2>1, <3>1, <3>2
      DEF Next, CallStep, Scale, ListVMs, DrainNodes, DeletionsAnswered,
          StartDeployment, DeploymentSucceeded, WaitFails, SaveScaledApimodel,
          CallFails, DeploymentFails, azure
  <2>5. QED
    BY <2>2, <2>3, <2>4
<1>2. QED
  BY <1>1, Invariant, PTL DEF Spec, EmptiedLate

\* scaleCluster returns no error only with the agents it aims for in the pool, or
\* lost to a deletion that outlived an earlier call.
THEOREM SuccessSufficient == Spec => []SuccessIsEnough
<1>1. IInv => SuccessIsEnough
  BY DEF IInv, Done, SuccessIsEnough
<1>2. QED
  BY <1>1, Invariant, PTL

\* After a listing of the whole pool at rest, success means exactly that number.
THEOREM SuccessExact == Spec => []SuccessIsExact
<1>1. IInv => SuccessIsExact
  BY DEF IInv, Done, SuccessIsExact
<1>2. QED
  BY <1>1, Invariant, PTL

\* After such a listing, no deployment names a VM that exists.
THEOREM NeverRedeploys == Spec => []NoRedeploy
<1>1. IInv => NoRedeploy
  BY DEF IInv
<1>2. QED
  BY <1>1, Invariant, PTL

-----------------------------------------------------------------------------
(* Every step is a step of PoolPromise or leaves its variables alone. *)

\* The numbers the promise is about.
LEMMA Numbers ==
  ASSUME IInv
  PROVE  /\ Cardinality(vms) \in Nat /\ Cardinality(dying) \in Nat
         /\ Cardinality(lost \ vms) \in Nat
         /\ IsFiniteSet(vms) /\ IsFiniteSet(dying) /\ IsFiniteSet(lost \ vms)
         /\ Cardinality(vms \cup lost) = Cardinality(vms) + Cardinality(lost \ vms)
<1>1. vms \in SUBSET Indices /\ dying \in SUBSET Indices /\ lost \ vms \in SUBSET Indices
  BY DEF IInv, TypeOK
<1>2. /\ IsFiniteSet(vms) /\ IsFiniteSet(dying) /\ IsFiniteSet(lost \ vms)
      /\ Cardinality(vms) \in Nat /\ Cardinality(dying) \in Nat
      /\ Cardinality(lost \ vms) \in Nat
  BY <1>1, FiniteIndices
<1>3. vms \cap (lost \ vms) = {} /\ vms \cup lost = vms \cup (lost \ vms)
  OBVIOUS
<1>4. Cardinality(vms \cup (lost \ vms))
        = Cardinality(vms) + Cardinality(lost \ vms) - 0
  BY <1>2, <1>3, FS_Union, FS_EmptySet
<1>5. QED
  BY <1>2, <1>3, <1>4

\* One VM fewer, and enough left.
LEMMA RemovalPromised ==
  ASSUME IInv, NEW i \in Indices, DeleteVM(i) \/ DeleteFails(i), Gone(i), i \in vms
  PROVE  Promise!Next
<1>1. /\ pc = "delete" /\ i \in doomed
      /\ vms' = vms \ {i} /\ dying' = dying \ {i}
      /\ UNCHANGED <<goal, outcome, lost, listed>>
  BY DEF DeleteVM, DeleteFails, Gone, view, IInv, DownDelete
<1>2. vms \in SUBSET Indices /\ lost \in SUBSET Indices /\ goal \in Nat
  BY LimitsAssumption DEF IInv, TypeOK
<1>3. Cardinality(vms') = Cardinality(vms) - 1
  BY <1>1, Numbers, FS_RemoveElement
<1>4. \/ Cardinality(dying') = Cardinality(dying)
      \/ Cardinality(dying) > 0 /\ Cardinality(dying') = Cardinality(dying) - 1
  <2>1. CASE i \in dying
    <3>1. Cardinality(dying') = Cardinality(dying) - 1
      BY <1>1, <2>1, Numbers, FS_RemoveElement
    <3>2. Cardinality(dying') \in Nat
      BY <1>1, FiniteIndices DEF IInv, TypeOK
    <3>3. QED
      BY <3>1, <3>2, Numbers
  <2>2. CASE i \notin dying
    <3>1. dying' = dying
      BY <1>1, <2>2
    <3>2. QED
      BY <3>1
  <2>3. QED
    BY <2>1, <2>2
<1>5. i \notin lost
  BY <1>1 DEF IInv, LostNotDoomed
<1>6. Cardinality(lost' \ vms') = Cardinality(lost \ vms)
  <2>1. lost' \ vms' = lost \ vms
    BY <1>1, <1>5
  <2>2. QED
    BY <2>1
<1>7. Cardinality(vms') + Cardinality(lost \ vms) >= goal
  <2> DEFINE held == vms' \cup lost
  <2>1. listed \ doomed \in SUBSET held /\ held \in SUBSET Indices
    BY <1>1, <1>2 DEF IInv, Down
  <2>2. Cardinality(held) >= goal
    BY <1>1, <2>1, CardinalityGrows DEF IInv, Down
  <2>3. /\ IsFiniteSet(vms') /\ IsFiniteSet(lost \ vms)
        /\ vms' \cap (lost \ vms) = {} /\ held = vms' \cup (lost \ vms)
    BY <1>1, <1>2, <1>5, FiniteIndices, Numbers
  <2>4. Cardinality(held) = Cardinality(vms') + Cardinality(lost \ vms) - 0
    BY <2>3, FS_Union, FS_EmptySet
  <2>5. Cardinality(vms') \in Nat
    BY <1>1, <1>2, FiniteIndices
  <2>6. QED
    BY <2>2, <2>4, <2>5, Numbers
<1>8. outcome = "working"
  BY <1>1 DEF IInv, Running
<1>9. Promise!Remove
  BY <1>1, <1>2, <1>3, <1>4, <1>6, <1>7, <1>8, Numbers DEF Promise!Remove
<1>10. QED
  BY <1>9 DEF Promise!Next

\* A deletion that has failed leaves the VM for Azure to delete later, or alone.
LEMMA FailurePromised ==
  ASSUME IInv, NEW i \in Indices, DeleteFails(i), vms' = vms
  PROVE  [Promise!Next]_Promise!vars
<1>1. /\ pc = "delete"
      /\ dying' = dying \/ (dying' = dying \cup {i} /\ i \in vms) \/ dying' = dying \ {i}
      /\ UNCHANGED <<goal, outcome, lost, listed, vms>>
  BY DEF DeleteFails, Gone, view
<1>2. CASE dying' = dying
  BY <1>1, <1>2 DEF Promise!vars
<1>3. CASE dying' = dying \cup {i} /\ i \in vms /\ i \notin dying
  <2>1. Cardinality(dying') = Cardinality(dying) + 1
    BY <1>3, Numbers, FS_AddElement
  <2>2. Cardinality(dying') <= Cardinality(vms)
    <3>1. dying' \in SUBSET vms /\ vms \in SUBSET Indices
      BY <1>3 DEF IInv, TypeOK
    <3>2. QED
      BY <3>1, CardinalityGrows
  <2>3. outcome = "working"
    BY <1>1 DEF IInv, Running
  <2>4. Promise!GiveUpRemoval
    BY <1>1, <2>1, <2>2, <2>3, Numbers DEF Promise!GiveUpRemoval
  <2>5. QED
    BY <2>4 DEF Promise!Next
<1>4. CASE dying' = dying \ {i} /\ dying' # dying
  <2>1. i \in dying /\ i \in vms /\ vms' = vms \ {i}
    BY <1>4 DEF DeleteFails, Gone, IInv, TypeOK
  <2>2. QED
    BY <2>1
<1>5. QED
  BY <1>1, <1>2, <1>3, <1>4

\* A created VM is one agent more, or the template repeated one that exists.
LEMMA CreationPromised ==
  ASSUME IInv, NEW i \in Indices, CreateVM(i)
  PROVE  [Promise!Next]_Promise!vars
<1>1. vms' = vms \cup {i} /\ UNCHANGED <<goal, outcome, dying, lost, listed>>
  BY DEF CreateVM, view
<1>2. CASE i \in vms
  <2>1. vms' = vms
    BY <1>1, <1>2
  <2>2. QED
    BY <1>1, <2>1 DEF Promise!vars
<1>3. CASE i \notin vms
  <2>1. Cardinality(vms') = Cardinality(vms) + 1
    BY <1>1, <1>3, Numbers, FS_AddElement
  <2>2. \/ Cardinality(lost' \ vms') = Cardinality(lost \ vms)
        \/ /\ Cardinality(lost \ vms) > 0
           /\ Cardinality(lost' \ vms') = Cardinality(lost \ vms) - 1
    <3>1. CASE i \in lost
      <4>1. lost' \ vms' = (lost \ vms) \ {i} /\ i \in lost \ vms
        BY <1>1, <1>3, <3>1
      <4>2. Cardinality(lost' \ vms') = Cardinality(lost \ vms) - 1
        BY <4>1, Numbers, FS_RemoveElement
      <4>3. lost' \ vms' \in SUBSET Indices
        BY <4>1 DEF IInv, TypeOK
      <4>4. QED
        BY <4>2, <4>3, FiniteIndices, Numbers
    <3>2. CASE i \notin lost
      <4>1. lost' \ vms' = lost \ vms
        BY <1>1, <3>2
      <4>2. QED
        BY <4>1
    <3>3. QED
      BY <3>1, <3>2
  <2>3. Promise!Appear
    BY <1>1, <2>1, <2>2 DEF Promise!Appear
  <2>4. QED
    BY <2>3 DEF Promise!Next
<1>4. QED
  BY <1>2, <1>3

\* A VM that dies late is an agent that leaves.
LEMMA VanishingPromised ==
  ASSUME IInv, NEW i \in Indices, VMVanishes(i)
  PROVE  Promise!Next
<1>1. /\ i \in dying /\ i \in vms /\ vms' = vms \ {i} /\ dying' = dying \ {i}
      /\ lost' = IF pc = "list" THEN lost ELSE lost \cup ({i} \ doomed)
      /\ UNCHANGED <<goal, outcome, listed>>
  BY DEF VMVanishes, Gone, view, IInv, TypeOK
<1>2. Cardinality(vms') = Cardinality(vms) - 1
  BY <1>1, Numbers, FS_RemoveElement
<1>3. Cardinality(dying') = Cardinality(dying) - 1 /\ Cardinality(dying) > 0
  <2>1. Cardinality(dying') = Cardinality(dying) - 1
    BY <1>1, Numbers, FS_RemoveElement
  <2>2. Cardinality(dying') \in Nat
    BY <1>1, FiniteIndices DEF IInv, TypeOK
  <2>3. QED
    BY <2>1, <2>2, Numbers
<1>4. Cardinality(lost' \ vms') \in {Cardinality(lost \ vms), Cardinality(lost \ vms) + 1}
  <2>1. CASE i \in lost'
    <3>1. lost' \ vms' = (lost \ vms) \cup {i} /\ i \notin lost \ vms
      BY <1>1, <2>1
    <3>2. QED
      BY <3>1, Numbers, FS_AddElement
  <2>2. CASE i \notin lost'
    <3>1. lost' \ vms' = lost \ vms
      BY <1>1, <2>2
    <3>2. QED
      BY <3>1
  <2>3. QED
    BY <2>1, <2>2
<1>5. Promise!Leave
  BY <1>1, <1>2, <1>3, <1>4 DEF Promise!Leave
<1>6. QED
  BY <1>5 DEF Promise!Next

LEMMA SurvivalPromised ==
  ASSUME IInv, NEW i \in Indices, VMSurvives(i)
  PROVE  Promise!Next
<1>1. /\ i \in dying /\ dying' = dying \ {i}
      /\ UNCHANGED <<vms, goal, outcome, lost, listed>>
  BY DEF VMSurvives, view
<1>2. Cardinality(dying') = Cardinality(dying) - 1
  BY <1>1, Numbers, FS_RemoveElement
<1>3. Cardinality(dying') \in Nat
  BY <1>1, FiniteIndices DEF IInv, TypeOK
<1>4. Promise!Stay
  BY <1>1, <1>2, <1>3, Numbers DEF Promise!Stay
<1>5. QED
  BY <1>4 DEF Promise!Next

\* A call that returns has kept its promise.
LEMMA ReturnPromised ==
  ASSUME IInv, IInv', UNCHANGED <<azure, goal, lost>>,
         outcome = "working", outcome' \in {"working", "ok", "error"},
         outcome' = "error" => listed' = listed
  PROVE  [Promise!Next]_Promise!vars
<1> USE DEF azure
<1>1. CASE outcome' = "working"
  <2>1. Promise!Look
    BY <1>1 DEF Promise!Look
  <2>2. QED
    BY <2>1 DEF Promise!Next
<1>2. CASE outcome' = "ok"
  <2>1. Cardinality(vms \cup lost) >= Aim'
    BY <1>2 DEF IInv, Done
  <2>2. Aim' = IF listed' # {} THEN goal ELSE goal - 1
    BY DEF Aim
  <2>3. Cardinality(vms) + Cardinality(lost \ vms) >= IF listed' # {} THEN goal ELSE goal - 1
    BY <2>1, <2>2, Numbers
  <2>4. Promise!Succeed
    BY <1>2, <2>3 DEF Promise!Succeed
  <2>5. QED
    BY <2>4 DEF Promise!Next
<1>3. CASE outcome' = "error"
  <2>1. Promise!Fail
    BY <1>3 DEF Promise!Fail
  <2>2. QED
    BY <2>1 DEF Promise!Next
<1>4. QED
  BY <1>1, <1>2, <1>3

LEMMA StepPromised ==
  ASSUME IInv, IInv', [Next]_vars
  PROVE  [Promise!Next]_Promise!vars
<1>1. ASSUME NEW count \in 1 .. MaxAgents, Scale(count)
      PROVE  [Promise!Next]_Promise!vars
  <2>1. Cardinality(lost' \ vms') = 0
    <3>1. lost' \ vms' = {}
      BY <1>1 DEF Scale
    <3>2. QED
      BY <3>1, FS_EmptySet
  <2>2. Promise!Ask(count)
    BY <1>1, <2>1 DEF Scale, azure, view, Promise!Ask, IInv, Running
  <2>3. QED
    BY <2>2 DEF Promise!Next
<1>2. ASSUME NEW i \in Indices, DeleteVM(i) \/ DeleteFails(i)
      PROVE  [Promise!Next]_Promise!vars
  <2>1. CASE Gone(i) /\ i \in vms
    BY <1>2, <2>1, RemovalPromised
  <2>2. CASE DeleteFails(i) /\ vms' = vms
    BY <2>2, FailurePromised
  <2>3. CASE DeleteVM(i) /\ i \notin vms
    <3>1. UNCHANGED <<vms, dying, goal, outcome, lost, listed>>
      BY <2>3 DEF DeleteVM, Gone, view, IInv, TypeOK
    <3>2. QED
      BY <3>1 DEF Promise!vars
  <2>4. QED
    BY <1>2, <2>1, <2>2, <2>3 DEF DeleteVM, DeleteFails, Gone
<1>3. ASSUME NEW i \in Indices, CreateVM(i)
      PROVE  [Promise!Next]_Promise!vars
  BY <1>3, CreationPromised
<1>4. ASSUME NEW i \in Indices, VMVanishes(i) \/ VMSurvives(i)
      PROVE  [Promise!Next]_Promise!vars
  BY <1>4, VanishingPromised, SurvivalPromised
<1>5. CASE \/ ListVMs \/ DrainNodes \/ DeletionsAnswered
           \/ DeploymentSucceeded \/ WaitFails \/ SaveScaledApimodel \/ CallFails
  <2>1. /\ pc # "idle" /\ UNCHANGED <<azure, goal, lost>>
        /\ outcome' = "error" => outcome = "error" \/ UNCHANGED view
    BY <1>5 DEF ListVMs, DrainNodes, DeletionsAnswered, azure,
                DeploymentSucceeded, WaitFails, SaveScaledApimodel, CallFails, Return
  <2>2. outcome = "working" /\ outcome' \in {"working", "ok", "error"}
    BY <2>1 DEF IInv, Running, TypeOK
  <2>3. QED
    BY <2>1, <2>2, ReturnPromised DEF view
<1>6. CASE StartDeployment \/ DeploymentFails \/ UNCHANGED vars
  BY <1>6 DEF StartDeployment, DeploymentFails, vars, azure, view, Promise!vars
<1>7. QED
  BY <1>1, <1>2, <1>3, <1>4, <1>5, <1>6 DEF Next, CallStep

\* Scaling VM by VM implements the promise about numbers.
THEOREM Implements == Spec => PromiseSpec
<1>1. Init => Promise!Init
  <2> SUFFICES ASSUME Init PROVE Promise!Init
    OBVIOUS
  <2>1. recorded \in Int /\ recorded >= 1
    BY LimitsAssumption DEF Init
  <2>2. Cardinality(vms) = recorded
    BY <2>1, FS_Interval DEF Init
  <2>3. lost \ vms = {} /\ dying = {} /\ listed # {}
    BY <2>1 DEF Init
  <2>4. Cardinality(lost \ vms) = 0 /\ Cardinality(dying) = 0
    BY <2>3, FS_EmptySet
  <2>5. QED
    BY <2>2, <2>3, <2>4 DEF Init, Promise!Init
<1>2. IInv /\ IInv' /\ [Next]_vars => [Promise!Next]_Promise!vars
  BY StepPromised
<1>3. QED
  BY <1>1, <1>2, Invariant, PTL DEF Spec, PromiseSpec, Promise!Spec

=============================================================================
