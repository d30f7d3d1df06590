--------------------- MODULE ProviderRegistration_proofs ---------------------
(***************************************************************************)
(* Proofs about ProviderRegistration, for any resource providers, any list *)
(* of those acs-engine requires and any number of attempts and failures.   *)
(*                                                                         *)
(* The argument: while terraform runs nothing is unregistered, so what has *)
(* been waited for or asked for stays so (lemma Monotone).  Every attempt  *)
(* thus costs another of the registrations that were missing at first, or  *)
(* is a conflict of another kind, and every place the loop of              *)
(* EnsureProvidersRegistered has passed stays registered.                  *)
(***************************************************************************)
EXTENDS ProviderRegistration, FiniteSetTheorems, TLAPS

\* Goroutines and loops that register run for those who have not skipped it, or
\* for an upgrade or a scaling.
Skipping ==
  /\ pc = "register" => ~config.skipRegistration
  /\ worker # NoWorkers => pc = "register"
  /\ pc \in {"ensure", "client"} => deployed
  /\ client = "acs-engine" => deployed
  /\ pc = "poll" => ~SkipResourceProviderRegistration

\* EnsureProvidersRegistered has seen to the places before next.
Ensured ==
  /\ pc = "ensure" =>
       /\ \A n \in Namespaces : listed[n] = "registered" => registration[n] = "Registered"
       /\ \A i \in 1 .. next - 1 : registration[RequiredResourceProviders[i]] # "NotRegistered"
  /\ ClientIsRegistered

\* Each attempt made has registered another one of those that were missing, or
\* has met another conflict.
Attempted ==
  /\ pc = "poll" => attempt < RetryAttempts
  /\ pc \in {"send", "poll"} =>
       /\ Unregistered \subseteq missing
       /\ \E done \in SUBSET (missing \ Unregistered) :
            /\ Cardinality(done) + conflicts = attempt
            /\ pc = "poll" => target \in missing \ done

IInv == TypeOK /\ Skipping /\ Ensured /\ Attempted

\* No registration is lost in the step.
Grows ==
  \A n \in Namespaces :
    /\ registration[n] = "Registered" => registration'[n] = "Registered"
    /\ registration[n] # "NotRegistered" => registration'[n] # "NotRegistered"

-----------------------------------------------------------------------------
(* Types. *)

LEMMA RegisteringType ==
  ASSUME TypeOK, NEW n \in Namespaces
  PROVE  /\ Registering(n) \in [Namespaces -> RegistrationStates]
         /\ Registering(n)[n] # "NotRegistered"
         /\ registration' = Registering(n) => Grows
<1> QED
  BY DEF TypeOK, Registering, RegistrationStates, Grows

LEMMA ListingType ==
  ASSUME NEW page \in SUBSET Namespaces
  PROVE  Listing(page) \in [Namespaces -> {"absent", "registered", "other"}]
<1> QED
  BY DEF Listing

\* The values that counters start with are in their ranges.
LEMMA CounterTypes ==
  /\ Len(RequiredResourceProviders) \in Nat
  /\ 1 \in 1 .. Len(RequiredResourceProviders) + 1
  /\ 0 \in 0 .. RetryAttempts
  /\ 0 \in 0 .. MaxFaults
  /\ RetryAttempts \in Nat
<1>1. Len(RequiredResourceProviders) \in Nat
  BY RegistrationAssumption
<1>2. RetryAttempts \in Nat /\ MaxFaults \in Nat
  BY RegistrationAssumption
<1> QED
  BY <1>1, <1>2

\* What a call leaves when it returns.
LEMMA ReturnType ==
  ASSUME Return
  PROVE  /\ listed' \in [Namespaces -> {"absent", "registered", "other"}]
         /\ worker' \in [Namespaces -> {"none", "call", "registered", "failed"}]
         /\ err' \in BOOLEAN
         /\ next' \in 1 .. Len(RequiredResourceProviders) + 1
         /\ client' \in {"provider", "acs-engine"}
         /\ attempt' \in 0 .. RetryAttempts
         /\ target' \in Namespaces \cup {NoNamespace}
         /\ missing' \in SUBSET Namespaces
         /\ conflicts' \in 0 .. RetryAttempts
<1> QED
  BY CounterTypes DEF Return, NotSeen, NoWorkers

LEMMA FaultType ==
  ASSUME TypeOK, Fault
  PROVE  faults' \in 0 .. MaxFaults
<1> QED
  BY RegistrationAssumption DEF TypeOK, Fault

\* The first k places of the loop exist.
LEMMA PlaceType ==
  ASSUME NEW i \in 1 .. Len(RequiredResourceProviders)
  PROVE  RequiredResourceProviders[i] \in Namespaces
<1> QED
  BY RegistrationAssumption

LEMMA InitIInv == Init => IInv
<1> SUFFICES ASSUME Init PROVE IInv
  OBVIOUS
<1> USE DEF Init
<1>1. TypeOK
  BY CounterTypes DEF TypeOK, NotSeen, NoWorkers
<1> QED
  BY <1>1 DEF IInv, Skipping, Ensured, ClientIsRegistered, Attempted

LEMMA TypeStep == IInv /\ [Next]_vars => TypeOK'
<1> SUFFICES ASSUME IInv, [Next]_vars PROVE TypeOK'
  OBVIOUS
<1>0. TypeOK
  BY DEF IInv
<1> USE DEF configuring, request
<1>1. CASE Configure
  <2>1. CASE Start
    BY <1>0, <2>1 DEF Start, TypeOK
  <2>2. CASE List
    <3>1. worker' \in [Namespaces -> {"none", "call", "registered", "failed"}]
      BY <1>0, <2>2 DEF List, StartRegistering, TypeOK
    <3> QED
      BY <1>0, <2>2, <3>1 DEF List, StartRegistering, TypeOK
  <2>3. CASE Wait
    BY <1>0, <2>3, ReturnType DEF Wait, TypeOK
  <2>4. ASSUME NEW n \in Namespaces, Register(n) PROVE TypeOK'
    BY <1>0, <2>4, RegisteringType DEF Register, TypeOK
  <2>5. ASSUME NEW n \in Namespaces, GoroutineEnds(n) PROVE TypeOK'
    <3>1. err' \in BOOLEAN
      BY <1>0, <2>5, Zenon DEF GoroutineEnds, TypeOK
    <3> QED
      BY <1>0, <2>5, <3>1 DEF GoroutineEnds, TypeOK
  <2> QED
    BY <1>1, <2>1, <2>2, <2>3, <2>4, <2>5 DEF Configure
<1>2. CASE Ensure
  <2>1. CASE GetClient
    BY <1>0, <2>1, CounterTypes, ListingType DEF GetClient, TypeOK
  <2>2. CASE UnknownProvider
    BY <1>0, <2>2, ReturnType DEF UnknownProvider, TypeOK
  <2>3. CASE EnsureRegistered
    BY <1>0, <2>3, CounterTypes, PlaceType, RegisteringType DEF EnsureRegistered, TypeOK
  <2>4. CASE AllEnsured
    BY <1>0, <2>4, ReturnType DEF AllEnsured, TypeOK
  <2> QED
    BY <1>2, <2>1, <2>2, <2>3, <2>4 DEF Ensure
<1>3. CASE DoRetryWithRegistration
  <2>1. CASE Deploy
    BY <1>0, <2>1, CounterTypes DEF Deploy, TypeOK, Unregistered
  <2>2. CASE Accepted
    BY <1>0, <2>2, ReturnType DEF Accepted, TypeOK
  <2>3. CASE RegisterMissing
    BY <1>0, <2>3, RegisteringType DEF RegisterMissing, TypeOK, Unregistered
  <2>4. CASE Refused
    BY <1>0, <2>4, ReturnType DEF Refused, TypeOK
  <2>5. CASE Polled
    <3>1. attempt' \in 0 .. RetryAttempts
      <4>1. attempt \in 0 .. RetryAttempts /\ attempt < RetryAttempts /\ attempt' = attempt + 1
        BY <1>0, <2>5 DEF IInv, Attempted, Polled, TypeOK
      <4> QED
        BY <4>1, CounterTypes
    <3> QED
      BY <1>0, <2>5, <3>1 DEF Polled, TypeOK
  <2>6. CASE AttemptsExhausted
    BY <1>0, <2>6, ReturnType DEF AttemptsExhausted, TypeOK
  <2>7. CASE OtherConflict
    <3>1. attempt' \in 0 .. RetryAttempts /\ conflicts' \in 0 .. RetryAttempts
      <4>1. PICK done \in SUBSET (missing \ Unregistered) : Cardinality(done) + conflicts = attempt
        BY <2>7 DEF OtherConflict, IInv, Attempted
      <4>2. Cardinality(done) \in Nat
        BY <1>0, <4>1, FS_Subset, FS_CardinalityType, RegistrationAssumption DEF TypeOK
      <4>3. /\ attempt \in 0 .. RetryAttempts /\ conflicts \in 0 .. RetryAttempts
            /\ attempt < RetryAttempts
            /\ attempt' = attempt + 1 /\ conflicts' = conflicts + 1
        BY <1>0, <2>7 DEF OtherConflict, TypeOK
      <4> QED
        BY <4>1, <4>2, <4>3, CounterTypes
    <3> QED
      BY <1>0, <2>7, <3>1, FaultType DEF OtherConflict, TypeOK
  <2> QED
    BY <1>3, <2>1, <2>2, <2>3, <2>4, <2>5, <2>6, <2>7 DEF DoRetryWithRegistration
<1>4. CASE Delete
  BY <1>0, <1>4, ReturnType DEF Delete, TypeOK
<1>5. ASSUME NEW n \in Namespaces, RegistrationCompletes(n) \/ Unregister(n) PROVE TypeOK'
  BY <1>0, <1>5, FaultType DEF RegistrationCompletes, Unregister, TypeOK, RegistrationStates
<1>6. CASE Fails
  <2>1. ASSUME NEW n \in Namespaces, RegisterFails(n) PROVE TypeOK'
    BY <1>0, <2>1, FaultType, RegisteringType DEF RegisterFails, TypeOK
  <2>2. CASE ListFails \/ EnsureFails \/ RequestFails
    BY <1>0, <2>2, FaultType, ReturnType DEF ListFails, EnsureFails, RequestFails, TypeOK
  <2> QED
    BY <1>6, <2>1, <2>2 DEF Fails
<1>7. CASE UNCHANGED vars
  BY <1>0, <1>7 DEF vars, TypeOK
<1> QED
  BY <1>1, <1>2, <1>3, <1>4, <1>5, <1>6, <1>7 DEF Next

-----------------------------------------------------------------------------
(* The parts of the invariant. *)

\* Nothing is unregistered while terraform runs.
LEMMA Monotone == IInv /\ [Next]_vars /\ pc # "idle" => Grows
<1> SUFFICES ASSUME IInv, [Next]_vars, pc # "idle" PROVE Grows
  OBVIOUS
<1>0. TypeOK
  BY DEF IInv
<1>1. CASE UNCHANGED registration
  BY <1>1 DEF Grows
<1>2. ASSUME NEW n \in Namespaces, registration' = Registering(n) PROVE Grows
  BY <1>0, <1>2, RegisteringType
<1>3. ASSUME NEW n \in Namespaces, RegistrationCompletes(n) PROVE Grows
  BY <1>0, <1>3 DEF RegistrationCompletes, TypeOK, Grows
<1>4. \/ UNCHANGED registration
      \/ \E n \in Namespaces : registration' = Registering(n) \/ RegistrationCompletes(n)
  <2>1. CASE Configure
    BY <2>1 DEF Configure, Start, List, Wait, Register, GoroutineEnds
  <2>2. CASE Ensure
    BY <2>2, PlaceType, CounterTypes, <1>0
       DEF Ensure, GetClient, UnknownProvider, EnsureRegistered, AllEnsured, TypeOK
  <2>3. CASE DoRetryWithRegistration
    BY <2>3 DEF DoRetryWithRegistration, Deploy, Accepted, RegisterMissing, Refused, Polled,
                OtherConflict, AttemptsExhausted, Unregistered
  <2>4. CASE Delete \/ \E n \in Namespaces : RegistrationCompletes(n) \/ Unregister(n)
    BY <2>4 DEF Delete, Unregister
  <2>5. CASE Fails
    BY <2>5 DEF Fails, ListFails, RegisterFails, EnsureFails, RequestFails
  <2>6. CASE UNCHANGED vars
    BY <2>6 DEF vars
  <2> QED
    BY <2>1, <2>2, <2>3, <2>4, <2>5, <2>6 DEF Next
<1> QED
  BY <1>1, <1>2, <1>3, <1>4

LEMMA SkippingStep == IInv /\ [Next]_vars => Skipping'
<1> SUFFICES ASSUME IInv, [Next]_vars PROVE Skipping'
  OBVIOUS
<1> USE DEF IInv, Skipping, SkipResourceProviderRegistration, configuring, request
<1>1. CASE Configure
  <2>1. CASE Start \/ List
    BY <2>1 DEF Start, List, StartRegistering
  <2>2. CASE Wait
    BY <2>2 DEF Wait, Return
  <2>3. ASSUME NEW n \in Namespaces, Register(n) \/ GoroutineEnds(n) PROVE Skipping'
    <3>1. worker # NoWorkers
      BY <2>3 DEF Register, GoroutineEnds, NoWorkers
    <3> QED
      BY <2>3, <3>1 DEF Register, GoroutineEnds
  <2> QED
    BY <1>1, <2>1, <2>2, <2>3 DEF Configure
<1>2. CASE Ensure
  BY <1>2 DEF Ensure, GetClient, UnknownProvider, EnsureRegistered, AllEnsured, Return
<1>3. CASE DoRetryWithRegistration
  BY <1>3 DEF DoRetryWithRegistration, Deploy, Accepted, RegisterMissing, Refused, Polled,
              OtherConflict, AttemptsExhausted, Return
<1>4. CASE Delete
  BY <1>4 DEF Delete, Return
<1>5. ASSUME NEW n \in Namespaces, RegistrationCompletes(n) \/ Unregister(n) PROVE Skipping'
  BY <1>5 DEF RegistrationCompletes, Unregister
<1>6. CASE Fails
  <2>1. ASSUME NEW n \in Namespaces, RegisterFails(n) PROVE Skipping'
    <3>1. worker # NoWorkers
      BY <2>1 DEF RegisterFails, NoWorkers
    <3> QED
      BY <2>1, <3>1 DEF RegisterFails
  <2>2. CASE ListFails \/ EnsureFails \/ RequestFails
    BY <2>2 DEF ListFails, EnsureFails, RequestFails, Return
  <2> QED
    BY <1>6, <2>1, <2>2 DEF Fails
<1>7. CASE UNCHANGED vars
  BY <1>7 DEF vars
<1> QED
  BY <1>1, <1>2, <1>3, <1>4, <1>5, <1>6, <1>7 DEF Next

\* Steps that leave the loop of EnsureProvidersRegistered where it is.
LEMMA EnsuredStable ==
  ASSUME IInv, pc # "idle" => Grows, pc' = pc, UNCHANGED <<listed, next>>
  PROVE  Ensured'
<1>1. CASE pc = "ensure"
  <2>1. \A i \in 1 .. next - 1 : RequiredResourceProviders[i] \in Namespaces
    BY PlaceType, CounterTypes DEF IInv, TypeOK
  <2> QED
    BY <1>1, <2>1 DEF IInv, Ensured, ClientIsRegistered, Grows
<1>2. CASE pc = "client"
  <2>1. \A i \in DOMAIN RequiredResourceProviders : RequiredResourceProviders[i] \in Namespaces
    BY RegistrationAssumption
  <2> QED
    BY <1>2, <2>1 DEF IInv, Ensured, ClientIsRegistered, Grows
<1> QED
  BY <1>1, <1>2 DEF Ensured, ClientIsRegistered

LEMMA EnsuredStep == IInv /\ [Next]_vars => Ensured'
<1> SUFFICES ASSUME IInv, [Next]_vars PROVE Ensured'
  OBVIOUS
<1> USE DEF configuring, request
<1>0. TypeOK /\ (pc # "idle" => Grows)
  BY Monotone DEF IInv
<1>1. CASE pc' \notin {"ensure", "client"}
  BY <1>1 DEF Ensured, ClientIsRegistered
<1>2. CASE GetClient
  <2>1. PICK page \in SUBSET Namespaces : listed' = Listing(page)
    BY <1>2 DEF GetClient
  <2>2. pc' = "ensure" /\ next' = 1 /\ UNCHANGED registration
    BY <1>2 DEF GetClient
  <2>3. \A n \in Namespaces : listed'[n] = "registered" => registration[n] = "Registered"
    BY <2>1 DEF Listing
  <2> QED
    BY <2>2, <2>3 DEF Ensured, ClientIsRegistered
<1>3. CASE EnsureRegistered
  <2> DEFINE n == RequiredResourceProviders[next]
  <2>1. next \in 1 .. Len(RequiredResourceProviders)
    BY <1>0, <1>3, CounterTypes DEF EnsureRegistered, TypeOK
  <2>2. n \in Namespaces /\ \A i \in 1 .. next - 1 : RequiredResourceProviders[i] \in Namespaces
    BY <2>1, PlaceType, CounterTypes
  <2>3. pc = "ensure" /\ pc' = pc /\ next' = next + 1 /\ UNCHANGED listed
    BY <1>3 DEF EnsureRegistered
  <2>4. Grows
    BY <1>0, <2>3
  <2>5. registration'[n] # "NotRegistered"
    <3>1. CASE listed[n] = "registered"
      BY <1>3, <2>2, <2>3, <3>1 DEF EnsureRegistered, IInv, Ensured
    <3>2. CASE listed[n] # "registered"
      BY <1>0, <1>3, <2>2, <3>2, RegisteringType DEF EnsureRegistered
    <3> QED
      BY <3>1, <3>2
  <2>6. \A i \in 1 .. next' - 1 : registration'[RequiredResourceProviders[i]] # "NotRegistered"
    <3> SUFFICES ASSUME NEW i \in 1 .. next' - 1
                 PROVE  registration'[RequiredResourceProviders[i]] # "NotRegistered"
      OBVIOUS
    <3>1. i = next \/ i \in 1 .. next - 1
      BY <2>1, <2>3, CounterTypes
    <3> QED
      BY <2>2, <2>3, <2>4, <2>5, <3>1 DEF Grows, IInv, Ensured
  <2> QED
    BY <2>3, <2>4, <2>6 DEF Ensured, ClientIsRegistered, Grows, IInv
<1>4. CASE AllEnsured
  <2>1. DOMAIN RequiredResourceProviders = 1 .. Len(RequiredResourceProviders)
    BY RegistrationAssumption
  <2>2. \A i \in 1 .. Len(RequiredResourceProviders) : i \in 1 .. next - 1
    BY <1>0, <1>4, CounterTypes DEF AllEnsured, TypeOK
  <2> QED
    BY <1>4, <2>1, <2>2 DEF AllEnsured, IInv, Ensured, ClientIsRegistered
<1>5. CASE pc' = pc /\ UNCHANGED <<listed, next>>
  BY <1>0, <1>5, EnsuredStable
<1>6. \/ pc' \notin {"ensure", "client"}
      \/ GetClient \/ EnsureRegistered \/ AllEnsured
      \/ pc' = pc /\ UNCHANGED <<listed, next>>
  <2>1. CASE Configure
    BY <2>1 DEF Configure, Start, List, StartRegistering, Wait, Register, GoroutineEnds
  <2>2. CASE Ensure
    BY <2>2 DEF Ensure, UnknownProvider
  <2>3. CASE DoRetryWithRegistration
    BY <2>3 DEF DoRetryWithRegistration, Deploy, Accepted, RegisterMissing, Refused, Polled,
                OtherConflict, AttemptsExhausted
  <2>4. CASE Delete \/ \E n \in Namespaces : RegistrationCompletes(n) \/ Unregister(n)
    BY <2>4 DEF Delete, RegistrationCompletes, Unregister
  <2>5. CASE Fails
    BY <2>5 DEF Fails, ListFails, RegisterFails, EnsureFails, RequestFails
  <2>6. CASE UNCHANGED vars
    BY <2>6 DEF vars
  <2> QED
    BY <2>1, <2>2, <2>3, <2>4, <2>5, <2>6 DEF Next
<1> QED
  BY <1>1, <1>2, <1>3, <1>4, <1>5, <1>6

LEMMA GrowsUnregistered ==
  ASSUME Grows
  PROVE  Unregistered' \subseteq Unregistered
<1> QED
  BY DEF Grows, Unregistered

LEMMA AttemptedStep == IInv /\ [Next]_vars => Attempted'
<1> SUFFICES ASSUME IInv, [Next]_vars PROVE Attempted'
  OBVIOUS
<1> USE DEF configuring, request
<1>0. TypeOK /\ Attempted /\ (pc # "idle" => Unregistered' \subseteq Unregistered)
  BY Monotone, GrowsUnregistered DEF IInv
<1>1. CASE pc' \notin {"send", "poll"}
  BY <1>1 DEF Attempted
<1>2. CASE Deploy
  <2>1. pc' = "send" /\ attempt' = 0 /\ missing' = Unregistered /\ UNCHANGED registration
    BY <1>2 DEF Deploy
  <2>2. Unregistered' = Unregistered
    BY <2>1 DEF Unregistered
  <2>3. Cardinality({}) + conflicts' = attempt'
    BY <1>2, <2>1, FS_EmptySet DEF Deploy
  <2> QED
    BY <2>1, <2>2, <2>3 DEF Attempted
<1>3. CASE RegisterMissing
  <2>1. PICK n \in Unregistered : target' = n
    BY <1>3 DEF RegisterMissing
  <2>2. /\ pc = "send" /\ pc' = "poll" /\ attempt < RetryAttempts
        /\ UNCHANGED <<attempt, missing, conflicts>>
    BY <1>3 DEF RegisterMissing
  <2>3. PICK done \in SUBSET (missing \ Unregistered) : Cardinality(done) + conflicts = attempt
    BY <1>0, <2>2 DEF Attempted
  <2>4. done \in SUBSET (missing' \ Unregistered') /\ target' \in missing' \ done
    BY <1>0, <2>1, <2>2, <2>3 DEF Attempted
  <2>5. Unregistered' \subseteq missing'
    BY <1>0, <2>2 DEF Attempted
  <2> QED
    BY <2>2, <2>3, <2>4, <2>5 DEF Attempted
<1>4. CASE Polled
  <2>1. /\ pc = "poll" /\ pc' = "send" /\ attempt' = attempt + 1
        /\ registration[target] = "Registered"
        /\ UNCHANGED <<registration, missing, conflicts>>
    BY <1>4 DEF Polled
  <2>2. PICK done \in SUBSET (missing \ Unregistered) :
          Cardinality(done) + conflicts = attempt /\ target \in missing \ done
    BY <1>0, <2>1 DEF Attempted
  <2>3. IsFiniteSet(done)
    BY <1>0, <2>2, FS_Subset, RegistrationAssumption DEF TypeOK
  <2>4. Cardinality(done \cup {target}) + conflicts' = attempt'
    <3>1. Cardinality(done) \in Nat /\ conflicts \in Nat
      BY <1>0, <2>3, FS_CardinalityType, CounterTypes DEF TypeOK
    <3>2. Cardinality(done \cup {target}) = Cardinality(done) + 1
      BY <2>2, <2>3, FS_AddElement
    <3> QED
      BY <2>1, <2>2, <3>1, <3>2
  <2>5. Unregistered' = Unregistered /\ target \notin Unregistered
    BY <2>1 DEF Unregistered
  <2>6. done \cup {target} \in SUBSET (missing' \ Unregistered')
    BY <2>1, <2>2, <2>5
  <2> QED
    BY <1>0, <2>1, <2>4, <2>5, <2>6 DEF Attempted
<1>5. CASE pc' = pc /\ UNCHANGED request
  <2> SUFFICES ASSUME pc \in {"send", "poll"} PROVE Attempted'
    BY <1>5 DEF Attempted
  <2>1. PICK done \in SUBSET (missing \ Unregistered) :
          Cardinality(done) + conflicts = attempt /\ (pc = "poll" => target \in missing \ done)
    BY <1>0 DEF Attempted
  <2>2. done \in SUBSET (missing' \ Unregistered') /\ Unregistered' \subseteq missing'
    BY <1>0, <1>5, <2>1 DEF Attempted
  <2> QED
    BY <1>0, <1>5, <2>1, <2>2 DEF Attempted
<1>6. \/ pc' \notin {"send", "poll"}
      \/ Deploy \/ RegisterMissing \/ Polled \/ OtherConflict
      \/ pc' = pc /\ UNCHANGED request
  <2>1. CASE Configure
    BY <2>1 DEF Configure, Start, List, StartRegistering, Wait, Register, GoroutineEnds
  <2>2. CASE Ensure
    BY <2>2 DEF Ensure, GetClient, UnknownProvider, EnsureRegistered, AllEnsured
  <2>3. CASE DoRetryWithRegistration
    BY <2>3 DEF DoRetryWithRegistration, Accepted, Refused, AttemptsExhausted
  <2>4. CASE Delete \/ \E n \in Namespaces : RegistrationCompletes(n) \/ Unregister(n)
    BY <2>4 DEF Delete, RegistrationCompletes, Unregister
  <2>5. CASE Fails
    BY <2>5 DEF Fails, ListFails, RegisterFails, EnsureFails, RequestFails
  <2>6. CASE UNCHANGED vars
    BY <2>6 DEF vars
  <2> QED
    BY <2>1, <2>2, <2>3, <2>4, <2>5, <2>6 DEF Next
<1>7. CASE OtherConflict
  <2>1. /\ pc = "send" /\ pc' = pc /\ attempt' = attempt + 1 /\ conflicts' = conflicts + 1
        /\ UNCHANGED <<registration, missing>>
    BY <1>7 DEF OtherConflict
  <2>2. Unregistered' = Unregistered
    BY <2>1 DEF Unregistered
  <2>3. PICK done \in SUBSET (missing \ Unregistered) : Cardinality(done) + conflicts = attempt
    BY <1>0, <2>1 DEF Attempted
  <2>4. Cardinality(done) \in Nat /\ conflicts \in Nat
    BY <1>0, <2>3, FS_Subset, FS_CardinalityType, RegistrationAssumption, CounterTypes DEF TypeOK
  <2>5. Cardinality(done) + conflicts' = attempt'
    BY <2>1, <2>3, <2>4
  <2> QED
    BY <1>0, <2>1, <2>2, <2>3, <2>5 DEF Attempted
<1> QED
  BY <1>1, <1>2, <1>3, <1>4, <1>5, <1>6, <1>7

LEMMA Invariant == Spec => []IInv
<1>1. IInv /\ [Next]_vars => IInv'
  BY TypeStep, SkippingStep, EnsuredStep, AttemptedStep DEF IInv
<1> QED
  BY <1>1, InitIInv, PTL DEF Spec

-----------------------------------------------------------------------------
(* Theorems. *)

\* Every variable keeps its type; the loop of DoRetryWithRegistration never
\* makes more attempts than the client has.
THEOREM TypeCorrect == Spec => []TypeOK
<1>1. IInv => TypeOK
  BY DEF IInv
<1> QED
  BY <1>1, Invariant, PTL

\* A request is given up only if the registrations missing from the start and the
\* conflicts of other kinds were too many, for any number of attempts.
THEOREM EnoughAttempts == Spec => []AttemptsSuffice
<1>1. IInv => AttemptsSuffice
  <2> SUFFICES ASSUME IInv, pc = "send", attempt = RetryAttempts
               PROVE  Cardinality(missing) + conflicts >= RetryAttempts
    BY DEF AttemptsSuffice
  <2>1. PICK done \in SUBSET (missing \ Unregistered) : Cardinality(done) + conflicts = attempt
    BY DEF IInv, Attempted
  <2>2. IsFiniteSet(missing)
    BY FS_Subset, RegistrationAssumption DEF IInv, TypeOK
  <2>3. Cardinality(done) <= Cardinality(missing)
    BY <2>1, <2>2, FS_Subset
  <2> QED
    BY <2>1, <2>2, <2>3, FS_CardinalityType, FS_Subset, CounterTypes DEF IInv, TypeOK
<1> QED
  BY <1>1, Invariant, PTL

\* EnsureProvidersRegistered lets no client pass before everything it requires
\* is registered or being registered.
THEOREM RequiredAreRegistered == Spec => []ClientIsRegistered
<1>1. IInv => ClientIsRegistered
  BY DEF IInv, Ensured
<1> QED
  BY <1>1, Invariant, PTL

\* skip_provider_registration is honoured until there is a cluster.
THEOREM SkippingIsHonoured == Spec => SkipIsHonoured
<1>1. IInv /\ [Next]_vars =>
        [config.skipRegistration /\ ~deployed =>
           \A n \in Namespaces :
             registration[n] = "NotRegistered" => UNCHANGED registration[n]]_vars
  <2> SUFFICES ASSUME IInv, Next, config.skipRegistration, ~deployed,
                      NEW n \in Namespaces, registration[n] = "NotRegistered"
               PROVE  UNCHANGED registration[n]
    OBVIOUS
  <2> USE DEF IInv, Skipping, SkipResourceProviderRegistration
  <2>1. worker = NoWorkers /\ client = "provider" /\ pc \notin {"ensure", "client"}
    BY DEF TypeOK
  <2>2. CASE Configure
    BY <2>1, <2>2 DEF Configure, Start, List, Wait, Register, GoroutineEnds, NoWorkers
  <2>3. CASE Ensure
    BY <2>1, <2>3 DEF Ensure, GetClient, UnknownProvider, EnsureRegistered, AllEnsured
  <2>4. CASE DoRetryWithRegistration
    BY <2>1, <2>4 DEF DoRetryWithRegistration, Deploy, Accepted, RegisterMissing, Refused,
                      Polled, OtherConflict, AttemptsExhausted
  <2>5. CASE Delete
    BY <2>5 DEF Delete
  <2>6. ASSUME NEW m \in Namespaces, RegistrationCompletes(m) \/ Unregister(m)
        PROVE  UNCHANGED registration[n]
    BY <2>6 DEF RegistrationCompletes, Unregister, TypeOK
  <2>7. CASE Fails
    BY <2>1, <2>7 DEF Fails, ListFails, RegisterFails, EnsureFails, RequestFails, NoWorkers
  <2> QED
    BY <2>2, <2>3, <2>4, <2>5, <2>6, <2>7 DEF Next
<1> QED
  BY <1>1, Invariant, PTL DEF Spec, SkipIsHonoured

=============================================================================
