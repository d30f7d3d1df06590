------------------------ MODULE ProviderRegistration ------------------------
(***************************************************************************)
(* The resource providers of an Azure subscription have to be registered   *)
(* before a cluster can be deployed.  Three parts of the program see to it *)
(* without knowing of each other:                                          *)
(*                                                                         *)
(*   - the provider's configuration registers what a listing does not show *)
(*     as registered, in one goroutine each (provider.go);                 *)
(*   - the client of every request registers what Azure says it misses and *)
(*     repeats the request (autorest's DoRetryWithRegistration, rp.go);    *)
(*   - acs-engine's client, which every scaling and upgrade gets, registers*)
(*     what it needs itself (EnsureProvidersRegistered).                   *)
(*                                                                         *)
(* The user may have turned the first and the second off.                  *)
(***************************************************************************)
EXTENDS Integers, Sequences, FiniteSets

CONSTANTS
  Namespaces,                \* the resource providers a cluster needs
  RequiredResourceProviders, \* those acs-engine registers, in this order
  RetryAttempts,             \* how often a client sends a request
  MaxFaults,                 \* bound on failures and unregistrations
  NoNamespace

ASSUME RegistrationAssumption ==
  /\ IsFiniteSet(Namespaces)
  /\ NoNamespace \notin Namespaces
  /\ RequiredResourceProviders \in Seq(Namespaces)
  /\ RetryAttempts \in Nat \ {0}
  /\ MaxFaults \in Nat

VARIABLES
  config,       \* skip_provider_registration, skip_credentials_validation
  registration, \* Azure's state of each resource provider
  deployed,     \* Create's deployment was accepted
  pc,           \* where the apply is
  listed,       \* the first page EnsureProvidersRegistered goes by
  worker,       \* the goroutines of registerAzureResourceProviders...
  err,          \* the variable they share: an error?
  next,         \* place in RequiredResourceProviders
  client,       \* whose client sends the request
  attempt,      \* currentAttempt of DoRetryWithRegistration
  target,       \* the resource provider it waits for
  missing,      \* auxiliary: those the request missed when it was first sent
  conflicts,    \* auxiliary: answers that were conflicts of another kind
  faults        \* failures and unregistrations so far

configuring == <<listed, worker, err, next>>
request == <<client, attempt, target, missing, conflicts>>
vars == <<config, registration, deployed, pc, configuring, request, faults>>

RegistrationStates == {"NotRegistered", "Registering", "Registered"}

TypeOK ==
  /\ config \in [skipRegistration : BOOLEAN, skipCredentials : BOOLEAN]
  /\ registration \in [Namespaces -> RegistrationStates]
  /\ deployed \in BOOLEAN
  /\ pc \in {"idle", "list", "register", "ready", "ensure", "client", "send", "poll"}
  /\ listed \in [Namespaces -> {"absent", "registered", "other"}]
  /\ worker \in [Namespaces -> {"none", "call", "registered", "failed"}]
  /\ err \in BOOLEAN
  /\ next \in 1 .. Len(RequiredResourceProviders) + 1
  /\ client \in {"provider", "acs-engine"}
  /\ attempt \in 0 .. RetryAttempts
  /\ target \in Namespaces \cup {NoNamespace}
  /\ missing \in SUBSET Namespaces
  /\ conflicts \in 0 .. RetryAttempts
  /\ faults \in 0 .. MaxFaults

NotSeen == [n \in Namespaces |-> "absent"]
NoWorkers == [n \in Namespaces |-> "none"]

Init ==
  /\ config \in [skipRegistration : BOOLEAN, skipCredentials : BOOLEAN]
  /\ registration \in [Namespaces -> RegistrationStates]
  /\ deployed = FALSE
  /\ pc = "idle"
  /\ listed = NotSeen
  /\ worker = NoWorkers
  /\ err = FALSE
  /\ next = 1
  /\ client = "provider"
  /\ attempt = 0
  /\ target = NoNamespace
  /\ missing = {}
  /\ conflicts = 0
  /\ faults = 0

\* A call returns, with its local variables.
Return ==
  /\ listed' = NotSeen
  /\ worker' = NoWorkers
  /\ err' = FALSE
  /\ next' = 1
  /\ client' = "provider"
  /\ attempt' = 0
  /\ target' = NoNamespace
  /\ missing' = {}
  /\ conflicts' = 0

Fault ==
  /\ faults < MaxFaults
  /\ faults' = faults + 1

\* What a listing tells when its first page has these resource providers.
Listing(page) ==
  [n \in Namespaces |->
     IF n \notin page THEN "absent"
     ELSE IF registration[n] = "Registered" THEN "registered" ELSE "other"]

\* Azure takes a registration up.
Registering(n) ==
  [registration EXCEPT ![n] = IF @ = "NotRegistered" THEN "Registering" ELSE @]

Unregistered == {n \in Namespaces : registration[n] # "Registered"}

-----------------------------------------------------------------------------
(* providerConfigure, at the start of every terraform run. *)

Start ==
  /\ pc = "idle"
  /\ pc' = IF config.skipCredentials THEN "ready" ELSE "list"
  /\ UNCHANGED <<config, registration, deployed, configuring, request, faults>>

\* determineAzureResourceProvidersToRegister.
ToRegister(listing) == {n \in Namespaces : listing[n] # "registered"}

\* registerAzureResourceProvidersWithSubscription: the first page of the listing
\* is looked at, and a goroutine started for each namespace.
StartRegistering ==
  /\ \E page \in SUBSET Namespaces :
       worker' = [n \in Namespaces |->
                    IF n \in ToRegister(Listing(page)) THEN "call" ELSE "none"]
  /\ pc' = "register"

\* Mutant: skip_provider_registration is not looked at.
RegisterAnyway ==
  /\ pc = "list"
  /\ StartRegistering
  /\ UNCHANGED <<config, registration, deployed, listed, err, next, request, faults>>

\* The listing checks the credentials as well, so it is made in any case.
List ==
  /\ pc = "list"
  /\ \/ config.skipRegistration /\ pc' = "ready" /\ UNCHANGED worker
     \/ ~config.skipRegistration /\ StartRegistering
  /\ UNCHANGED <<config, registration, deployed, listed, err, next, request, faults>>

ListFails ==
  /\ pc = "list"
  /\ Fault
  /\ pc' = "idle"
  /\ Return
  /\ UNCHANGED <<config, registration, deployed>>

\* registerProviderWithSubscription, in a goroutine.
Register(n) ==
  /\ worker[n] = "call"
  /\ registration' = Registering(n)
  /\ worker' = [worker EXCEPT ![n] = "registered"]
  /\ UNCHANGED <<config, deployed, pc, listed, err, next, request, faults>>

RegisterFails(n) ==
  /\ worker[n] = "call"
  /\ Fault
  /\ registration' \in {registration, Registering(n)}
  /\ worker' = [worker EXCEPT ![n] = "failed"]
  /\ UNCHANGED <<config, deployed, pc, listed, err, next, request>>

\* The goroutine keeps its own error if there is one already: the condition
\* reads err, not innerErr.  As err is never set, no two goroutines write it.
GoroutineEnds(n) ==
  /\ worker[n] \in {"registered", "failed"}
  /\ err' = IF err THEN worker[n] = "failed" ELSE err
  /\ worker' = [worker EXCEPT ![n] = "none"]
  /\ UNCHANGED <<config, registration, deployed, pc, listed, next, request, faults>>

\* wg.Wait, and the return of err.
Wait ==
  /\ pc = "register"
  /\ worker = NoWorkers
  /\ pc' = IF err THEN "idle" ELSE "ready"
  /\ Return
  /\ UNCHANGED <<config, registration, deployed, faults>>

Configure ==
  \/ Start
  \/ List
  \/ Wait
  \/ \E n \in Namespaces : Register(n) \/ GoroutineEnds(n)

-----------------------------------------------------------------------------
(* A scaling or an upgrade: GetClient of auth.go, called by                *)
(* AddACSEngineClientAuthArgs, and EnsureProvidersRegistered.              *)

GetClient ==
  /\ pc = "ready"
  /\ deployed
  /\ \E page \in SUBSET Namespaces : listed' = Listing(page)
  /\ next' = 1
  /\ pc' = "ensure"
  /\ UNCHANGED <<config, registration, deployed, worker, err, request, faults>>

\* "Unknown resource provider".
UnknownProvider ==
  /\ pc = "ensure"
  /\ next <= Len(RequiredResourceProviders)
  /\ listed[RequiredResourceProviders[next]] = "absent"
  /\ pc' = "idle"
  /\ Return
  /\ UNCHANGED <<config, registration, deployed, faults>>

\* Mutant: a resource provider that is not listed is passed over.
EnsureListed ==
  /\ pc = "ensure"
  /\ next <= Len(RequiredResourceProviders)
  /\ LET n == RequiredResourceProviders[next]
     IN  registration' = IF listed[n] = "other" THEN Registering(n) ELSE registration
  /\ next' = next + 1
  /\ UNCHANGED <<config, deployed, pc, listed, worker, err, request, faults>>

EnsureRegistered ==
  /\ pc = "ensure"
  /\ next <= Len(RequiredResourceProviders)
  /\ LET n == RequiredResourceProviders[next]
     IN  /\ listed[n] # "absent"
         /\ registration' = IF listed[n] = "registered" THEN registration ELSE Registering(n)
  /\ next' = next + 1
  /\ UNCHANGED <<config, deployed, pc, listed, worker, err, request, faults>>

\* An error of the listing or of a registration.
EnsureFails ==
  /\ pc = "ensure"
  /\ Fault
  /\ pc' = "idle"
  /\ Return
  /\ UNCHANGED <<config, registration, deployed>>

AllEnsured ==
  /\ pc = "ensure"
  /\ next > Len(RequiredResourceProviders)
  /\ pc' = "client"
  /\ Return
  /\ UNCHANGED <<config, registration, deployed, faults>>

Ensure == GetClient \/ UnknownProvider \/ EnsureRegistered \/ AllEnsured

-----------------------------------------------------------------------------
(* A deployment, sent by DoRetryWithRegistration.  Create sends it with    *)
(* the provider's client (createDeployment), scalings and upgrades with    *)
(* acs-engine's, whose SkipResourceProviderRegistration nobody sets.       *)

Deploy ==
  /\ \/ pc = "ready" /\ ~deployed /\ client' = "provider"
     \/ pc = "client" /\ client' = "acs-engine"
  /\ pc' = "send"
  /\ attempt' = 0
  /\ missing' = Unregistered
  /\ conflicts' = 0
  /\ UNCHANGED <<config, registration, deployed, configuring, target, faults>>

\* Azure accepts it.
Accepted ==
  /\ pc = "send"
  /\ attempt < RetryAttempts
  /\ Unregistered = {}
  /\ deployed' = TRUE
  /\ pc' = "idle"
  /\ Return
  /\ UNCHANGED <<config, registration, faults>>

\* configureClient.
SkipResourceProviderRegistration ==
  client = "provider" /\ config.skipRegistration

\* Mutant: the loop runs once more than RetryAttempts.
RegisterOnceMore ==
  /\ pc = "send"
  /\ attempt <= RetryAttempts
  /\ ~SkipResourceProviderRegistration
  /\ \E n \in Unregistered :
       /\ target' = n
       /\ registration' = Registering(n)
  /\ pc' = "poll"
  /\ UNCHANGED <<config, deployed, configuring, client, attempt, missing, conflicts, faults>>

\* Mutant: it polls for a registration it has not asked for.
PollOnly ==
  /\ pc = "send"
  /\ attempt < RetryAttempts
  /\ ~SkipResourceProviderRegistration
  /\ \E n \in Unregistered : target' = n
  /\ pc' = "poll"
  /\ UNCHANGED <<config, registration, deployed, configuring, client, attempt, missing, conflicts, faults>>

\* MissingSubscriptionRegistration, which is registered: the answer names one
\* resource provider.
RegisterMissing ==
  /\ pc = "send"
  /\ attempt < RetryAttempts
  /\ ~SkipResourceProviderRegistration
  /\ \E n \in Unregistered :
       /\ target' = n
       /\ registration' = Registering(n)
  /\ pc' = "poll"
  /\ UNCHANGED <<config, deployed, configuring, client, attempt, missing, conflicts, faults>>

\* It is not to be registered, and the answer is returned.
Refused ==
  /\ pc = "send"
  /\ attempt < RetryAttempts
  /\ Unregistered # {}
  /\ SkipResourceProviderRegistration
  /\ pc' = "idle"
  /\ Return
  /\ UNCHANGED <<config, registration, deployed, faults>>

\* Mutant: the request is repeated at once, while Azure still registers.
PolledOnce ==
  /\ pc = "poll"
  /\ pc' = "send"
  /\ attempt' = attempt + 1
  /\ UNCHANGED <<config, registration, deployed, configuring, client, target, missing, conflicts, faults>>

\* register has polled until it is registered.
Polled ==
  /\ pc = "poll"
  /\ registration[target] = "Registered"
  /\ pc' = "send"
  /\ attempt' = attempt + 1
  /\ UNCHANGED <<config, registration, deployed, configuring, client, target, missing, conflicts, faults>>

\* A conflict of any other kind, such as a deployment of the name that runs, is
\* none of the client's business but takes an attempt: the loop sends the request
\* again, at once.
OtherConflict ==
  /\ pc = "send"
  /\ attempt < RetryAttempts
  /\ ~SkipResourceProviderRegistration
  /\ Fault
  /\ attempt' = attempt + 1
  /\ conflicts' = conflicts + 1
  /\ UNCHANGED <<config, registration, deployed, pc, configuring, client, target, missing>>

\* The last answer is returned, although what it names is registered by now.
AttemptsExhausted ==
  /\ pc = "send"
  /\ attempt = RetryAttempts
  /\ pc' = "idle"
  /\ Return
  /\ UNCHANGED <<config, registration, deployed, faults>>

\* No answer, another error or, for a client that is not to register anything,
\* another conflict; a registration that fails or is not done in
\* PollingDuration; or an error of what an apply does in between.
RequestFails ==
  /\ pc \in {"ready", "client", "send", "poll"}
  /\ Fault
  /\ pc' = "idle"
  /\ Return
  /\ UNCHANGED <<config, registration, deployed>>

DoRetryWithRegistration ==
  \/ Deploy
  \/ Accepted
  \/ RegisterMissing
  \/ Refused
  \/ Polled
  \/ OtherConflict
  \/ AttemptsExhausted

\* resourceACSEngineK8sClusterDelete.
Delete ==
  /\ pc = "ready"
  /\ deployed
  /\ deployed' = FALSE
  /\ pc' = "idle"
  /\ Return
  /\ UNCHANGED <<config, registration, faults>>

-----------------------------------------------------------------------------
\* Azure has registered a resource provider.
RegistrationCompletes(n) ==
  /\ registration[n] = "Registering"
  /\ registration' = [registration EXCEPT ![n] = "Registered"]
  /\ UNCHANGED <<config, deployed, pc, configuring, request, faults>>

\* An administrator unregisters a resource provider between two runs.
Unregister(n) ==
  /\ pc = "idle"
  /\ registration[n] = "Registered"
  /\ Fault
  /\ registration' = [registration EXCEPT ![n] = "NotRegistered"]
  /\ UNCHANGED <<config, deployed, pc, configuring, request>>

Fails ==
  \/ ListFails
  \/ \E n \in Namespaces : RegisterFails(n)
  \/ EnsureFails
  \/ RequestFails

Next ==
  \/ Configure
  \/ Ensure
  \/ DoRetryWithRegistration
  \/ Delete
  \/ \E n \in Namespaces : RegistrationCompletes(n) \/ Unregister(n)
  \/ Fails

Fairness ==
  /\ WF_vars(Start)
  /\ WF_vars(List)
  /\ WF_vars(Wait)
  /\ \A n \in Namespaces : WF_vars(Register(n)) /\ WF_vars(GoroutineEnds(n))
  /\ WF_vars(DoRetryWithRegistration)
  /\ \A n \in Namespaces : WF_vars(RegistrationCompletes(n))

Spec == Init /\ [][Next]_vars /\ Fairness

-----------------------------------------------------------------------------
(* Properties. *)

\* A request is given up only if the registrations it missed when it was first
\* sent, and the conflicts of other kinds it met, are together as many as the
\* client has attempts: no registration is waited for in vain, none is asked for
\* twice.
AttemptsSuffice ==
  pc = "send" /\ attempt = RetryAttempts =>
    Cardinality(missing) + conflicts >= RetryAttempts

\* The client that EnsureProvidersRegistered has let pass finds every resource
\* provider acs-engine requires at least being registered, whatever the first
\* page of the listing was and whatever the configuration has left out.
ClientIsRegistered ==
  pc = "client" =>
    \A i \in DOMAIN RequiredResourceProviders :
      registration[RequiredResourceProviders[i]] # "NotRegistered"

\* A user who has turned registration off gets none as long as there is no
\* cluster to be scaled or upgraded, by either of the two ways that the setting
\* is about.
SkipIsHonoured ==
  [][config.skipRegistration /\ ~deployed =>
       \A n \in Namespaces : registration[n] = "NotRegistered" => UNCHANGED registration[n]]_vars

\* A creation that is repeated gets its deployment accepted, although the
\* configuration loses its errors and may see none of the registered ones, and
\* although one request can wait for fewer registrations than it needs.
CreateSucceeds == ~config.skipRegistration ~> deployed

=============================================================================
