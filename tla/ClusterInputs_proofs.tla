------------------------ MODULE ClusterInputs_proofs ------------------------
(***************************************************************************)
(* Proofs about the provider's configuration (Authentication) and about    *)
(* what becomes of a cluster's attributes (ClusterAttributes), for all     *)
(* blocks, files, configurations and paths their assumptions allow.        *)
(*                                                                         *)
(* The argument:                                                           *)
(*                                                                         *)
(*   - a search in a sequence gives the first entry that fits, and what    *)
(*     getArmClient goes by is what the block or the files say of it;      *)
(*   - of a path only the last value of each key matters, the first        *)
(*     subscription apart (Parsed, ValueFound);                            *)
(*   - an attribute changes between the configuration and the state in     *)
(*     spelling only, unless its version is rounded (Modelled, Loaded);    *)
(*   - what the data source shows and what the resource reads are both     *)
(*     made of the same model, as loaded.                                  *)
(***************************************************************************)
EXTENDS ClusterAttributes, Authentication, FiniteSetTheorems, WellFoundedInduction, TLAPS

-----------------------------------------------------------------------------
(* Searching sequences. *)

\* A set of numbers that is not empty has a least member: the set of those up to
\* it is the smallest one.
LEMMA LeastMember ==
  ASSUME NEW S \in SUBSET Nat, IsFiniteSet(S), S # {}
  PROVE  \E least \in S : \A x \in S : least <= x
<1> DEFINE upTo(x) == {y \in S : y <= x}
           T == {upTo(x) : x \in S}
<1>1. IsWellFoundedOn(StrictSubsetOrdering(S), SUBSET S)
  BY FS_StrictSubsetOrderingWellFounded, FS_FiniteSubsetsOfFinite
<1>2. T \subseteq SUBSET S /\ T # {}
  OBVIOUS
<1>3. \E t \in T : \A u \in T : ~(<<u, t>> \in StrictSubsetOrdering(S))
  <2> HIDE DEF T
  <2> QED
    BY <1>1, <1>2, WFMin
<1>4. PICK least \in S : \A x \in S : ~(<<upTo(x), upTo(least)>> \in StrictSubsetOrdering(S))
  BY <1>3
<1>5. ASSUME NEW x \in S, x < least
      PROVE  FALSE
  <2>1. S \subseteq Nat /\ least \in Nat /\ x \in Nat
    OBVIOUS
  <2>2. (\A y \in S : y <= x => y <= least) /\ ~(least <= x) /\ least <= least
    BY <1>5, <2>1
  <2>3. upTo(x) \subseteq upTo(least) /\ least \in upTo(least) /\ least \notin upTo(x)
    BY <2>2
  <2>4. <<upTo(x), upTo(least)>> \in StrictSubsetOrdering(S)
    BY <2>3 DEF StrictSubsetOrdering
  <2> QED
    BY <1>4, <2>4
<1> QED
  BY <1>5

LEMMA GreatestMember ==
  ASSUME NEW S \in SUBSET Nat, IsFiniteSet(S), S # {}
  PROVE  \E greatest \in S : \A x \in S : x <= greatest
<1> DEFINE from(x) == {y \in S : x <= y}
           T == {from(x) : x \in S}
<1>1. IsWellFoundedOn(StrictSubsetOrdering(S), SUBSET S)
  BY FS_StrictSubsetOrderingWellFounded, FS_FiniteSubsetsOfFinite
<1>2. T \subseteq SUBSET S /\ T # {}
  OBVIOUS
<1>3. \E t \in T : \A u \in T : ~(<<u, t>> \in StrictSubsetOrdering(S))
  <2> HIDE DEF T
  <2> QED
    BY <1>1, <1>2, WFMin
<1>4. PICK greatest \in S : \A x \in S : ~(<<from(x), from(greatest)>> \in StrictSubsetOrdering(S))
  BY <1>3
<1>5. ASSUME NEW x \in S, greatest < x
      PROVE  FALSE
  <2>1. S \subseteq Nat /\ greatest \in Nat /\ x \in Nat
    OBVIOUS
  <2>2. (\A y \in S : x <= y => greatest <= y) /\ ~(x <= greatest) /\ greatest <= greatest
    BY <1>5, <2>1
  <2>3. from(x) \subseteq from(greatest) /\ greatest \in from(greatest) /\ greatest \notin from(x)
    BY <2>2
  <2>4. <<from(x), from(greatest)>> \in StrictSubsetOrdering(S)
    BY <2>3 DEF StrictSubsetOrdering
  <2> QED
    BY <1>4, <2>4
<1> QED
  BY <1>5

\* A search by index finds the first that passes, or 0.
LEMMA FirstIndex ==
  ASSUME NEW n \in Nat, NEW I \in SUBSET (1..n)
  PROVE  I # {} => Min(I) \in I /\ \A i \in I : Min(I) <= i
<1> SUFFICES ASSUME I # {}
             PROVE  Min(I) \in I /\ \A i \in I : Min(I) <= i
  OBVIOUS
<1>1. IsFiniteSet(I) /\ I \in SUBSET Nat
  <2>1. IsFiniteSet(1..n)
    BY FS_Interval
  <2>2. I \in SUBSET Nat
    OBVIOUS
  <2> QED
    BY <2>1, <2>2, FS_Subset
<1>2. \E least \in I : \A i \in I : least <= i
  BY <1>1, LeastMember
<1> QED
  BY <1>2 DEF Min

LEMMA LastIndex ==
  ASSUME NEW n \in Nat, NEW I \in SUBSET (1..n)
  PROVE  I # {} => Max(I) \in I /\ \A i \in I : i <= Max(I)
<1> SUFFICES ASSUME I # {}
             PROVE  Max(I) \in I /\ \A i \in I : i <= Max(I)
  OBVIOUS
<1>1. IsFiniteSet(I) /\ I \in SUBSET Nat
  <2>1. IsFiniteSet(1..n)
    BY FS_Interval
  <2>2. I \in SUBSET Nat
    OBVIOUS
  <2> QED
    BY <2>1, <2>2, FS_Subset
<1>2. \E greatest \in I : \A i \in I : greatest >= i
  BY <1>1, GreatestMember
<1>3. Max(I) \in I /\ \A i \in I : Max(I) >= i
  BY <1>2 DEF Max
<1> QED
  BY <1>1, <1>3

\* The first token of a tenant that a search finds is one that may be used.
LEMMA FoundToken ==
  ASSUME NEW tokens \in CLITokens, NEW tenant,
         NEW token \in findValidAccessTokenForTenant(tokens, tenant)
  PROVE  Usable(token) /\ token.tenant = tenant
<1> DEFINE I == {i \in 1..Len(tokens) : ~tokens[i].parses \/ (Usable(tokens[i]) /\ tokens[i].tenant = tenant)}
           n == IF I # {} THEN Min(I) ELSE 0
<1>1. findValidAccessTokenForTenant(tokens, tenant) = IF n = 0 \/ ~tokens[n].parses THEN {} ELSE {tokens[n]}
  BY DEF findValidAccessTokenForTenant, SelectInSeq
<1>2. Len(tokens) \in Nat /\ I \in SUBSET (1..Len(tokens))
  BY AuthenticationAssumption
<1>3. n # 0 /\ tokens[n].parses /\ token = tokens[n]
  BY <1>1
<1>4. n \in I
  <2> HIDE DEF I
  <2> QED
    BY <1>2, <1>3, FirstIndex
<1> QED
  BY <1>3, <1>4

\* A search for a subscription by its ID finds one that has it.
LEMMA FoundSubscription ==
  ASSUME NEW profile \in CLIProfiles, NEW id, NEW found \in FindSubscription(profile, id)
  PROVE  found \in ToSet(profile) /\ found.id = id
<1> DEFINE I == {i \in 1..Len(profile) : profile[i].id = id}
           n == IF I # {} THEN Min(I) ELSE 0
<1>1. FindSubscription(profile, id) = IF n = 0 THEN {} ELSE {profile[n]}
  BY DEF FindSubscription, SelectInSeq
<1>2. Len(profile) \in Nat /\ DOMAIN profile = 1..Len(profile)
  BY AuthenticationAssumption
<1>3. I \in SUBSET (1..Len(profile)) /\ n # 0 /\ found = profile[n]
  BY <1>1
<1>4. n \in I
  <2> HIDE DEF I
  <2> QED
    BY <1>2, <1>3, FirstIndex
<1> QED
  BY <1>2, <1>3, <1>4 DEF ToSet

Fields == {"subscription", "tenant", "client", "secret", "environment", "use_msi", "token"}

\* What the CLI adds to a configuration: a token that may be used, of the tenant that was
\* configured or else of the subscription, and the client it was issued to.
LEMMA LoadedFromCLI ==
  ASSUME NEW c, c = [f \in Fields |-> c[f]], NEW cli \in CLIFiles,
         NEW x \in LoadTokensFromAzureCLI(c, cli)
  PROVE  /\ x = [f \in Fields |-> x[f]]
         /\ x.secret = c.secret /\ x.use_msi = c.use_msi
         /\ c.subscription # "" => x.subscription = c.subscription
         /\ c.tenant # "" => x.tenant = c.tenant
         /\ Usable(x.token[1]) /\ x.token[1].tenant = x.tenant /\ x.client = x.token[1].client
         /\ c.tenant = "" =>
              \E s \in ToSet(cli.profile) : s.id = x.subscription /\ s.tenant = x.tenant
<1> DEFINE subscription == IF c.subscription # "" THEN c.subscription
                           ELSE FindDefaultSubscriptionID(cli.profile)
           found == FindSubscription(cli.profile, subscription)
           tenants == IF c.tenant # "" THEN {c.tenant} ELSE {s.tenant : s \in found} \ {""}
           environment == IF found = {} THEN c.environment ELSE (CHOOSE s \in found : TRUE).environment
           With(tenant, token) ==
             [c EXCEPT !.subscription = subscription, !.tenant = tenant, !.client = token.client,
                       !.token = <<token>>, !.environment = environment]
           Those(tenant) ==
             {With(tenant, token) : token \in findValidAccessTokenForTenant(cli.tokens, tenant)}
<1>a. LoadTokensFromAzureCLI(c, cli) = UNION {Those(tenant) : tenant \in tenants}
  BY DEF LoadTokensFromAzureCLI
<1>b. PICK tenant \in tenants : x \in Those(tenant)
  <2> HIDE DEF tenants, Those
  <2> QED
    BY <1>a
<1>1. PICK token \in findValidAccessTokenForTenant(cli.tokens, tenant) : x = With(tenant, token)
  BY <1>b
<1>c. cli.profile \in CLIProfiles /\ cli.tokens \in CLITokens
  BY DEF CLIFiles
<1>2. Usable(token) /\ token.tenant = tenant
  BY <1>c, FoundToken
<1>3. \A s \in found : s \in ToSet(cli.profile) /\ s.id = subscription
  <2> HIDE DEF subscription
  <2> QED
    BY <1>c, FoundSubscription
<1>4. /\ x = [f \in Fields |-> x[f]]
      /\ x.secret = c.secret /\ x.use_msi = c.use_msi
      /\ x.subscription = subscription /\ x.tenant = tenant
      /\ x.client = token.client /\ x.token = <<token>>
  <2> HIDE DEF subscription, tenants, environment
  <2> QED
    BY <1>1 DEF Fields
<1>5. x.token[1] = token
  <2>1. <<token>>[1] = token
    OBVIOUS
  <2> QED
    BY <1>4, <2>1
<1>6. c.tenant = "" => \E s \in found : s.tenant = tenant
  BY <1>b
<1>7. c.tenant # "" => tenant = c.tenant
  BY <1>b
<1> QED
  BY <1>2, <1>3, <1>4, <1>5, <1>6, <1>7

\* What the provider goes by once its credentials are checked.
LEMMA WhatIsValidated ==
  ASSUME provider \in ProviderBlocks, files \in CLIFiles, NEW x \in Validated(provider, files)
  PROVE  /\ x = [f \in Fields |-> x[f]]
         /\ x.secret = provider.secret /\ x.use_msi = provider.use_msi
         /\ x.subscription # "" /\ x.tenant # ""
         /\ provider.subscription # "" => x.subscription = provider.subscription
         /\ provider.tenant # "" => x.tenant = provider.tenant
         /\ x.secret # "" /\ ~x.use_msi => x.client # ""
         /\ x.secret = "" /\ ~x.use_msi =>
              /\ Usable(x.token[1]) /\ x.token[1].tenant = x.tenant /\ x.client = x.token[1].client
              /\ provider.tenant = "" =>
                   \E s \in ToSet(files.profile) : s.id = x.subscription /\ s.tenant = x.tenant
<1>1. provider = [f \in Fields |-> provider[f]] /\ provider.use_msi \in BOOLEAN
  BY AuthenticationAssumption DEF Fields
<1>2. CASE provider.use_msi
  BY <1>1, <1>2 DEF Validated, Configured
<1>3. CASE ~provider.use_msi /\ provider.secret # ""
  BY <1>1, <1>3 DEF Validated, Configured
<1>4. CASE ~provider.use_msi /\ provider.secret = ""
  <2>1. x \in LoadTokensFromAzureCLI(provider, files) /\ ValidateBearerAuth(x)
    BY <1>4 DEF Validated
  <2>2. x.subscription # "" /\ x.tenant # ""
    BY <2>1 DEF ValidateBearerAuth, Configured
  <2> QED
    BY <1>1, <1>4, <2>1, <2>2, LoadedFromCLI
<1> QED
  BY <1>1, <1>2, <1>3, <1>4

\* What a request is authorised with, at once or later.
LEMMA Authorised ==
  ASSUME NEW x, x = [f \in Fields |-> x[f]], x.tenant # "", NEW cli \in CLIFiles,
         x.secret = "" /\ ~x.use_msi =>
           Usable(x.token[1]) /\ x.token[1].tenant = x.tenant /\ x.client = x.token[1].client,
         NEW endpoint, NEW a \in getAuthorizationToken(x, cli, endpoint)
  PROVE  /\ Audience(a) = IF a.kind = "cli" THEN "management" ELSE endpoint
         /\ a.kind = IF x.secret # "" THEN "secret" ELSE IF x.use_msi THEN "msi" ELSE "cli"
         /\ a.kind = "secret" => a.client = x.client
         /\ a.kind = "cli" =>
              Usable(a.token[1]) /\ a.token[1].tenant = x.tenant /\ a.client = a.token[1].client
<1>1. CASE x.secret # ""
  <2>1. a = [kind |-> "secret", client |-> x.client, resource |-> endpoint, token |-> <<>>]
    BY <1>1 DEF getAuthorizationToken
  <2> QED
    BY <1>1, <2>1 DEF Audience
<1>2. CASE x.secret = "" /\ x.use_msi
  <2>1. a = [kind |-> "msi", client |-> "", resource |-> endpoint, token |-> <<>>]
    BY <1>2 DEF getAuthorizationToken
  <2> QED
    BY <1>2, <2>1 DEF Audience
<1>3. CASE x.secret = "" /\ ~x.use_msi
  <2>1. PICK y \in IF IsCloudShell(x) THEN LoadTokensFromAzureCLI(x, cli) ELSE {x} :
          a = [kind |-> "cli", client |-> y.client, resource |-> endpoint, token |-> y.token]
    BY <1>3 DEF getAuthorizationToken
  <2>2. Usable(y.token[1]) /\ y.token[1].tenant = x.tenant /\ y.client = y.token[1].client
    <3>1. CASE IsCloudShell(x)
      <4>1. y \in LoadTokensFromAzureCLI(x, cli)
        BY <2>1, <3>1
      <4>2. Usable(y.token[1]) /\ y.token[1].tenant = y.tenant /\ y.client = y.token[1].client
        BY <4>1, LoadedFromCLI
      <4>3. y.tenant = x.tenant
        BY <4>1, LoadedFromCLI
      <4> QED
        BY <4>2, <4>3
    <3>2. CASE ~IsCloudShell(x)
      BY <1>3, <2>1, <3>2
    <3> QED
      BY <3>1, <3>2
  <2> QED
    BY <1>3, <2>1, <2>2 DEF Usable, Audience
<1> QED
  BY <1>1, <1>2, <1>3

\* Azure Resource Manager gets a token of its own and so does the key vault, unless the CLI is
\* used; both get the same kind of credentials and, with the CLI, unexpired management tokens
\* of the configured tenant or else that of the subscription, whatever the configuration, the
\* files of the CLI and the later ones.
THEOREM CredentialsAlwaysFit ==
  ASSUME provider \in ProviderBlocks, files \in CLIFiles
  PROVE  CredentialsFit
<1> DEFINE Fits(a, x) ==
             /\ a.kind = IF provider.secret # "" THEN "secret" ELSE IF provider.use_msi THEN "msi" ELSE "cli"
             /\ a.kind = "secret" /\ ~provider.use_msi => a.client # ""
             /\ a.kind = "cli" =>
                  /\ Usable(a.token[1]) /\ a.token[1].tenant = x.tenant
                  /\ a.client = a.token[1].client
                  /\ provider.tenant = "" =>
                       \E s \in ToSet(files.profile) :
                          s.id = x.subscription /\ s.tenant = a.token[1].tenant
<1> SUFFICES ASSUME NEW client \in providerConfigure(provider, files)
             PROVE  /\ \A f \in {"subscription", "tenant"} :
                          provider[f] # "" => client.config[f] = provider[f]
                    /\ Configured(client.config, {"subscription", "tenant"})
                    /\ Audience(client.auth) = "management"
                    /\ \A a \in KeyVaultAuths(client) : Audience(a) = "vault" \/ a.kind = "cli"
                    /\ \A a \in {client.auth} \cup KeyVaultAuths(client) : Fits(a, client.config)
  BY DEF CredentialsFit
<1>1. PICK x \in Validated(provider, files) : client \in getArmClient(x, files)
  BY DEF providerConfigure
<1>2. client.config = x /\ client.auth \in getAuthorizationToken(x, files, "management")
  BY <1>1 DEF getArmClient
<1>3. \A f \in {"subscription", "tenant"} : provider[f] # "" => client.config[f] = provider[f]
  BY <1>2, WhatIsValidated
<1>4. Configured(client.config, {"subscription", "tenant"})
  BY <1>2, WhatIsValidated DEF Configured
<1>5. ASSUME NEW cli \in CLIFiles, NEW endpoint, NEW a \in getAuthorizationToken(x, cli, endpoint)
      PROVE  Fits(a, x) /\ Audience(a) = IF a.kind = "cli" THEN "management" ELSE endpoint
  <2>1. /\ a.kind = IF x.secret # "" THEN "secret" ELSE IF x.use_msi THEN "msi" ELSE "cli"
        /\ a.kind = "secret" => a.client = x.client
        /\ a.kind = "cli" =>
             Usable(a.token[1]) /\ a.token[1].tenant = x.tenant /\ a.client = a.token[1].client
        /\ Audience(a) = IF a.kind = "cli" THEN "management" ELSE endpoint
    BY WhatIsValidated, Authorised
  <2> QED
    BY <2>1, WhatIsValidated
<1> HIDE DEF Fits
<1>6. Fits(client.auth, x) /\ Audience(client.auth) = "management"
  BY <1>2, <1>5
<1>7. ASSUME NEW a \in KeyVaultAuths(client)
      PROVE  Fits(a, x) /\ (Audience(a) = "vault" \/ a.kind = "cli")
  <2>1. PICK later \in CLIFiles : a \in getAuthorizationToken(x, later, "vault")
    BY <1>2 DEF KeyVaultAuths, KeyVaultAuth
  <2> QED
    BY <1>5, <2>1
<1> QED
  BY <1>2, <1>3, <1>4, <1>6, <1>7

-----------------------------------------------------------------------------
(* IDs. *)

\* The places of a key in a path, and its last value.
At(path, k)   == {i \in 1..(Len(path) \div 2) : path[2 * i - 1] = k}
LastValue(path, k) == path[2 * Max(At(path, k))]

GroupKey(path) == IF At(path, "resourceGroups") # {} THEN "resourceGroups" ELSE "resourcegroups"

Parses(path) ==
  /\ Len(path) % 2 = 0 /\ "" \notin ToSet(path)
  /\ At(path, "subscriptions") # {} /\ At(path, GroupKey(path)) # {}

\* What ParseAzureResourceID finds in a path is the last value of each key.
LEMMA Parsed ==
  ASSUME NEW S, NEW path \in Seq(S)
  PROVE  /\ ~Parses(path) => ParseAzureResourceID(path) = {}
         /\ Parses(path) =>
              \E id : /\ ParseAzureResourceID(path) = {id}
                      /\ id.ResourceGroup = LastValue(path, GroupKey(path))
                      /\ \A k \in {"deployments", "Deployments"} :
                           /\ k \in DOMAIN id.Path <=> At(path, k) # {}
                           /\ At(path, k) # {} => id.Path[k] = LastValue(path, k)
<1> DEFINE half == Len(path) \div 2
           pairs == [i \in 1..half |-> <<path[2 * i - 1], path[2 * i]>>]
           subscription == SelectInSeq(pairs, LAMBDA p : p[1] = "subscriptions")
           others == DOMAIN pairs \ {subscription}
           of(k) == {i \in others : pairs[i][1] = k}
           map == [k \in {pairs[i][1] : i \in others} |-> pairs[Max(of(k))][2]]
           group == IF "resourceGroups" \in DOMAIN map THEN "resourceGroups" ELSE "resourcegroups"
           id == [SubscriptionID |-> pairs[subscription][2], ResourceGroup |-> map[group],
                  Path |-> [k \in DOMAIN map \ {group, "providers"} |-> map[k]]]
<1>1. half \in Nat /\ \A i \in 1..half : 2 * i - 1 \in DOMAIN path /\ 2 * i \in DOMAIN path
  OBVIOUS
<1>2. /\ pairs \in Seq(S \X S) /\ Len(pairs) = half /\ DOMAIN pairs = 1..half
      /\ \A i \in 1..half : pairs[i][1] = path[2 * i - 1] /\ pairs[i][2] = path[2 * i]
  <2>1. \A i \in 1..half : path[2 * i - 1] \in S /\ path[2 * i] \in S
    BY <1>1
  <2>2. pairs \in [1..half -> S \X S]
    BY <2>1
  <2> HIDE DEF half
  <2> QED
    BY <1>1, <2>2
<1>3. /\ At(path, "subscriptions") = {} => subscription = 0
      /\ At(path, "subscriptions") # {} => subscription \in At(path, "subscriptions")
  <2> DEFINE I == {i \in 1..Len(pairs) : pairs[i][1] = "subscriptions"}
  <2>1. subscription = IF I # {} THEN Min(I) ELSE 0
    BY DEF SelectInSeq
  <2> HIDE DEF pairs, subscription
  <2>2. I = At(path, "subscriptions")
    BY <1>2 DEF At
  <2>3. I \in SUBSET (1..half)
    BY <1>2
  <2> HIDE DEF I, half
  <2>4. I # {} => Min(I) \in I
    BY <1>1, <2>3, FirstIndex
  <2> QED
    BY <2>1, <2>2, <2>4
<1>4. ASSUME NEW k, k # "subscriptions"
      PROVE  of(k) = At(path, k)
  <2> HIDE DEF pairs, subscription
  <2>1. \A i \in 1..half : pairs[i][1] = k => i # subscription
    BY <1>1, <1>2, <1>3, <1>4 DEF At
  <2> QED
    BY <1>2, <2>1 DEF At
<1>5. ASSUME NEW k, k # "subscriptions"
      PROVE  /\ k \in DOMAIN map <=> At(path, k) # {}
             /\ At(path, k) # {} => map[k] = LastValue(path, k)
  <2> HIDE DEF pairs, subscription
  <2>1. k \in DOMAIN map <=> of(k) # {}
    OBVIOUS
  <2>2. At(path, k) # {} => Max(At(path, k)) \in 1..half
    BY <1>1, LastIndex DEF At
  <2>3. k \in DOMAIN map => map[k] = pairs[Max(of(k))][2]
    OBVIOUS
  <2> HIDE DEF of, map, half
  <2> QED
    BY <1>2, <1>4, <1>5, <2>1, <2>2, <2>3 DEF LastValue
<1>6. group = GroupKey(path)
  <2> HIDE DEF map
  <2> QED
    BY <1>5 DEF GroupKey
<1>7. ParseAzureResourceID(path) =
        IF \/ Len(path) % 2 # 0 \/ "" \in ToSet(path)
           \/ subscription = 0 \/ group \notin DOMAIN map
        THEN {} ELSE {id}
  BY DEF ParseAzureResourceID
<1>8. Parses(path) <=> ~(\/ Len(path) % 2 # 0 \/ "" \in ToSet(path)
                         \/ subscription = 0 \/ group \notin DOMAIN map)
  <2>1. subscription = 0 <=> At(path, "subscriptions") = {}
    <3> HIDE DEF subscription
    <3> QED
      BY <1>3 DEF At
  <2>2. GroupKey(path) # "subscriptions"
    BY DEF GroupKey
  <2> HIDE DEF subscription, group, map
  <2> QED
    BY <1>5, <1>6, <2>1, <2>2 DEF Parses
<1>9. ASSUME Parses(path)
      PROVE  /\ id.ResourceGroup = LastValue(path, GroupKey(path))
             /\ \A k \in {"deployments", "Deployments"} :
                  /\ k \in DOMAIN id.Path <=> At(path, k) # {}
                  /\ At(path, k) # {} => id.Path[k] = LastValue(path, k)
  <2> HIDE DEF subscription, map
  <2>1. id.ResourceGroup = map[group] /\ id.Path = [k \in DOMAIN map \ {group, "providers"} |-> map[k]]
    OBVIOUS
  <2>2. group \in {"resourceGroups", "resourcegroups"}
    OBVIOUS
  <2> HIDE DEF group, id
  <2> QED
    BY <1>5, <1>6, <1>9, <2>1, <2>2 DEF Parses
<1> QED
  <2> HIDE DEF id, subscription, group, map
  <2> QED
    BY <1>7, <1>8, <1>9

\* A path of eight segments has four pairs of them.
LEMMA EightSegments ==
  ASSUME NEW S, NEW path \in Seq(S), Len(path) = 8
  PROVE  /\ Len(path) % 2 = 0 /\ DOMAIN path = 1..8
         /\ \A k : path[1] = k => At(path, k) # {}
         /\ \A k : path[1] # k /\ path[3] = k /\ path[5] # k /\ path[7] # k =>
              At(path, k) # {} /\ LastValue(path, k) = path[4]
<1>1. Len(path) \div 2 = 4 /\ Len(path) % 2 = 0 /\ DOMAIN path = 1..8
  OBVIOUS
<1>2. 1..4 = {1, 2, 3, 4}
  OBVIOUS
<1>3. Max({2}) = 2
  <2>1. {2} \in SUBSET (1..2) /\ {2} # {} /\ 2 \in Nat
    OBVIOUS
  <2>2. Max({2}) \in {2}
    BY <2>1, LastIndex
  <2> QED
    BY <2>2
<1>4. \A k : At(path, k) = {i \in {1, 2, 3, 4} : path[2 * i - 1] = k}
  BY <1>1, <1>2 DEF At
<1>5. 2 * 1 - 1 = 1 /\ 2 * 2 - 1 = 3 /\ 2 * 3 - 1 = 5 /\ 2 * 4 - 1 = 7 /\ 2 * 2 = 4
  OBVIOUS
<1>6. ASSUME NEW k, path[1] = k
      PROVE  At(path, k) # {}
  <2>1. 1 \in At(path, k)
    BY <1>4, <1>5, <1>6
  <2> QED
    BY <2>1
<1>7. ASSUME NEW k, path[1] # k /\ path[3] = k /\ path[5] # k /\ path[7] # k
      PROVE  At(path, k) # {} /\ LastValue(path, k) = path[4]
  <2>1. At(path, k) = {2}
    BY <1>4, <1>5, <1>7
  <2> QED
    BY <1>3, <1>5, <2>1 DEF LastValue
<1> QED
  BY <1>1, <1>6, <1>7

HasSegments(path, group, name) ==
  /\ Len(path) = 8
  /\ path[1] = "subscriptions" /\ path[2] = "sub" /\ path[3] = "resourceGroups"
  /\ path[4] = group /\ path[5] = "providers" /\ path[6] = "Microsoft.Resources"
  /\ path[7] = "deployments" /\ path[8] = name

LEMMA DeploymentSegments ==
  ASSUME NEW group, NEW name, NEW path, path = DeploymentID(group, name)
  PROVE  /\ \E S : path \in Seq(S)
         /\ HasSegments(path, group, name)
<1> DEFINE keys == {"subscriptions", "sub", "resourceGroups", "providers", "Microsoft.Resources", "deployments"}
           S == keys \cup {group, name}
<1>1. path \in Seq(S) /\ Len(path) = 8
  <2>1. keys \subseteq S /\ group \in S /\ name \in S
    OBVIOUS
  <2> HIDE DEF S
  <2> QED
    BY <2>1 DEF DeploymentID
<1>2. /\ path[1] = "subscriptions" /\ path[2] = "sub" /\ path[3] = "resourceGroups"
      /\ path[4] = group /\ path[5] = "providers" /\ path[6] = "Microsoft.Resources"
      /\ path[7] = "deployments" /\ path[8] = name
  BY DEF DeploymentID
<1> HIDE DEF S
<1> QED
  BY <1>1, <1>2 DEF HasSegments

LEMMA UpToEight == 1..8 = {1, 2, 3, 4, 5, 6, 7, 8}
OBVIOUS

\* The readers find a deployment under the ID that Azure gives it.
LEMMA DeploymentParsed ==
  ASSUME NEW group, group # "", NEW name, name # ""
  PROVE  \E id : /\ ParseAzureResourceID(DeploymentID(group, name)) = {id}
                 /\ id.ResourceGroup = group
<1>1. PICK path : path = DeploymentID(group, name)
  OBVIOUS
<1>2. PICK S : path \in Seq(S)
  BY <1>1, DeploymentSegments
<1>3. /\ Len(path) = 8
      /\ path[1] = "subscriptions" /\ path[2] = "sub" /\ path[3] = "resourceGroups"
      /\ path[4] = group /\ path[5] = "providers" /\ path[6] = "Microsoft.Resources"
      /\ path[7] = "deployments" /\ path[8] = name
  <2>1. HasSegments(path, group, name)
    BY <1>1, DeploymentSegments
  <2> QED
    BY <2>1 DEF HasSegments
<1>4. /\ Len(path) % 2 = 0 /\ DOMAIN path = 1..8
      /\ At(path, "subscriptions") # {}
      /\ At(path, "resourceGroups") # {} /\ LastValue(path, "resourceGroups") = group
  BY <1>2, <1>3, EightSegments
<1>5. "" \notin ToSet(path)
  <2>1. \A i \in {1, 2, 3, 4, 5, 6, 7, 8} : path[i] # ""
    BY <1>3
  <2> QED
    BY <1>4, <2>1, UpToEight DEF ToSet
<1>6. GroupKey(path) = "resourceGroups" /\ Parses(path)
  BY <1>4, <1>5 DEF GroupKey, Parses
<1>7. \E id : ParseAzureResourceID(path) = {id} /\ id.ResourceGroup = LastValue(path, GroupKey(path))
  BY <1>2, <1>6, Parsed
<1> QED
  BY <1>1, <1>4, <1>6, <1>7

-----------------------------------------------------------------------------
(* Attributes. *)

Attributes ==
  {"name", "resource_group", "location", "kubernetes_version", "linux_profile", "windows_profile",
   "service_principal", "master_profile", "agent_pool_profiles", "tags"}

\* The attributes nothing touches between the configuration and the api_model.
Kept == {"name", "linux_profile", "windows_profile", "service_principal", "master_profile",
         "agent_pool_profiles", "tags"}

LEMMA ConfigurationTyped ==
  ASSUME NEW c \in Configurations
  PROVE  /\ c = [a \in Attributes |-> c[a]]
         /\ c.name # "" /\ Normal[c.resource_group] # ""
         /\ c.location \in DOMAIN Normal
         /\ c.windows_profile \in Seq([admin_username : Word, admin_password : Word])
         /\ c.service_principal \in [client_id : Word, vault_id : Word, secret_name : Word]
         /\ c.master_profile \in
              [count : Int, dns_name_prefix : Word, vm_size : Word, os_disk_size : Int]
         /\ c.agent_pool_profiles \in Seq(Pools)
BY AttributesAssumption DEF Attributes, Word

\* What the api_model says of the cluster.
LEMMA Modelled ==
  ASSUME NEW c \in Configurations
  PROVE  /\ ApiModel(c) = [a \in Attributes |-> ApiModel(c)[a]]
         /\ \A a \in Kept : ApiModel(c)[a] = c[a]
         /\ ApiModel(c).location = Normal[c.location]
         /\ ApiModel(c).kubernetes_version =
              IF Rounded(c) THEN LatestPatch[c.kubernetes_version] ELSE c.kubernetes_version
<1> DEFINE s == setContainerService(c)
           g == GenerateTemplate(s)
<1>1. /\ s = [a \in Attributes |-> s[a]]
      /\ \A a \in Kept \cup {"kubernetes_version"} : s[a] = c[a]
      /\ s.location = Normal[c.location]
  <2>1. c = [a \in Attributes |-> c[a]]
    BY ConfigurationTyped
  <2>2. s = [c EXCEPT !.location = Normal[c.location]]
    BY DEF setContainerService
  <2> HIDE DEF s
  <2> QED
    BY <2>1, <2>2 DEF Attributes, Kept
<1>2. HasWindows(s) = HasWindows(c)
  BY <1>1 DEF HasWindows, Kept
<1> HIDE DEF s
<1>3. /\ g = [a \in Attributes |-> g[a]]
      /\ \A a \in Kept : g[a] = c[a]
      /\ g.location = Normal[c.location]
      /\ g.kubernetes_version =
           IF Rounded(c) THEN LatestPatch[c.kubernetes_version] ELSE c.kubernetes_version
  BY <1>1, <1>2 DEF GenerateTemplate, Rounded, Attributes, Kept
<1>4. ApiModel(c) = [g EXCEPT !.resource_group = ""]
  BY DEF ApiModel, s
<1> HIDE DEF g
<1> QED
  BY <1>3, <1>4 DEF Attributes, Kept

\* What is loaded of it, and when it is not.
LEMMA Loaded ==
  ASSUME NEW c \in Configurations
  PROVE  /\ \A l \in loadContainerServiceFromApimodel(ApiModel(c)) :
              /\ l = [a \in Attributes |-> l[a]]
              /\ \A a \in Kept : l[a] = c[a]
              /\ l.location = Normal[c.location]
              /\ l.kubernetes_version =
                   IF Rounded(c) THEN LatestPatch[c.kubernetes_version] ELSE c.kubernetes_version
         /\ loadContainerServiceFromApimodel(ApiModel(c)) = {} => Unreadable(c)
<1> DEFINE m == ApiModel(c)
<1>1. /\ m = [a \in Attributes |-> m[a]]
      /\ \A a \in Kept : m[a] = c[a]
      /\ m.location = Normal[c.location]
      /\ m.kubernetes_version =
           IF Rounded(c) THEN LatestPatch[c.kubernetes_version] ELSE c.kubernetes_version
  BY Modelled
<1> HIDE DEF m
<1>2. Normal[m.location] = m.location
  BY <1>1, ConfigurationTyped, AttributesAssumption
<1>3. ASSUME NEW l \in loadContainerServiceFromApimodel(m)
      PROVE  l = [m EXCEPT !.location = Normal[@]]
  BY DEF loadContainerServiceFromApimodel
<1>4. ASSUME NEW l \in loadContainerServiceFromApimodel(m)
      PROVE  l = m
  BY <1>1, <1>2, <1>3 DEF Attributes
<1>5. ASSUME ~Valid(m)
      PROVE  Unreadable(c)
  <2>1. /\ m.agent_pool_profiles = c.agent_pool_profiles /\ m.master_profile = c.master_profile
        /\ m.windows_profile = c.windows_profile /\ HasWindows(m) = HasWindows(c)
        /\ m.service_principal = c.service_principal
    BY <1>1 DEF HasWindows, Kept
  <2>2. HasWindows(c) => m.kubernetes_version \in WindowsVersions /\ c.windows_profile # <<>>
    BY <1>1, AttributesAssumption DEF Rounded
  <2> QED
    BY <1>5, <2>1, <2>2 DEF Valid, Unreadable
<1>6. loadContainerServiceFromApimodel(m) = {} => ~Valid(m)
  BY DEF loadContainerServiceFromApimodel
<1> QED
  BY <1>1, <1>4, <1>5, <1>6 DEF m

\* What Read makes of it.
LEMMA ReadFromModel ==
  ASSUME NEW group, group # "", NEW name, name # "", NEW m
  PROVE  Read(DeploymentID(group, name), m) =
           {[setResourceStateProfiles(loaded) EXCEPT !.resource_group = group] :
              loaded \in loadContainerServiceFromApimodel(m)}
<1>1. PICK id : ParseAzureResourceID(DeploymentID(group, name)) = {id} /\ id.ResourceGroup = group
  BY DeploymentParsed
<1> DEFINE shown(i) == {[setResourceStateProfiles(loaded) EXCEPT !.resource_group = i.ResourceGroup] :
                          loaded \in loadContainerServiceFromApimodel(m)}
<1>2. Read(DeploymentID(group, name), m) = UNION {shown(i) : i \in ParseAzureResourceID(DeploymentID(group, name))}
  BY DEF Read
<1>3. UNION {shown(i) : i \in {id}} = shown(id)
  <2> HIDE DEF shown
  <2> QED
    OBVIOUS
<1> QED
  BY <1>1, <1>2, <1>3

\* No plan sees a difference between a configuration and the state read of its cluster,
\* except for the version that Windows agents had to be given.
LEMMA NothingChanges ==
  ASSUME NEW c \in Configurations, NEW l, NEW group, Same(group, c.resource_group),
         l = [a \in Attributes |-> l[a]],
         \A a \in Kept : l[a] = c[a],
         l.location = Normal[c.location],
         l.kubernetes_version =
           IF Rounded(c) THEN LatestPatch[c.kubernetes_version] ELSE c.kubernetes_version
  PROVE  Changes([setResourceStateProfiles(l) EXCEPT !.resource_group = group], c) =
           {a \in {"kubernetes_version"} : Rounded(c)}
<1> DEFINE p == setStateProfiles(l)
           r == setResourceStateProfiles(l)
           s == [r EXCEPT !.resource_group = group]
           pools == [i \in DOMAIN c.agent_pool_profiles |->
                       flattenAgentPoolProfile(c.agent_pool_profiles[i])]
<1>1. /\ p = [a \in Attributes |-> p[a]]
      /\ \A a \in {"name", "linux_profile", "windows_profile", "service_principal", "tags"} : p[a] = c[a]
      /\ p.location = Normal[c.location]
      /\ p.kubernetes_version = l.kubernetes_version
      /\ p.master_profile = flattenMasterProfile(c.master_profile, l.location)
      /\ p.agent_pool_profiles = pools
  BY DEF setStateProfiles, Attributes, Kept
<1>2. r = [p EXCEPT !.service_principal = flattenServicePrincipal(@)]
  BY DEF setResourceStateProfiles
<1>3. flattenServicePrincipal(c.service_principal) = c.service_principal
  BY ConfigurationTyped DEF flattenServicePrincipal
<1> HIDE DEF p, pools
<1>4. /\ s = [a \in Attributes |-> s[a]]
      /\ \A a \in {"name", "linux_profile", "windows_profile", "service_principal", "tags"} : s[a] = c[a]
      /\ s.location = Normal[c.location]
      /\ s.kubernetes_version = l.kubernetes_version
      /\ s.master_profile = flattenMasterProfile(c.master_profile, l.location)
      /\ s.agent_pool_profiles = pools
      /\ s.resource_group = group
  <2> HIDE DEF r
  <2>1. /\ r = [a \in Attributes |-> r[a]]
        /\ \A a \in Attributes \ {"service_principal"} : r[a] = p[a]
        /\ r.service_principal = c.service_principal
    BY <1>1, <1>2, <1>3 DEF Attributes
  <2> QED
    BY <1>1, <2>1 DEF Attributes
<1> HIDE DEF r, s
<1>5. s.kubernetes_version # c.kubernetes_version <=> Rounded(c)
  BY <1>4, AttributesAssumption DEF Rounded
<1>6. \A k \in {"count", "dns_name_prefix", "os_disk_size", "vm_size"} :
        s.master_profile[k] = c.master_profile[k]
  BY <1>4 DEF flattenMasterProfile
<1>7. /\ Len(pools) = Len(c.agent_pool_profiles)
      /\ \A i \in DOMAIN c.agent_pool_profiles : SamePool(pools[i], c.agent_pool_profiles[i])
  <2>1. ASSUME NEW q \in Pools
        PROVE  flattenAgentPoolProfile(q) \in Pools /\ SamePool(flattenAgentPoolProfile(q), q)
    BY DEF flattenAgentPoolProfile, SamePool, Same, Pools
  <2>2. c.agent_pool_profiles \in Seq(Pools)
    BY ConfigurationTyped
  <2>3. pools = [i \in 1..Len(c.agent_pool_profiles) |->
                   flattenAgentPoolProfile(c.agent_pool_profiles[i])]
    BY <2>2 DEF pools
  <2>4. Len(pools) = Len(c.agent_pool_profiles)
    BY <2>1, <2>2, <2>3
  <2>5. \A i \in DOMAIN c.agent_pool_profiles :
          /\ c.agent_pool_profiles[i] \in Pools
          /\ pools[i] = flattenAgentPoolProfile(c.agent_pool_profiles[i])
    BY <2>2, <2>3
  <2> QED
    BY <2>1, <2>4, <2>5
<1>8. Same(s.location, c.location)
  BY <1>4, ConfigurationTyped, AttributesAssumption DEF Same
<1>9. \A a \in {"name", "linux_profile", "windows_profile", "service_principal", "tags"} : s[a] = c[a]
  BY <1>4
<1>10. Changes(s, c) = {a \in {"kubernetes_version"} : Rounded(c)}
  <2>1. {a \in {"name", "kubernetes_version", "linux_profile", "windows_profile", "service_principal"} :
           s[a] # c[a]} = {a \in {"kubernetes_version"} : Rounded(c)}
    BY <1>5, <1>9
  <2>2. {a \in {"location", "resource_group"} : ~Same(s[a], c[a])} = {}
    BY <1>4, <1>8
  <2>3. {a \in {"master_profile"} :
           \/ \E k \in {"count", "dns_name_prefix", "os_disk_size"} : s[a][k] # c[a][k]
           \/ ~Same(s[a].vm_size, c[a].vm_size)} = {}
    BY <1>6 DEF Same
  <2>4. {a \in {"agent_pool_profiles"} :
           \/ Len(s[a]) # Len(c[a])
           \/ \E i \in DOMAIN c[a] : ~SamePool(s[a][i], c[a][i])} = {}
    BY <1>4, <1>7
  <2>5. {a \in {"tags"} : c[a] # {} /\ s[a] # c[a]} = {}
    BY <1>9
  <2> QED
    BY <2>1, <2>2, <2>3, <2>4, <2>5 DEF Changes
<1> QED
  BY <1>10 DEF s, r

\* A deployment of a configuration can have an ID.
LEMMA DeployedNamed ==
  ASSUME NEW c \in Configurations, NEW d \in Deployed(c)
  PROVE  /\ d.group # "" /\ d.name = c.name /\ c.name # ""
         /\ Same(d.group, c.resource_group)
<1>1. PICK g \in {w \in DOMAIN Normal : Same(w, c.resource_group)} : d = [group |-> g, name |-> c.name]
  BY DEF Deployed
<1>2. d.group = g /\ d.name = c.name
  BY <1>1
<1>3. Normal[g] = Normal[c.resource_group]
  BY <1>1 DEF Same
<1>4. c.name # "" /\ Normal[c.resource_group] # ""
  BY ConfigurationTyped
<1>5. g # ""
  BY <1>3, <1>4, AttributesAssumption
<1> QED
  BY <1>2, <1>3, <1>4, <1>5 DEF Same

\* What Create records is what every Read can read, and no plan sees a difference to the
\* configuration, whatever it is; excepted are a version that Windows agents do not run on and
\* what acs-engine refuses to load, as CreatedIsReadBack lists it.
THEOREM CreatedReadsBack ==
  ASSUME configuration \in Configurations
  PROVE  CreatedIsReadBack
<1> DEFINE c == configuration
<1> SUFFICES ASSUME NEW d \in Deployed(c)
             PROVE  ReadsBack(c, Read(DeploymentID(d.group, d.name), ApiModel(c)))
  BY DEF CreatedIsReadBack
<1> HIDE DEF c
<1>1. c \in Configurations
  BY DEF c
<1> DEFINE loaded == loadContainerServiceFromApimodel(ApiModel(c))
           states == Read(DeploymentID(d.group, d.name), ApiModel(c))
<1>2. d.group # "" /\ d.name # "" /\ Same(d.group, c.resource_group)
  BY <1>1, DeployedNamed
<1>3. states = {[setResourceStateProfiles(l) EXCEPT !.resource_group = d.group] : l \in loaded}
  BY <1>2, ReadFromModel
<1> HIDE DEF states
<1>4. ASSUME NEW s \in states
      PROVE  Changes(s, c) = {a \in {"kubernetes_version"} : Rounded(c)}
  <2>1. PICK l \in loaded : s = [setResourceStateProfiles(l) EXCEPT !.resource_group = d.group]
    BY <1>3
  <2> HIDE DEF loaded
  <2>2. /\ l = [a \in Attributes |-> l[a]]
        /\ \A a \in Kept : l[a] = c[a]
        /\ l.location = Normal[c.location]
        /\ l.kubernetes_version =
             IF Rounded(c) THEN LatestPatch[c.kubernetes_version] ELSE c.kubernetes_version
    BY <1>1, <2>1, Loaded DEF loaded
  <2> QED
    BY <1>1, <1>2, <2>1, <2>2, NothingChanges
<1>5. states = {} => loaded = {}
  <2> HIDE DEF loaded
  <2> QED
    BY <1>3
<1>6. loaded = {} => Unreadable(c)
  BY <1>1, Loaded
<1> QED
  <2> HIDE DEF loaded
  <2> QED
    BY <1>4, <1>5, <1>6 DEF ReadsBack, states

-----------------------------------------------------------------------------
(* Imports and the data source. *)

LEMMA OddNumber ==
  ASSUME NEW j \in Nat, j % 2 = 1
  PROVE  \E i \in Int : j = 2 * i - 1
<1>1. (j + 1) % 2 = 0
  OBVIOUS
<1>2. j + 1 = 2 * ((j + 1) \div 2)
  BY <1>1
<1> QED
  BY <1>2

\* The value of the key that an import goes by, if there is one.
LEMMA ValueFound ==
  ASSUME NEW S, NEW path \in Seq(S), Len(path) % 2 = 0, NEW key, NEW other
  PROVE  ValueOf(path, key, other) =
           IF At(path, key) # {} THEN {LastValue(path, key)}
           ELSE IF At(path, other) # {} THEN {LastValue(path, other)} ELSE {}
<1> DEFINE at(k) == {i \in DOMAIN path : i % 2 = 1 /\ path[i] = k}
           last(k) == {j \in at(k) : \A l \in at(k) : l <= j}
           half == Len(path) \div 2
<1>1. half \in Nat /\ Len(path) = 2 * half /\ DOMAIN path = 1..(2 * half)
  OBVIOUS
<1>2. ASSUME NEW k
      PROVE  at(k) = {2 * i - 1 : i \in At(path, k)}
  <2>1. ASSUME NEW i \in At(path, k)
        PROVE  2 * i - 1 \in at(k)
    BY <1>1, <2>1 DEF At
  <2>2. ASSUME NEW j \in at(k)
        PROVE  \E i \in At(path, k) : j = 2 * i - 1
    <3>1. j \in 1..(2 * half) /\ j % 2 = 1 /\ path[j] = k
      BY <1>1
    <3>2. PICK i \in Int : j = 2 * i - 1
      <4>1. j \in Nat /\ j % 2 = 1
        BY <1>1, <3>1
      <4> QED
        BY <4>1, OddNumber
    <3>3. i \in 1..half
      BY <1>1, <3>1, <3>2
    <3> QED
      BY <3>1, <3>2, <3>3 DEF At
  <2> QED
    BY <2>1, <2>2
<1>3. ASSUME NEW k, At(path, k) # {}
      PROVE  {path[i + 1] : i \in last(k)} = {LastValue(path, k)}
  <2> DEFINE m == Max(At(path, k))
  <2>1. m \in At(path, k) /\ m \in 1..half /\ \A i \in At(path, k) : i <= m
    BY <1>1, <1>3, LastIndex DEF At
  <2> HIDE DEF m
  <2>2. last(k) = {2 * m - 1}
    <3>1. \A i \in At(path, k) : i \in Int
      BY DEF At
    <3> HIDE DEF at
    <3>2. 2 * m - 1 \in last(k)
      <4>1. 2 * m - 1 \in at(k)
        BY <1>2, <2>1
      <4>2. ASSUME NEW l \in at(k)
            PROVE  l <= 2 * m - 1
        <5>1. PICK i \in At(path, k) : l = 2 * i - 1
          BY <1>2
        <5>2. i <= m /\ i \in Int /\ m \in Int
          BY <2>1, <3>1
        <5> QED
          BY <5>1, <5>2
      <4> QED
        BY <4>1, <4>2
    <3>3. ASSUME NEW j \in last(k)
          PROVE  j = 2 * m - 1
      <4>1. 2 * m - 1 \in at(k) /\ j \in at(k)
        BY <1>2, <2>1
      <4>2. PICK i \in At(path, k) : j = 2 * i - 1
        BY <1>2, <4>1
      <4>3. i <= m /\ 2 * m - 1 <= j /\ i \in Int /\ m \in Int
        BY <2>1, <3>1, <4>1, <4>2
      <4> QED
        BY <4>2, <4>3
    <3> QED
      BY <3>2, <3>3
  <2>3. (2 * m - 1) + 1 = 2 * m
    BY <2>1
  <2> HIDE DEF last
  <2> QED
    BY <2>2, <2>3 DEF LastValue, m
<1>4. ASSUME NEW k, At(path, k) = {}
      PROVE  at(k) = {} /\ {path[i + 1] : i \in last(k)} = {}
  <2>1. at(k) = {}
    <3> HIDE DEF at
    <3> QED
      BY <1>2, <1>4
  <2> QED
    BY <2>1
<1>5. ASSUME NEW k, At(path, k) # {}
      PROVE  at(k) # {}
  <2> HIDE DEF at
  <2> QED
    BY <1>2, <1>5
<1>6. ValueOf(path, key, other) = {path[i + 1] : i \in last(IF at(key) # {} THEN key ELSE other)}
  BY DEF ValueOf
<1> HIDE DEF at, last
<1> QED
  BY <1>3, <1>4, <1>5, <1>6

\* The key under which an import finds the name of a deployment.
NameKey(path) == IF At(path, "deployments") # {} THEN "deployments" ELSE "Deployments"

\* A path names a deployment if it parses and the last values of its keys do.
LEMMA NamedByPath ==
  ASSUME NEW S, NEW path \in Seq(S), NEW d
  PROVE  NamesDeployment(path, d) <=>
           /\ Parses(path) /\ At(path, NameKey(path)) # {}
           /\ Same(LastValue(path, GroupKey(path)), d.group)
           /\ Same(LastValue(path, NameKey(path)), d.name)
<1>1. CASE Len(path) % 2 # 0
  BY <1>1 DEF NamesDeployment, Parses
<1>2. CASE Len(path) % 2 = 0
  <2>1. ValueOf(path, "subscriptions", "subscriptions") # {} <=> At(path, "subscriptions") # {}
    BY <1>2, ValueFound
  <2>2. ValueOf(path, "resourceGroups", "resourcegroups") =
          IF At(path, GroupKey(path)) # {} THEN {LastValue(path, GroupKey(path))} ELSE {}
    BY <1>2, ValueFound DEF GroupKey
  <2>3. ValueOf(path, "deployments", "Deployments") =
          IF At(path, NameKey(path)) # {} THEN {LastValue(path, NameKey(path))} ELSE {}
    BY <1>2, ValueFound DEF NameKey
  <2> QED
    BY <1>2, <2>1, <2>2, <2>3 DEF NamesDeployment, Parses
<1> QED
  BY <1>1, <1>2

\* What an import looks for.
LEMMA NamedByImport ==
  ASSUME NEW S, NEW path \in Seq(S)
  PROVE  deploymentNameAndResourceGroup(path) =
           IF Parses(path) /\ At(path, NameKey(path)) # {}
           THEN {<<LastValue(path, GroupKey(path)), LastValue(path, NameKey(path))>>} ELSE {}
<1> DEFINE key(id) == IF "deployments" \in DOMAIN id.Path THEN "deployments" ELSE "Deployments"
<1>1. deploymentNameAndResourceGroup(path) =
        {<<id.ResourceGroup, id.Path[key(id)]>> :
            id \in {x \in ParseAzureResourceID(path) : key(x) \in DOMAIN x.Path}}
  BY DEF deploymentNameAndResourceGroup, NamedBy
<1>2. CASE ~Parses(path)
  <2>1. ParseAzureResourceID(path) = {}
    BY <1>2, Parsed
  <2> QED
    BY <1>1, <1>2, <2>1
<1>3. CASE Parses(path)
  <2>1. PICK id : /\ ParseAzureResourceID(path) = {id}
                  /\ id.ResourceGroup = LastValue(path, GroupKey(path))
                  /\ \A k \in {"deployments", "Deployments"} :
                       /\ k \in DOMAIN id.Path <=> At(path, k) # {}
                       /\ At(path, k) # {} => id.Path[k] = LastValue(path, k)
    BY <1>3, Parsed
  <2>2. key(id) = NameKey(path)
    BY <2>1 DEF NameKey
  <2>3. /\ key(id) \in DOMAIN id.Path <=> At(path, NameKey(path)) # {}
        /\ At(path, NameKey(path)) # {} => id.Path[key(id)] = LastValue(path, NameKey(path))
    BY <2>1, <2>2 DEF NameKey
  <2> HIDE DEF key
  <2>4. CASE At(path, NameKey(path)) # {}
    <3>1. {x \in ParseAzureResourceID(path) : key(x) \in DOMAIN x.Path} = {id}
      BY <2>1, <2>3, <2>4
    <3> QED
      BY <1>1, <1>3, <2>1, <2>3, <2>4, <3>1
  <2>5. CASE At(path, NameKey(path)) = {}
    <3>1. {x \in ParseAzureResourceID(path) : key(x) \in DOMAIN x.Path} = {}
      BY <2>1, <2>3, <2>5
    <3> QED
      BY <1>1, <2>5, <3>1
  <2> QED
    BY <2>4, <2>5
<1> QED
  BY <1>2, <1>3

\* An import takes the deployment its path names, and no other one.
LEMMA Imported ==
  ASSUME NEW S, NEW path \in Seq(S), NEW d
  PROVE  Importable(<<path, "_output">>, {d}) = {x \in {d} : NamesDeployment(path, x)}
<1> DEFINE group == LastValue(path, GroupKey(path))
           name == LastValue(path, NameKey(path))
           found == deploymentNameAndResourceGroup(path)
<1>1. Importable(<<path, "_output">>, {d}) = UNION {Get({d}, f[1], f[2]) : f \in found}
  BY DEF Importable
<1>2. found = IF Parses(path) /\ At(path, NameKey(path)) # {} THEN {<<group, name>>} ELSE {}
  BY NamedByImport
<1>3. NamesDeployment(path, d) <=>
        Parses(path) /\ At(path, NameKey(path)) # {} /\ Same(group, d.group) /\ Same(name, d.name)
  BY NamedByPath
<1> HIDE DEF group, name, found
<1>4. CASE ~(Parses(path) /\ At(path, NameKey(path)) # {})
  BY <1>1, <1>2, <1>3, <1>4
<1>5. CASE Parses(path) /\ At(path, NameKey(path)) # {}
  <2>1. Importable(<<path, "_output">>, {d}) = Get({d}, group, name)
    <3> DEFINE of(f) == Get({d}, f[1], f[2])
    <3>1. found = {<<group, name>>}
      BY <1>2, <1>5
    <3>2. of(<<group, name>>) = Get({d}, group, name)
      OBVIOUS
    <3>3. Importable(<<path, "_output">>, {d}) = UNION {of(f) : f \in {<<group, name>>}}
      BY <1>1, <3>1
    <3> HIDE DEF of
    <3>4. UNION {of(f) : f \in {<<group, name>>}} = of(<<group, name>>)
      OBVIOUS
    <3> QED
      BY <3>2, <3>3, <3>4
  <2>2. Get({d}, group, name) = {x \in {d} : Same(x.group, group) /\ Same(x.name, name)}
    BY DEF Get
  <2> QED
    BY <1>3, <1>5, <2>1, <2>2 DEF Same
<1> QED
  BY <1>4, <1>5

LEMMA HasFirst ==
  ASSUME NEW S, NEW seq \in Seq(S), seq # <<>>
  PROVE  1 \in DOMAIN seq /\ seq[1] \in S
OBVIOUS

\* The data source shows a deployment as the resource does, without secrets.
LEMMA ShownAlike ==
  ASSUME NEW c \in Configurations, NEW d \in Deployed(c)
  PROVE  DataSourceRead({d}, d.group, c.name, ApiModel(c)) =
           Shown(c, Read(DeploymentID(d.group, d.name), ApiModel(c)))
<1> DEFINE loaded == loadContainerServiceFromApimodel(ApiModel(c))
           read(l) == [setResourceStateProfiles(l) EXCEPT !.resource_group = d.group]
           public(s) == [s EXCEPT !.service_principal = [client_id |-> @.client_id]]
           shown(l) == [setDataSourceStateProfiles(l) EXCEPT !.name = d.name, !.resource_group = d.group]
<1>1. d.group # "" /\ d.name = c.name /\ c.name # ""
  BY DeployedNamed
<1>2. Read(DeploymentID(d.group, d.name), ApiModel(c)) = {read(l) : l \in loaded}
  BY <1>1, ReadFromModel
<1>3. Get({d}, d.group, c.name) = {d}
  BY <1>1 DEF Get, Same
<1>4. DataSourceRead({d}, d.group, c.name, ApiModel(c)) =
        {s \in {shown(l) : l \in loaded} : InDataSourceSchema(s)}
  <2> DEFINE of(x) == {[setDataSourceStateProfiles(l) EXCEPT !.name = x.name, !.resource_group = d.group] :
                         l \in loaded}
  <2>1. DataSourceRead({d}, d.group, c.name, ApiModel(c)) =
          {s \in UNION {of(x) : x \in Get({d}, d.group, c.name)} : InDataSourceSchema(s)}
    BY DEF DataSourceRead
  <2>2. UNION {of(x) : x \in {d}} = of(d)
    <3> HIDE DEF of
    <3> QED
      OBVIOUS
  <2> QED
    BY <1>3, <2>1, <2>2
<1>5. ASSUME NEW l \in loaded
      PROVE  shown(l) = public(read(l)) /\ (InDataSourceSchema(shown(l)) <=> c.windows_profile = <<>>)
  <2> HIDE DEF loaded
  <2>1. l = [a \in Attributes |-> l[a]] /\ \A a \in Kept : l[a] = c[a]
    BY Loaded DEF loaded
  <2> DEFINE p == setStateProfiles(l)
  <2>2. /\ p = [a \in Attributes |-> p[a]]
        /\ p.name = c.name /\ p.windows_profile = c.windows_profile
        /\ p.service_principal = c.service_principal
    BY <2>1 DEF setStateProfiles, Attributes, Kept
  <2>3. /\ setResourceStateProfiles(l) =
             [p EXCEPT !.service_principal = flattenServicePrincipal(c.service_principal)]
        /\ setDataSourceStateProfiles(l) =
             [p EXCEPT !.service_principal = flattenDataSourceServicePrincipal(c.service_principal)]
    <3> HIDE DEF p
    <3> QED
      BY <2>2 DEF setResourceStateProfiles, setDataSourceStateProfiles, p
  <2>4. /\ flattenServicePrincipal(c.service_principal).client_id = c.service_principal.client_id
        /\ flattenDataSourceServicePrincipal(c.service_principal) =
             [client_id |-> c.service_principal.client_id]
    BY DEF flattenServicePrincipal, flattenDataSourceServicePrincipal
  <2> HIDE DEF p
  <2>5. shown(l) = public(read(l))
    <3> DEFINE hidden == [client_id |-> c.service_principal.client_id]
               kept == flattenServicePrincipal(c.service_principal)
    <3>1. /\ shown(l) = [[p EXCEPT !.service_principal = hidden]
                          EXCEPT !.name = c.name, !.resource_group = d.group]
          /\ read(l) = [[p EXCEPT !.service_principal = kept] EXCEPT !.resource_group = d.group]
          /\ kept.client_id = c.service_principal.client_id
      BY <1>1, <2>3, <2>4
    <3> HIDE DEF hidden, kept, shown, read
    <3>2. read(l) = [a \in Attributes |-> IF a = "resource_group" THEN d.group
                                          ELSE IF a = "service_principal" THEN kept ELSE p[a]]
      BY <2>2, <3>1 DEF Attributes
    <3>3. read(l).service_principal.client_id = c.service_principal.client_id
      BY <3>1, <3>2 DEF Attributes
    <3>4. public(read(l)) = [read(l) EXCEPT !.service_principal = hidden]
      BY <3>3 DEF hidden
    <3> HIDE DEF public
    <3>5. public(read(l)) = [a \in Attributes |-> IF a = "resource_group" THEN d.group
                                          ELSE IF a = "service_principal" THEN hidden ELSE p[a]]
      BY <3>2, <3>4 DEF Attributes
    <3>6. shown(l) = [a \in Attributes |-> IF a = "resource_group" THEN d.group
                                          ELSE IF a = "service_principal" THEN hidden ELSE p[a]]
      BY <2>2, <3>1 DEF Attributes
    <3> QED
      BY <3>5, <3>6
  <2>6. /\ shown(l).windows_profile = c.windows_profile
        /\ DOMAIN shown(l).service_principal = {"client_id"}
    BY <2>2, <2>3, <2>4 DEF Attributes
  <2>7. c.windows_profile = <<>> \/ ~(\A w \in ToSet(c.windows_profile) : DOMAIN w \subseteq {"admin_username"})
    <3>1. c.windows_profile \in Seq([admin_username : Word, admin_password : Word])
      BY ConfigurationTyped
    <3>2. ASSUME c.windows_profile # <<>>
          PROVE  c.windows_profile[1] \in ToSet(c.windows_profile) /\ "admin_password" \in DOMAIN c.windows_profile[1]
      <4> DEFINE W == [admin_username : Word, admin_password : Word]
      <4>1. 1 \in DOMAIN c.windows_profile /\ c.windows_profile[1] \in W
        BY <3>1, <3>2, HasFirst
      <4>2. c.windows_profile[1] \in ToSet(c.windows_profile)
        BY <4>1 DEF ToSet
      <4>3. ASSUME NEW w \in W PROVE "admin_password" \in DOMAIN w
        OBVIOUS
      <4> QED
        BY <4>1, <4>2, <4>3
    <3> QED
      BY <3>2
  <2>8. c.windows_profile = <<>> => ToSet(c.windows_profile) = {}
    BY DEF ToSet
  <2> HIDE DEF shown
  <2> QED
    BY <2>5, <2>6, <2>7, <2>8 DEF InDataSourceSchema
<1> HIDE DEF loaded, read, shown, public
<1>6. Shown(c, {read(l) : l \in loaded}) =
        {public(s) : s \in {x \in {read(l) : l \in loaded} : c.windows_profile = <<>>}}
  BY DEF Shown, public
<1>7. CASE c.windows_profile = <<>>
  <2>1. Shown(c, {read(l) : l \in loaded}) = {public(read(l)) : l \in loaded}
    BY <1>6, <1>7
  <2>2. \A l \in loaded : shown(l) = public(read(l)) /\ InDataSourceSchema(shown(l))
    BY <1>5, <1>7
  <2>3. {s \in {shown(l) : l \in loaded} : InDataSourceSchema(s)} = {public(read(l)) : l \in loaded}
    BY <2>2
  <2> QED
    BY <1>2, <1>4, <2>1, <2>3
<1>8. CASE c.windows_profile # <<>>
  <2>1. Shown(c, {read(l) : l \in loaded}) = {}
    BY <1>6, <1>8
  <2>2. \A l \in loaded : ~InDataSourceSchema(shown(l))
    BY <1>5, <1>8
  <2>3. {s \in {shown(l) : l \in loaded} : InDataSourceSchema(s)} = {}
    BY <2>2
  <2> QED
    BY <1>2, <1>4, <2>1, <2>3
<1> QED
  BY <1>7, <1>8

\* An import takes the deployment its path names, whatever the path, and no other one.  The
\* data source shows what the resource reads, except secrets, and refuses a cluster with a
\* Windows profile, whatever its configuration.
THEOREM ReadersAlwaysAgree ==
  ASSUME configuration \in Configurations, importPath \in Seq(STRING)
  PROVE  ReadersAgree
BY Imported, ShownAlike DEF ReadersAgree
=============================================================================
