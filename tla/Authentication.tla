--------------------------- MODULE Authentication ---------------------------
(***************************************************************************)
(* How the provider finds its credentials: providerConfigure and           *)
(* getArmClient with internal/authentication.  A configuration names a     *)
(* subscription, a tenant, a client and its secret, or the machine's own   *)
(* identity (use_msi), or leaves some of it to the files of the Azure CLI, *)
(* which the user may change with az login while terraform runs.           *)
(*                                                                         *)
(* Everything is a function of its arguments; what may fail gives the set  *)
(* of its result, or the empty one.  "" stands for what is not set.        *)
(***************************************************************************)
EXTENDS Integers, Sequences, SequencesExt

CONSTANTS ProviderBlocks,  \* what a user may write, and the environment add to it
          CLIProfiles,     \* contents of azureProfile.json: sequences of subscriptions
          CLITokens        \* contents of accessTokens.json: sequences of tokens

ASSUME AuthenticationAssumption ==
  /\ ProviderBlocks \subseteq
       [subscription : STRING, tenant : STRING, client : STRING, secret : STRING,
        environment : STRING, use_msi : BOOLEAN, token : {<<>>}]
  /\ CLIProfiles \subseteq
       Seq([id : STRING, tenant : STRING, isDefault : BOOLEAN, environment : STRING])
  /\ CLITokens \subseteq
       Seq([tenant : STRING, resource : STRING, expired : BOOLEAN, parses : BOOLEAN,
            refresh : STRING, client : STRING])

\* The inputs the property speaks of, which never change.
VARIABLES provider,  \* the configuration of the provider
          files      \* the files of the Azure CLI when it is configured

CLIFiles == [profile : CLIProfiles, tokens : CLITokens]

-----------------------------------------------------------------------------
(* The files of the Azure CLI.                                              *)

FindDefaultSubscriptionID(profile) ==
  LET i == SelectInSeq(profile, LAMBDA s : s.isDefault) IN IF i = 0 THEN "" ELSE profile[i].id

FindSubscription(profile, id) ==
  LET i == SelectInSeq(profile, LAMBDA s : s.id = id) IN IF i = 0 THEN {} ELSE {profile[i]}

\* what a token is chosen by, wherever it will be sent
Usable(token) == ~token.expired /\ token.resource = "management"

AnyToken(tokens, tenant) ==
  LET i == SelectInSeq(tokens, LAMBDA t : ~t.parses \/ Usable(t))
  IN  IF i = 0 \/ ~tokens[i].parses THEN {} ELSE {tokens[i]}

\* an expiry that does not parse ends the search, also when a later token would do
findValidAccessTokenForTenant(tokens, tenant) ==
  LET i == SelectInSeq(tokens, LAMBDA t : ~t.parses \/ (Usable(t) /\ t.tenant = tenant))
  IN  IF i = 0 \/ ~tokens[i].parses THEN {} ELSE {tokens[i]}

\* what is configured stays, except for the environment
LoadTokensFromAzureCLI(c, cli) ==
  LET subscription == IF c.subscription # "" THEN c.subscription
                      ELSE FindDefaultSubscriptionID(cli.profile)
      found == FindSubscription(cli.profile, subscription)
      tenants == IF c.tenant # "" THEN {c.tenant} ELSE {s.tenant : s \in found} \ {""}
      environment == IF found = {} THEN c.environment ELSE (CHOOSE s \in found : TRUE).environment
  IN  UNION {{[c EXCEPT !.subscription = subscription, !.tenant = tenant, !.client = token.client,
                        !.token = <<token>>, !.environment = environment] :
                 token \in findValidAccessTokenForTenant(cli.tokens, tenant)} : tenant \in tenants}

-----------------------------------------------------------------------------
(* The provider.                                                            *)

Configured(c, fields) == \A f \in fields : c[f] # ""

ValidateBearerAuth(c) == c.token # <<>> /\ Configured(c, {"client", "subscription", "tenant"})

\* c with its credentials checked; the endpoint of an MSI is that of the machine
Validated(c, cli) ==
  IF c.use_msi THEN {x \in {c} : Configured(x, {"subscription", "tenant", "environment"})}
  ELSE IF c.secret # ""
  THEN {x \in {c} : Configured(x, {"subscription", "client", "tenant", "environment"})}
  ELSE {x \in LoadTokensFromAzureCLI(c, cli) : ValidateBearerAuth(x)}

\* without a refresh token the token is one of a CloudShell, which renews it in the file
IsCloudShell(c) == c.token[1].refresh = ""

\* What authorises the requests to one endpoint.  A secret and an MSI get their token for the
\* endpoint when it is first needed.  A token of the CLI is sent as it is, whatever resource it
\* was issued for; only the one that replaces it once it has expired is for the endpoint.
getAuthorizationToken(c, cli, endpoint) ==
  IF c.secret # ""
  THEN {[kind |-> "secret", client |-> c.client, resource |-> endpoint, token |-> <<>>]}
  ELSE IF c.use_msi
  THEN {[kind |-> "msi", client |-> "", resource |-> endpoint, token |-> <<>>]}
  ELSE {[kind |-> "cli", client |-> x.client, resource |-> endpoint, token |-> x.token] :
          x \in IF IsCloudShell(c) THEN LoadTokensFromAzureCLI(c, cli) ELSE {c}}

\* the environments of azure.EnvironmentFromName, by their short names
KnownEnvironments == {"public", "german"}

getArmClient(c, cli) ==
  {[config |-> c, auth |-> a] :
     a \in IF c.environment \in KnownEnvironments
           THEN getAuthorizationToken(c, cli, "management") ELSE {}}

providerConfigure(c, cli) == UNION {getArmClient(x, cli) : x \in Validated(c, cli)}

\* the key vault asks for a token when it is first used, whatever the files have become
KeyVaultAuth(client, cli) == getAuthorizationToken(client.config, cli, "vault")

-----------------------------------------------------------------------------
(* Properties.                                                              *)

\* the resource of the token that is sent, until one of the CLI expires
Audience(a) == IF a.kind = "cli" THEN a.token[1].resource ELSE a.resource

\* what the key vault is sent over the time of a client, whatever the user does in the CLI
KeyVaultAuths(client) == UNION {KeyVaultAuth(client, later) : later \in CLIFiles}

\* Whichever way the credentials were found, Azure Resource Manager gets a token of its own,
\* and so does the key vault unless the CLI is used: then it is sent the one that was chosen
\* for Azure Resource Manager, which no vault accepts (config.go:120).  Both get the same kind of credentials
\* and, with the CLI, unexpired management tokens of one tenant: the configured one or else
\* that of the subscription, which stays the configured one or else the default one, also if
\* the user logs in anew before the key vault is used.
\* A client secret is used even where use_msi has the provider announce and check an MSI.
CredentialsFit ==
  \A client \in providerConfigure(provider, files) :
    /\ \A f \in {"subscription", "tenant"} : provider[f] # "" => client.config[f] = provider[f]
    /\ Configured(client.config, {"subscription", "tenant"})
    /\ Audience(client.auth) = "management"
    /\ \A a \in KeyVaultAuths(client) : Audience(a) = "vault" \/ a.kind = "cli"
    /\ \A a \in {client.auth} \cup KeyVaultAuths(client) :
      /\ a.kind = IF provider.secret # "" THEN "secret" ELSE IF provider.use_msi THEN "msi" ELSE "cli"
      /\ a.kind = "secret" /\ ~provider.use_msi => a.client # ""
      /\ a.kind = "cli" =>
           /\ Usable(a.token[1]) /\ a.token[1].tenant = client.config.tenant
           /\ a.client = a.token[1].client
           /\ provider.tenant = "" =>
                \E s \in ToSet(files.profile) :
                   s.id = client.config.subscription /\ s.tenant = a.token[1].tenant
=============================================================================
