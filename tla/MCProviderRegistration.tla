----------------------- MODULE MCProviderRegistration -----------------------
(* The resource providers of provider.go and those of acs-engine. *)
EXTENDS ProviderRegistration

CONSTANTS compute, keyvault, network, storage

AllNamespaces == {compute, keyvault, network, storage}
AcsEngineProviders == <<compute, storage, network>>
=============================================================================
