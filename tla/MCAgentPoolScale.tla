-------------------------- MODULE MCAgentPoolScale --------------------------
(* One pool of up to three agents, whose indices end at 3, in a resource group  *)
(* whose other VMs may fill the first page of its list.                        *)
EXTENDS AgentPoolScale
=============================================================================
