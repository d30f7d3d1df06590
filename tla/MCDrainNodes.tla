---------------------------- MODULE MCDrainNodes ----------------------------
(* DrainNodes with nodes and pods as model values. *)
EXTENDS DrainNodes

CONSTANTS agent0, agent1, pod1, pod2

=============================================================================
