-------------------------- MODULE MCClusterUpgrade --------------------------
(* ClusterUpgrade on small clusters, with the pools as model values. *)
EXTENDS ClusterUpgrade

CONSTANTS linux1, linux2

=============================================================================
