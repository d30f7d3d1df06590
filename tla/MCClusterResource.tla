-------------------------- MODULE MCClusterResource --------------------------
(* ClusterResource on small clusters, with the tags as model values. *)
EXTENDS ClusterResource

CONSTANTS dev, prod

=============================================================================
