-------------------------- MODULE MCClusterStart --------------------------
(* Three masternodes on a pool of two workers, so that jobs queue as they *)
(* do when mn_count exceeds max_workers.                                   *)
EXTENDS ClusterStart

MCMnCount == 3
MCPoolSize == 2

=============================================================================
