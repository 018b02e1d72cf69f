--------------------------- MODULE MCClusterSnapshot ---------------------------
(***************************************************************************)
(* ClusterSnapshot for TLC: an owner of each kind with one wanted pod, and *)
(* a Deployment scaled to zero; a container runtime that keeps the name of *)
(* the image or resolves it.                                               *)
(***************************************************************************)
EXTENDS ClusterSnapshot

MCOwners ==
  [kind : {"Deployment", "StatefulSet", "ReplicaSet", "DaemonSet", "Job"}, desired : {1}]
    \cup [kind : {"Deployment"}, desired : {0}]

MCImageNames == {"app:1", "registry/app:1"}

=============================================================================
