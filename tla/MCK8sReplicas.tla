---------------------------- MODULE MCK8sReplicas ----------------------------
(* Small instances of K8sReplicas for TLC. *)
EXTENDS K8sReplicas
CONSTANTS r1, r2, deployments
OneKind == [c \in Children |-> deployments]
=============================================================================
