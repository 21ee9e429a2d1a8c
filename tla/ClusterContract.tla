-------------------------- MODULE ClusterContract --------------------------
(***************************************************************************)
(* Cluster implements ServiceContract, with two excuses besides a refused  *)
(* removal: the two failures of Create that return at once, at             *)
(* CreateNetwork and at the k3s container's Start (lifecycle.go:22 and 39).*)
(***************************************************************************)
EXTENDS Cluster

Phase ==
    CASE op = "new"                              -> "new"
      [] op = "create"  /\ pc # "idle"           -> "creating"
      [] op = "cleanup" /\ pc # "idle"           -> "cleaning"
      [] op = "create"  /\ pc = "idle" /\ ~err   -> "ready"
      [] op = "create"  /\ pc = "idle" /\ err    -> "failed"
      [] op = "cleanup" /\ pc = "idle" /\ ~err   -> "clean"
      [] op = "cleanup" /\ pc = "idle" /\ err    -> "dirty"

Holds == Remaining \ Dirs # {}

Contract == INSTANCE ServiceContract WITH
    phase   <- Phase,
    holds   <- Holds,
    excused <- missed # {} \/ failedAt \in {"network", "k3s"}

(* Every step of the cluster is a step the contract allows. *)
KeepsContract == Contract!Spec

Strict == INSTANCE ServiceContract WITH
    phase <- Phase, holds <- Holds, excused <- missed # {}

(* The same without the two excuses: a failed Create leaves no container and *)
(* no network, which is what a caller relies on who defers Cleanup only      *)
(* after Create succeeded (kubernetes_test.go:51).                           *)
KeepsStrictContract == Strict!Spec
=============================================================================
