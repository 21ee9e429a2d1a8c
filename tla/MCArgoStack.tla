---------------------------- MODULE MCArgoStack ----------------------------
(* ArgoStack as an implementation of the service contract. *)
EXTENDS ArgoStack

Phase ==
    CASE op = "new"                              -> "new"
      [] op = "create"  /\ pc # "idle"           -> "creating"
      [] op = "cleanup" /\ pc # "idle"           -> "cleaning"
      [] op = "create"  /\ pc = "idle" /\ ~err   -> "ready"
      [] op = "create"  /\ pc = "idle" /\ err    -> "failed"
      [] op = "cleanup" /\ pc = "idle" /\ ~err   -> "clean"
      [] op = "cleanup" /\ pc = "idle" /\ err    -> "dirty"

Contract == INSTANCE ServiceContract WITH
    phase <- Phase, holds <- up, excused <- refused

(* Every step of the stack is a step the service contract allows, as far as  *)
(* the k3s container goes: a Create that fails after the cluster is up       *)
(* releases it under WithoutCancel (argocd.go:181 and the three after it).   *)
KeepsContract == Contract!Spec
=============================================================================
