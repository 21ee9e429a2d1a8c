---------------------------- MODULE AwsContract ----------------------------
(* aws.Stack implements ServiceContract with its containers and its network. *)
(* The containers MiniStack starts for ECS are not the contract's: they end  *)
(* by themselves, when they like.                                            *)
EXTENDS AwsStack

Phase ==
    CASE op = "new"                              -> "new"
      [] op = "create"  /\ pc # "idle"           -> "creating"
      [] op = "cleanup" /\ pc # "idle"           -> "cleaning"
      [] op = "create"  /\ pc = "idle" /\ ~err   -> "ready"
      [] op = "create"  /\ pc = "idle" /\ err    -> "failed"
      [] op = "cleanup" /\ pc = "idle" /\ ~err   -> "clean"
      [] op = "cleanup" /\ pc = "idle" /\ err    -> "dirty"

Contract == INSTANCE ServiceContract WITH
    phase   <- Phase,
    holds   <- Remaining # {},
    excused <- missed # {}

(* Every step of the AWS stack is a step the service contract allows, with   *)
(* no excuse but a refused removal: its containers and its network.          *)
KeepsContract == Contract!Spec
=============================================================================
