-------------------------- MODULE MCServiceHarness --------------------------
(* All the services as one instance of ServiceHarness. *)
EXTENDS ServiceHarness

(* Equal profiles are one state to TLC: the thirteen services have eight. *)
AllServices == {Postgres, Mysql, Redis, Mongo, Memcached, Qdrant, Weaviate,
                ClickHouse, Ollama, MinIO, LiteLLM, Catalog, Trino}

Phase ==
    CASE op = "new"                              -> "new"
      [] op = "create"  /\ pc # "idle"           -> "creating"
      [] op = "cleanup" /\ pc # "idle"           -> "cleaning"
      [] op = "create"  /\ pc = "idle" /\ ~err   -> "ready"
      [] op = "create"  /\ pc = "idle" /\ err    -> "failed"
      [] op = "cleanup" /\ pc = "idle" /\ ~err   -> "clean"
      [] op = "cleanup" /\ pc = "idle" /\ err    -> "dirty"

Contract == INSTANCE ServiceContract WITH
    phase <- Phase, holds <- up, excused <- refused

(* Every step of a harness is a step the service contract allows, with no    *)
(* excuse but a refused removal.                                             *)
KeepsContract == Contract!Spec
=============================================================================
