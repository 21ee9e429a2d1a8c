-------------------------- MODULE ServiceHarness ---------------------------
(***************************************************************************)
(* The one-container services.  They share one Create, Preload and Cleanup *)
(* and differ in six ways, which a profile records:                        *)
(*   probe      how Create waits: "http" polls an endpoint, "connect"      *)
(*              opens a client, "ping" opens a client and pings it again   *)
(*   redials    when preloads open another client: "never", "once" before  *)
(*              the first of them, "each" before every one                 *)
(*   closes     connecting closes the client it replaces                   *)
(*   retries    Create runs the preloads again until all of them succeed   *)
(*   catalog    a host directory is bound into the container               *)
(*   heeds      a preload obeys the context; the SQL statements and the     *)
(*              Memcached client take none                                 *)
(* A client is a connection pool or socket; c.db, c.client is the handle   *)
(* the object keeps of the last one.  What a preload does to the service   *)
(* is kept as the number of times it took effect.                          *)
(***************************************************************************)
EXTENDS Integers, FiniteSets

CONSTANTS
    Services,     \* the profiles of this instance
    MaxPreloads,  \* bound: registered preloads
    MaxClients,   \* bound: clients open at once
    MaxTries,     \* bound: polls of one wait
    MaxCreates    \* bound: calls of Create

Profile == [probe : {"http", "connect", "ping"},
            redials : {"never", "once", "each"},
            closes : BOOLEAN, retries : BOOLEAN, catalog : BOOLEAN,
            preloads : BOOLEAN, heeds : BOOLEAN]

HTTP == [probe |-> "http", redials |-> "never", closes |-> TRUE,
         retries |-> FALSE, catalog |-> FALSE, preloads |-> TRUE,
         heeds |-> TRUE]

Postgres   == [HTTP EXCEPT !.probe = "ping", !.redials = "once", !.heeds = FALSE]
Mysql      == Postgres
Redis      == [HTTP EXCEPT !.probe = "connect", !.redials = "once"]
Mongo      == [HTTP EXCEPT !.probe = "connect", !.redials = "each"]
Memcached  == [HTTP EXCEPT !.probe = "connect", !.redials = "once", !.closes = FALSE,
                           !.heeds = FALSE]
Qdrant     == HTTP
Weaviate   == HTTP
ClickHouse == HTTP
Ollama     == HTTP
MinIO      == [HTTP EXCEPT !.retries = TRUE]
LiteLLM    == [HTTP EXCEPT !.preloads = FALSE]
Catalog    == [HTTP EXCEPT !.preloads = FALSE]
Trino      == [HTTP EXCEPT !.preloads = FALSE, !.catalog = TRUE]

ASSUME HarnessAssumption ==
    /\ Services \subseteq Profile
    /\ {MaxPreloads, MaxClients, MaxTries, MaxCreates} \subseteq Nat
    /\ MaxClients > 0

Clients == 1..MaxClients

VARIABLES
    service,   \* the profile of the object
    n,         \* preloads registered on it
    up,        \* the container exists
    bound,     \* it was started with the catalog directory in place
    dir,       \* the catalog directory exists
    open,      \* clients that are open
    effects    \* preload -> times it took effect on this container

VARIABLES
    handle,    \* the client the object remembers, 0 for nil
    op,        \* the last call: "new", "create" or "cleanup"
    pc,        \* "idle", or where the call stands
    err,       \* the call has met an error
    cancelled, \* the caller's context is cancelled
    i,         \* the next preload
    tries,     \* polls of the running wait
    refused,   \* history: Docker refused to remove the container
    creates    \* Creates begun

resources == <<up, bound, dir, open, effects>>
vars == <<service, n, resources, handle, op, pc, err, cancelled, i, tries,
          refused, creates>>

NoEffects == [k \in 1..n |-> 0]

Init ==
    /\ service \in Services
    /\ n \in (IF service.preloads THEN 0..MaxPreloads ELSE {0})
    /\ up = FALSE /\ bound = FALSE /\ dir = service.catalog
    /\ open = {} /\ handle = 0 /\ effects = NoEffects
    /\ op = "new" /\ pc = "idle" /\ err = FALSE /\ cancelled = FALSE
    /\ i = 1 /\ tries = 0 /\ refused = FALSE /\ creates = 0

-----------------------------------------------------------------------------
Running == pc = "idle" /\ op = "create" /\ ~err

Begin(o, p) ==
    /\ pc = "idle" /\ op' = o /\ pc' = p
    /\ err' = FALSE /\ cancelled' = FALSE /\ i' = 1 /\ tries' = 0
    /\ UNCHANGED <<service, n, resources, handle, refused>>

BeginCreate ==
    /\ ~Running /\ creates < MaxCreates
    /\ creates' = creates + 1
    /\ Begin("create", "start")

BeginCleanup == op # "new" /\ Begin("cleanup", "close") /\ UNCHANGED creates

Cancel ==
    /\ pc # "idle" /\ ~cancelled
    /\ cancelled' = TRUE
    /\ UNCHANGED <<service, n, resources, handle, op, pc, err, i, tries, refused,
                   creates>>

-----------------------------------------------------------------------------
Goto(p) == pc' = p /\ UNCHANGED err

(* A failed Create removes the container, and only the container. *)
Abort_NoRelease == pc' = "idle" /\ err' = TRUE
Abort           == pc' = "remove" /\ err' = TRUE

fixed == <<service, n, op, cancelled, creates>>

(* Start leaves no container when it fails, and Create returns at once. *)
Start ==
    /\ pc = "start"
    /\ \/ /\ ~up /\ ~cancelled
          /\ up' = TRUE /\ bound' = dir /\ effects' = NoEffects
          /\ Goto("ready")
       \/ pc' = "idle" /\ err' = TRUE /\ UNCHANGED <<up, bound, effects>>
    /\ UNCHANGED <<fixed, dir, open, handle, i, tries, refused>>

(* Connect: the new client becomes the handle, and the one it replaces is    *)
(* closed.                                                                   *)
Dial_Leaks ==
    \E c \in Clients \ open :
       /\ open' = open \cup {c}
       /\ handle' = c

Dial ==
    \E c \in Clients \ open :
       /\ open' = (IF service.closes THEN open \ {handle} ELSE open) \cup {c}
       /\ handle' = c

AwaitReady_NoTimeout ==
    /\ pc = "ready"
    /\ \/ /\ service.probe = "http" /\ ~cancelled
          /\ Goto("client") /\ UNCHANGED <<open, handle>>
       \/ /\ service.probe # "http" /\ ~cancelled
          /\ Dial
          /\ Goto("client") \/ (service.probe = "ping" /\ Goto(pc))
       \/ Abort /\ UNCHANGED <<open, handle>>
    /\ UNCHANGED <<fixed, up, bound, dir, effects, i, tries, refused>>

(* One poll of the readiness wait.  It opens a client on every poll that     *)
(* reaches the service; "ping" may still fail after that and poll again.     *)
AwaitReady ==
    /\ pc = "ready"
    /\ \/ /\ service.probe = "http" /\ ~cancelled
          /\ Goto("client") /\ UNCHANGED <<open, handle, tries>>
       \/ /\ service.probe # "http" /\ ~cancelled
          /\ Dial
          /\ \/ Goto("client") /\ UNCHANGED tries
             \/ /\ service.probe = "ping" /\ tries < MaxTries
                /\ tries' = tries + 1 /\ Goto(pc)
       \/ Abort /\ UNCHANGED <<open, handle, tries>>
    /\ UNCHANGED <<fixed, up, bound, dir, effects, i, refused>>

(* What comes between readiness and the first preload: MinIO builds its API  *)
(* client; the SQL and cache services connect again if there is a preload.   *)
Redial ==
    /\ pc = "client"
    /\ \/ /\ service.redials # "once" \/ n = 0
          /\ Goto("preload") /\ UNCHANGED <<open, handle>>
       \/ /\ service.redials = "once" /\ n > 0 /\ ~cancelled
          /\ Dial /\ Goto("preload")
       \/ /\ (service.redials = "once" /\ n > 0) \/ service.retries
          /\ Abort /\ UNCHANGED <<open, handle>>
    /\ tries' = 0
    /\ UNCHANGED <<fixed, up, bound, dir, effects, i, refused>>

(* Another preload is registered. *)
More_OffByOne == i <= n + 1
More          == i <= n

(* A preload that fails may have taken effect (a lost reply).  MinIO's wait  *)
(* then starts again from the first.                                         *)
GoesOn  == service.heeds => ~cancelled
Effect  == [effects EXCEPT ![i] = @ + 1]
Attempt == IF service.redials = "each" THEN Dial ELSE UNCHANGED <<open, handle>>

Preload_IgnoresError ==
    /\ pc = "preload" /\ More
    /\ i' = i + 1 /\ Goto(pc)
    /\ effects' \in {effects, Effect}
    /\ UNCHANGED <<fixed, up, bound, dir, open, handle, tries, refused>>

Preload_Resumes ==
    /\ pc = "preload" /\ More
    /\ \/ effects' = Effect /\ i' = i + 1 /\ Goto(pc) /\ UNCHANGED tries
       \/ /\ effects' \in {effects, Effect}
          /\ tries < MaxTries /\ tries' = tries + 1 /\ Goto(pc) /\ UNCHANGED i
    /\ UNCHANGED <<fixed, up, bound, dir, open, handle, refused>>

Preload ==
    /\ pc = "preload" /\ More
    /\ \/ /\ GoesOn
          /\ Attempt /\ effects' = Effect
          /\ i' = i + 1 /\ Goto(pc) /\ UNCHANGED tries
       \/ /\ \/ GoesOn /\ Attempt /\ effects' \in {effects, Effect}
             \/ UNCHANGED <<open, handle, effects>>
          /\ \/ /\ service.retries /\ tries < MaxTries /\ ~cancelled
                /\ tries' = tries + 1 /\ i' = 1 /\ Goto(pc)
             \/ Abort /\ UNCHANGED <<i, tries>>
    /\ UNCHANGED <<fixed, up, bound, dir, refused>>

Preloaded ==
    /\ pc = "preload" /\ ~More
    /\ Goto("idle")
    /\ UNCHANGED <<fixed, resources, handle, i, tries, refused>>

-----------------------------------------------------------------------------
CloseClient ==
    /\ pc = "close"
    /\ open' = open \ {handle} /\ handle' = 0
    /\ Goto("remove")
    /\ UNCHANGED <<fixed, up, bound, dir, effects, i, tries, refused>>

(* Create removes the container under WithoutCancel. *)
Reachable_Caller == ~cancelled
Reachable        == op = "cleanup" => ~cancelled

RemoveContainer ==
    /\ pc = "remove"
    /\ \/ /\ Reachable
          /\ up' = FALSE /\ bound' = FALSE /\ effects' = NoEffects
          /\ UNCHANGED <<err, refused>>
       \/ /\ err' = TRUE
          /\ refused' = (refused \/ Reachable \/ op = "cleanup")
          /\ UNCHANGED <<up, bound, effects>>
    /\ pc' = IF op = "cleanup" THEN "dir" ELSE "idle"
    /\ UNCHANGED <<fixed, dir, open, handle, i, tries>>

(* The last step of Cleanup: Trino removes its catalog directory. *)
RemoveDir_LastError ==
    /\ pc = "dir"
    /\ pc' = "idle"
    /\ \/ dir' = FALSE /\ err' = FALSE
       \/ dir /\ err' = TRUE /\ UNCHANGED dir
    /\ UNCHANGED <<fixed, up, bound, open, effects, handle, i, tries, refused>>

RemoveDir ==
    /\ pc = "dir"
    /\ pc' = "idle"
    /\ \/ dir' = FALSE /\ UNCHANGED err
       \/ dir /\ err' = TRUE /\ UNCHANGED dir
    /\ UNCHANGED <<fixed, up, bound, open, effects, handle, i, tries, refused>>

-----------------------------------------------------------------------------
(* The caller connects to a running service, as often as it likes. *)
Connect ==
    /\ Running /\ service.probe # "http"
    /\ Dial
    /\ UNCHANGED <<service, n, up, bound, dir, effects, op, pc, err, cancelled,
                   i, tries, refused, creates>>

Create  == Start \/ AwaitReady \/ Redial \/ Preload \/ Preloaded
Cleanup == CloseClient \/ RemoveContainer \/ RemoveDir
Caller  == BeginCreate \/ BeginCleanup \/ Cancel \/ Connect
Next    == Create \/ Cleanup \/ Caller

Spec == Init /\ [][Next]_vars

(* A call runs on its own goroutine and each of its waits has a timeout. *)
FairSpec == Spec /\ WF_vars(Create \/ Cleanup)
-----------------------------------------------------------------------------
TypeOK ==
    /\ service \in Profile /\ n \in 0..MaxPreloads
    /\ {up, bound, dir, err, cancelled, refused} \subseteq BOOLEAN
    /\ open \subseteq Clients /\ handle \in {0} \cup Clients
    /\ effects \in [1..n -> 0..MaxTries + 1]
    /\ op \in {"new", "create", "cleanup"}
    /\ pc \in {"idle", "start", "ready", "client", "preload", "close",
               "remove", "dir"}
    /\ i \in 1..n + 1 /\ tries \in 0..MaxTries /\ creates \in 0..MaxCreates

(* Every open client is the one the object remembers, so that Cleanup can    *)
(* close it: however often the readiness wait, the preloads and the caller   *)
(* connect, the replaced client is closed (postgres.go:168).  Memcached's    *)
(* Connect does not close it (memcached.go:116) and is let off.  The client  *)
(* remembered is an open one, with every service.                            *)
ClientsReachable ==
    /\ service.closes => open \subseteq {handle}
    /\ handle # 0 => handle \in open

(* A Cleanup that returns nil leaves no container, no catalog directory and  *)
(* no open client but those Memcached has lost: "Cleanup closes the client   *)
(* and removes the container" (redis/README.md:22 and its siblings).         *)
CleanupNilMeansClean ==
    pc = "idle" /\ op = "cleanup" /\ ~err
        => ~up /\ ~dir /\ (service.closes => open = {})

(* A failed Create leaves a container only if Docker refused to remove it;   *)
(* that the caller's context was cancelled is no excuse.                     *)
FailedCreateReleases == pc = "idle" /\ op = "create" /\ err => (up => refused)

(* A client without a container to talk to is what a failed Create leaves    *)
(* behind, and nothing else: the next Cleanup closes it.                     *)
OrphanClient ==
    service.closes /\ pc = "idle" /\ ~up /\ open # {}
        => op = "create" /\ err /\ open = {handle}

(* A nil Create means every preload took effect on this very container, and  *)
(* exactly once unless the service repeats the preloads until all succeed.   *)
(* Trino has its catalogs after the first one; after a later one exactly if  *)
(* no Cleanup has removed the directory, which only NewTrino writes          *)
(* (trino.go:204): such a nil Create may well be one without catalogs.       *)
ReadyMeansPreloaded ==
    Running
        => /\ \A k \in 1..n : effects[k] >= 1 /\ (~service.retries => effects[k] = 1)
           /\ bound <=> dir
           /\ creates = 1 /\ service.catalog => bound

(* Preloads take effect in the order they were registered, also when MinIO   *)
(* runs them again: a later one never without, nor more often than, an       *)
(* earlier one.                                                              *)
PreloadOrder == \A j, k \in 1..n : j < k => effects[j] >= effects[k]

(* Every call returns. *)
CallsReturn == pc # "idle" ~> pc = "idle"

=============================================================================
