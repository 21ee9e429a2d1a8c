------------------------------ MODULE Composed ------------------------------
(***************************************************************************)
(* The ready-made stacks: a scaffold.Stack over harnesses of this          *)
(* repository, each of which keeps ServiceContract.  What the repository   *)
(* decides is which services a stack has, what they are called, in which   *)
(* groups they start, and which addresses are written into them when the   *)
(* stack is built; the scaffold library starts and releases them, and is   *)
(* modelled from how the stacks use it: groups start one after the other,  *)
(* the services of a group in any order or at once, a Create that fails    *)
(* releases what it started, and the shared network goes last.             *)
(*                                                                         *)
(* A name is the sequence of its parts: "app-minio" is <<"app", "-minio">>.*)
(***************************************************************************)
EXTENDS Integers, Sequences

CONSTANTS
    Stacks,      \* the stacks of this instance
    Prefix,      \* the prefix an outer environment may set
    MaxCreates   \* bound: calls of Create

(* stringsTrimSuffix, on names. *)
TrimSuffix_Keeps(name, suffix) == name

TrimSuffix(name, suffix) ==
    IF Len(name) > 0 /\ name[Len(name)] = suffix
    THEN SubSeq(name, 1, Len(name) - 1)
    ELSE name

(* The S3 endpoint NewCatalog puts into the catalog's environment. *)
CatalogEndpoint(catalog) == Append(TrimSuffix(catalog, "-catalog"), "-minio")

NoAddresses(services) == [m \in services |-> {}]

Lake(name) ==
    [name   |-> name,
     groups |-> << {"-minio", "-catalog"}, {"-trino"} >>,
     shared |-> TRUE,
     addresses |-> [m \in {"-minio", "-catalog", "-trino"} |->
        CASE m = "-minio"   -> {}
          [] m = "-catalog" -> {CatalogEndpoint(Append(name, "-catalog"))}
          [] m = "-trino"   -> {Append(name, "-catalog"), Append(name, "-minio")}]]

DataLake(name) == Lake(Append(name, "-lake"))

RAG(name) ==
    [name |-> name, groups |-> << {"-postgres", "-qdrant", "-minio"} >>, shared |-> TRUE,
     addresses |-> NoAddresses({"-postgres", "-qdrant", "-minio"})]

Analytics(name) ==
    [name |-> name, groups |-> << {"-clickhouse", "-trino"} >>, shared |-> TRUE,
     addresses |-> NoAddresses({"-clickhouse", "-trino"})]

Workflow(name) ==
    [name |-> name, groups |-> << {"-workflows"} >>, shared |-> FALSE,
     addresses |-> NoAddresses({"-workflows"})]

Groups(s)   == {s.groups[g] : g \in DOMAIN s.groups}
Services(s) == UNION Groups(s)

ASSUME ComposedAssumption ==
    /\ MaxCreates \in Nat
    /\ \A s \in Stacks : /\ s.groups \in Seq(SUBSET Services(s))
                         /\ s.groups # << >>
                         /\ {} \notin Groups(s)
                         /\ s.shared \in BOOLEAN

-----------------------------------------------------------------------------
VARIABLES
    stack,      \* the stack
    prefix,     \* the inherited name prefix, << >> for none
    phase,      \* the stack's own phase, one of ServiceContract's
    pc,         \* "rest", or where the stack's call stands
    group,      \* the group being started
    todo,       \* services this call has yet to release
    network,    \* the shared network exists
    member,     \* service -> its state, as its contract tells it
    container,  \* service -> name and network its container was started with
    excused,    \* a removal of this call, or of what is still held, failed
    creates     \* Creates begun

vars == <<stack, prefix, phase, pc, group, todo, network, member, container,
          excused, creates>>
call == <<phase, pc, group, todo, creates>>

Members == Services(stack)
Member(m) == INSTANCE ServiceContract WITH
                phase   <- member[m].phase,
                holds   <- member[m].holds,
                excused <- member[m].excused

Phases == {"new", "creating", "ready", "failed", "cleaning", "clean", "dirty"}
Busy   == {"creating", "cleaning"}
Service == [phase : Phases, holds : BOOLEAN, excused : BOOLEAN]

Fresh == [phase |-> "new", holds |-> FALSE, excused |-> FALSE]

Holds == network \/ \E m \in Members : member[m].holds

FullName(m) == Append(prefix \o stack.name, m)

Init ==
    /\ stack \in Stacks
    /\ prefix = << >> /\ phase = "new" /\ pc = "rest"
    /\ group = 0 /\ todo = {} /\ network = FALSE
    /\ member = [m \in Members |-> Fresh]
    /\ container = [m \in Members |-> [name |-> << >>, joined |-> FALSE]]
    /\ excused = FALSE /\ creates = 0

(* The prefix of an outer environment reaches every service before it starts *)
(* and changes no address already written.                                   *)
SetNamePrefix ==
    /\ pc = "rest" /\ phase # "ready"
    /\ prefix' = Prefix
    /\ UNCHANGED <<stack, call, network, member, container, excused>>

-----------------------------------------------------------------------------
BeginCreate ==
    /\ pc = "rest" /\ phase \in {"new", "failed", "clean", "dirty"}
    /\ creates < MaxCreates
    /\ phase' = "creating" /\ pc' = "network" /\ group' = 1 /\ creates' = creates + 1
    /\ excused' = (excused /\ Holds)
    /\ UNCHANGED <<stack, prefix, todo, network, member, container>>

(* WithSharedNetwork: one network for all services, made first. *)
CreateNetwork ==
    /\ pc = "network"
    /\ \/ pc' = "start" /\ network' = (stack.shared \/ network) /\ UNCHANGED todo
       \/ stack.shared /\ pc' = "unlink" /\ todo' = {} /\ UNCHANGED network
    /\ UNCHANGED <<stack, prefix, phase, group, creates, member, container, excused>>

(* Create of one service of the group; its container gets the name and the   *)
(* network the setters left it.                                              *)
Start(m) ==
    /\ pc = "start" /\ m \in stack.groups[group]
    /\ member[m].phase \in {"new", "failed", "clean", "dirty"}
    /\ m \notin todo
    /\ member' = [member EXCEPT ![m].phase = "creating"]
    /\ container' = [container EXCEPT ![m] = [name |-> FullName(m), joined |-> stack.shared]]
    /\ todo' = todo \cup {m}
    /\ UNCHANGED <<stack, prefix, phase, pc, group, creates, network, excused>>

(* A service at work in a call of its own: any step its contract allows. *)
Serve(m) ==
    /\ member[m].phase \in Busy
    /\ \E r \in Service : member' = [member EXCEPT ![m] = r]
    /\ Member(m)!Next
    /\ excused' = (excused \/ member'[m].excused \/ member'[m].phase = "dirty")
    /\ UNCHANGED <<stack, prefix, call, network, container>>

Ready(services) == \A m \in services : member[m].phase = "ready"

NextGroup ==
    /\ pc = "start" /\ Ready(stack.groups[group])
    /\ IF group < Len(stack.groups)
       THEN group' = group + 1 /\ UNCHANGED <<phase, pc, todo>>
       ELSE phase' = "ready" /\ pc' = "rest" /\ todo' = {} /\ UNCHANGED group
    /\ UNCHANGED <<stack, prefix, creates, network, member, container, excused>>

(* A service failed: the group is waited for, and what this Create started   *)
(* is released.                                                              *)
Release_AtOnce ==
    /\ pc = "start" /\ \E m \in todo : member[m].phase = "failed"
    /\ pc' = "stop" /\ todo' = {m \in todo : member[m].phase = "ready"}
    /\ UNCHANGED <<stack, prefix, phase, group, creates, network, member, container,
                   excused>>

Release ==
    /\ pc = "start" /\ \E m \in todo : member[m].phase = "failed"
    /\ \A m \in Members : member[m].phase \notin Busy
    /\ pc' = "stop" /\ UNCHANGED todo
    /\ UNCHANGED <<stack, prefix, phase, group, creates, network, member, container,
                   excused>>

BeginCleanup ==
    /\ pc = "rest" /\ phase \in {"ready", "failed", "clean", "dirty"}
    /\ phase' = "cleaning" /\ pc' = "stop"
    /\ todo' = {m \in Members : member[m].phase # "new"}
    /\ excused' = (excused /\ Holds)
    /\ UNCHANGED <<stack, prefix, group, creates, network, member, container>>

(* Cleanup of one service. *)
Stop(m) ==
    /\ pc = "stop" /\ m \in todo
    /\ member' = [member EXCEPT ![m].phase = "cleaning"]
    /\ todo' = todo \ {m}
    /\ UNCHANGED <<stack, prefix, phase, pc, group, creates, network, container, excused>>

Stopped ==
    /\ pc = "stop" /\ todo = {}
    /\ \A m \in Members : member[m].phase \notin Busy
    /\ pc' = "unlink"
    /\ UNCHANGED <<stack, prefix, phase, group, todo, creates, network, member, container,
                   excused>>

(* The network goes, or Docker refuses; then the call is answered. *)
Unlink ==
    /\ pc = "unlink"
    /\ \/ network' = FALSE /\ UNCHANGED excused
       \/ network /\ network' = TRUE /\ excused' = TRUE
    /\ pc' = "rest"
    /\ phase' = IF phase = "creating" THEN "failed"
                ELSE IF network' \/ \E m \in Members : member[m].phase = "dirty"
                THEN "dirty" ELSE "clean"
    /\ UNCHANGED <<stack, prefix, group, todo, creates, member, container>>

(* What failed removals left behind, somebody else may remove: the resources *)
(* of a service at rest, and the network once nothing is attached to it.  In *)
(* a stack that is up there is nothing of either kind.                       *)
Fade(m) ==
    /\ phase # "ready"
    /\ member[m].phase \notin Busy \cup {"ready"} /\ member[m].holds
    /\ member' = [member EXCEPT ![m].holds = FALSE]
    /\ UNCHANGED <<stack, prefix, call, network, container, excused>>

OthersUnlink ==
    /\ pc = "rest" /\ phase # "ready"
    /\ network /\ \A m \in Members : ~member[m].holds
    /\ network' = FALSE
    /\ UNCHANGED <<stack, prefix, call, member, container, excused>>

Next ==
    \/ SetNamePrefix \/ OthersUnlink
    \/ BeginCreate \/ CreateNetwork \/ NextGroup \/ Release
    \/ BeginCleanup \/ Stopped \/ Unlink
    \/ \E m \in Members : Start(m) \/ Serve(m) \/ Stop(m) \/ Fade(m)

Spec == Init /\ [][Next]_vars

-----------------------------------------------------------------------------
(* A stack over services that keep the contract keeps it too: a Create that  *)
(* fails halfway, with services ready, failing and not yet started, leaves   *)
(* nothing that no refused removal explains, and so does a Cleanup.          *)
Whole == INSTANCE ServiceContract WITH holds <- Holds
KeepsContract == Whole!Spec

(* The addresses written into Trino's catalog file and the Iceberg catalog's *)
(* environment when the stack was built are the names of containers on the   *)
(* network of the service that dials them, once the stack is ready, and for  *)
(* Trino already when it starts, provided no prefix was set: a prefix renames*)
(* the containers and leaves the addresses as they were.                     *)
Reached(address, m, phases) ==
    \E k \in Members : /\ container[k].name = address
                       /\ member[k].phase \in phases /\ member[k].holds
                       /\ container[k].joined /\ container[m].joined

LakeWired ==
    prefix = << >> =>
      \A m \in Members : \A address \in stack.addresses[m] :
         phase = "ready"
         \/ (m = "-trino" /\ pc = "start" /\ member[m].phase = "creating")
         => Reached(address, m, {"ready"})
=============================================================================
