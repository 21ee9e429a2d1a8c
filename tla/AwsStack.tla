------------------------------ MODULE AwsStack ------------------------------
(***************************************************************************)
(* aws.Stack: MiniStack in a container, an optional registry and network,  *)
(* and the resources made through MiniStack's API once it is up.  ECS      *)
(* services and tasks are containers too: MiniStack starts them through    *)
(* the host's Docker socket, so they do not go away with MiniStack and can *)
(* only be stopped while it runs.                                          *)
(*                                                                         *)
(* A container is known by the Create that started it: the addresses, task *)
(* ARNs and queue URLs the object keeps name the Create they come from,    *)
(* and are stale when that is not the one that is up.                      *)
(***************************************************************************)
EXTENDS AwsOptions

CONSTANTS
    Confs,       \* the configurations of this instance
    MaxCreates   \* bound: calls of Create

ASSUME AwsAssumption == Confs \subseteq Configuration /\ MaxCreates \in Nat

Containers == {"ministack", "registry"}
Networks   == {"own", "shared"}
Runs       == 0..MaxCreates   \* 0: none
Task       == [run : Runs, kind : {"service", "task"}, pos : Nat]

(* The services MiniStack is started with: blank names are dropped, and all  *)
(* services are on when no name is left.                                     *)
Enabled(c, service) ==
    LET on == {Trim(s) : s \in c.services} \ {""}
    IN  on = {} \/ service \in on

VARIABLES
    run,       \* container -> the Create that started it, 0 when absent
    nets,      \* network -> "absent", "us" or "other", by who made it, or
               \*   "heir": another process, in the place of ours
    made,      \* <<kind, name>> of the resources in the MiniStack that is up
    tasks,     \* containers MiniStack started, still running
    stopping,  \* those it was told to stop
    pushed     \* images in the registry that is up

VARIABLES
    conf,            \* what the options asked for; never changes
    networkName, createNetwork, networkCreated,   \* the fields
    port,            \* s.port: the Create whose MiniStack it belongs to
    registryPort,    \* s.registryPort, likewise
    arns,            \* s.ecsTaskARNs
    ids              \* s.queueURLs and s.topicARNs

VARIABLES
    op,         \* the last call: "new", "create" or "cleanup"
    pc,         \* "idle", or where the call stands
    err,        \* the call has met an error
    cancelled,  \* the caller's context is cancelled
    stage, i,   \* where createResources stands: a kind, a step of it
    missed,     \* history: what a call failed to remove
    lost,       \* history: tasks a call failed to stop or never heard of
    abandoned,  \* history: the last call could not remove something only
                \*   because its context was cancelled
    creates     \* Creates begun

world   == <<run, nets, made, tasks, stopping, pushed>>
network == <<networkName, createNetwork, networkCreated>>
object  == <<network, port, registryPort, arns, ids>>
call    == <<op, pc, err, cancelled, stage, i>>
history == <<missed, lost, abandoned, creates>>
vars    == <<conf, world, object, call, history>>

Up(x) == run[x] # 0

TaskNetwork == conf.network     \* DOCKER_NETWORK, set once by NewStack

(* Docker refuses to remove a network with containers on it. *)
Attached(n) == \/ networkName = n /\ \E x \in Containers : Up(x)
               \/ TaskNetwork = n /\ tasks \cup stopping # {}

(* What this object brought into the world, besides tasks, and is still there. *)
Remaining == {x \in Containers : Up(x)}
               \cup (IF nets["own"] = "us" THEN {"net"} ELSE {})

(* A task can be named as long as the MiniStack that started it is up: one   *)
(* of a service by the service's name, any other by its ARN.                 *)
Known == {t \in tasks : /\ Up("ministack") /\ t.run = run["ministack"]
                        /\ t.kind = "task" => t \in arns}

Init ==
    /\ conf \in Confs
    /\ run = [x \in Containers |-> 0]
    /\ nets \in {[own |-> o, shared |-> "other"] : o \in {"absent", "other"}}
    /\ made = {} /\ tasks = {} /\ stopping = {} /\ pushed = {}
    /\ networkName = conf.network /\ createNetwork = (conf.network = "own")
    /\ networkCreated = FALSE
    /\ port = 0 /\ registryPort = 0 /\ arns = {} /\ ids = {}
    /\ op = "new" /\ pc = "idle" /\ err = FALSE /\ cancelled = FALSE
    /\ stage = 1 /\ i = 1
    /\ missed = {} /\ lost = {} /\ abandoned = FALSE /\ creates = 0

-----------------------------------------------------------------------------
(* The caller. *)

Running == pc = "idle" /\ op = "create" /\ ~err

(* scaffold attaches a stack to the shared network before creating it. *)
SetNetwork ==
    /\ pc = "idle" /\ ~networkCreated /\ networkName # "shared"
    /\ \A x \in Containers : ~Up(x)
    /\ networkName' = "shared" /\ createNetwork' = FALSE
    /\ UNCHANGED <<conf, world, networkCreated, port, registryPort, arns, ids,
                   call, history>>

Begin(o, p) ==
    /\ pc = "idle" /\ op' = o /\ pc' = p
    /\ err' = FALSE /\ cancelled' = FALSE /\ stage' = 1 /\ i' = 1
    /\ abandoned' = FALSE
    /\ UNCHANGED <<conf, world, object, missed, lost>>

BeginCreate ==
    /\ ~Running /\ creates < MaxCreates
    /\ creates' = creates + 1
    /\ Begin("create", "network")

BeginCleanup ==
    /\ op # "new"
    /\ Begin("cleanup", "services") /\ UNCHANGED creates

Cancel ==
    /\ pc # "idle" /\ ~cancelled
    /\ cancelled' = TRUE
    /\ UNCHANGED <<conf, world, object, op, pc, err, stage, i, history>>

-----------------------------------------------------------------------------
(* Create. *)

Goto(p) == pc' = p /\ UNCHANGED err
Fail(p) == pc' = p /\ err' = TRUE

(* cleanupAfterCreateFailure: the releases of Cleanup, under WithoutCancel. *)
Abort_KeepsTasks == Fail("rmMiniStack")
Abort            == Fail("services")

fixed == <<conf, op, cancelled, abandoned, creates>>

(* A step of Create that nothing is lost in. *)
kept == <<fixed, missed, lost>>

(* Start needs the container's name free and its network to exist. *)
CanStart(x) ==
    /\ ~cancelled /\ ~Up(x)
    /\ networkName # "none" => nets[networkName] # "absent"

(* What scaffold's CreateNetwork answers: false for a network that exists.   *)
Created == nets["own"] = "absent"

CreateNetwork ==
    /\ pc = "network"
    /\ \/ ~createNetwork /\ Goto("registry") /\ UNCHANGED <<nets, networkCreated, missed>>
       \/ /\ createNetwork /\ ~cancelled
          /\ networkCreated' = Created
          /\ nets' = IF nets["own"] = "absent" THEN [nets EXCEPT !["own"] = "us"] ELSE nets
          /\ Goto("registry") /\ UNCHANGED missed
       \/ createNetwork /\ Fail("idle") /\ UNCHANGED <<nets, networkCreated, missed>>
       \/ /\ createNetwork /\ nets["own"] = "absent"   \* made, and the reply lost
          /\ nets' = [nets EXCEPT !["own"] = "us"] /\ missed' = missed \cup {"net"}
          /\ Fail("idle") /\ UNCHANGED networkCreated
    /\ UNCHANGED <<fixed, run, made, tasks, stopping, pushed, networkName,
                   createNetwork, port, registryPort, arns, ids, stage, i, lost>>

StartRegistry ==
    /\ pc = "registry"
    /\ \/ ~conf.registry /\ Goto("images") /\ UNCHANGED <<run, registryPort, pushed>>
       \/ /\ conf.registry /\ CanStart("registry")
          /\ run' = [run EXCEPT !["registry"] = creates]
          /\ registryPort' = creates /\ pushed' = {}
          /\ Goto("registryUp")
       \/ conf.registry /\ Abort /\ UNCHANGED <<run, registryPort, pushed>>
    /\ UNCHANGED <<kept, nets, made, tasks, stopping, network, port, arns, ids,
                   stage, i>>

Await_NoRelease(p, next) ==
    /\ pc = p
    /\ (~cancelled /\ Goto(next)) \/ Fail("idle")
    /\ UNCHANGED <<kept, world, object, stage, i>>

Await(p, next) ==
    /\ pc = p
    /\ (~cancelled /\ Goto(next)) \/ Abort
    /\ UNCHANGED <<kept, world, object, stage, i>>

AwaitRegistry  == Await("registryUp", "images")
AwaitMiniStack == Await("health", "resources")

(* A push needs a published address; the registry at it answers if it is the *)
(* one that is up.  A push that fails may have stored the image.             *)
RegistryAnswers == registryPort # 0 /\ registryPort = run["registry"]
CanPush == ~cancelled /\ RegistryAnswers
Stored(image) == pushed' = pushed \cup {image}
PushFails(image) == UNCHANGED pushed \/ (Up("registry") /\ Stored(image))

PreloadImage ==
    /\ pc = "images"
    /\ \/ /\ i <= Len(conf.images) /\ CanPush
          /\ Stored(conf.images[i]) /\ i' = i + 1 /\ Goto(pc)
       \/ i <= Len(conf.images) /\ PushFails(conf.images[i]) /\ Abort /\ UNCHANGED i
       \/ i > Len(conf.images) /\ i' = 1 /\ Goto("ministack") /\ UNCHANGED pushed
    /\ UNCHANGED <<kept, run, nets, made, tasks, stopping, object, stage>>

StartMiniStack ==
    /\ pc = "ministack"
    /\ \/ /\ CanStart("ministack")
          /\ run' = [run EXCEPT !["ministack"] = creates]
          /\ port' = creates /\ made' = {}
          /\ Goto("health")
       \/ Abort /\ UNCHANGED <<run, port, made>>
    /\ UNCHANGED <<kept, nets, tasks, stopping, pushed, network, registryPort,
                   arns, ids, stage, i>>

-----------------------------------------------------------------------------
(* createResources: kind by kind, each step a call to MiniStack. *)

Kind   == Order[stage]
Wanted == conf.wanted[Kind]
Now    == Wanted[i]

AtStep(kinds) == pc = "resources" /\ Kind \in kinds /\ i <= Len(Wanted)

(* What MiniStack makes once only: a second one of the name is an error. *)
Once == {"dynamodb", "secretsmanager", "kinesis", "events", "service"}

Accepted ==
    /\ ~cancelled /\ Now.valid /\ Enabled(conf, IF Kind \in ECS THEN "ecs" ELSE Kind)
    /\ Kind \in Once => <<Kind, Now.name>> \notin made
    /\ Kind \in {"service", "task"} /\ Now.cluster # "" => <<"cluster", Now.cluster>> \in made

Make == made' = made \cup {<<Kind, Now.name>>}
Done == i' = i + 1 /\ Goto(pc)

(* The queue URL or topic ARN that comes back replaces one of the name.  That *)
(* one comes back with every success is MiniStack's part (aws.go:583, 599).   *)
Returned ==
    IF Kind \in {"sqs", "sns"}
    THEN {x \in ids : <<x.kind, x.name>> # <<Kind, Now.name>>}
           \cup {[kind |-> Kind, name |-> Now.name, run |-> creates]}
    ELSE ids

CreateResource_IgnoresError ==
    /\ AtStep(Kinds \ ECS)
    /\ \/ Accepted /\ Make /\ ids' = Returned /\ Done
       \/ UNCHANGED <<made, ids>> /\ Done
    /\ UNCHANGED <<kept, run, nets, tasks, stopping, pushed, network, port,
                   registryPort, arns, stage>>

CreateResource ==
    /\ AtStep(Kinds \ ECS)
    /\ \/ Accepted /\ Make /\ ids' = Returned /\ Done
       \/ (Make \/ UNCHANGED made) /\ Abort /\ UNCHANGED <<ids, i>>
    /\ UNCHANGED <<kept, run, nets, tasks, stopping, pushed, network, port,
                   registryPort, arns, stage>>

(* A cluster that several options asked for is created once, under its       *)
(* trimmed name; services and tasks name it as they were told.  A blank name *)
(* is skipped.                                                               *)
ClusterName == Trim(Now.name)
MakeCluster == made' = made \cup {<<"cluster", ClusterName>>}

Skipped == \/ ClusterName = ""
           \/ \E j \in 1..(i - 1) : Trim(Wanted[j].name) = ClusterName

CreateECSCluster ==
    /\ AtStep({"cluster"})
    /\ \/ Skipped /\ Done /\ UNCHANGED made
       \/ ~Skipped /\ Accepted /\ MakeCluster /\ Done
       \/ ~Skipped /\ (MakeCluster \/ UNCHANGED made) /\ Abort /\ UNCHANGED i
    /\ UNCHANGED <<kept, run, nets, tasks, stopping, pushed, object, stage>>

(* registerTaskDefinition pushes the image first, if it is a local one. *)
Pushes   == Now.valid /\ Now.image # ""
Register == IF Pushes THEN CanPush /\ Stored(Now.image) ELSE UNCHANGED pushed
RegisterFails == IF Pushes THEN PushFails(Now.image) ELSE UNCHANGED pushed

(* MiniStack starts the container if Docker lets it, and answers before. *)
Starts ==
    {{}} \cup (IF conf.docker /\ (TaskNetwork # "none" => nets[TaskNetwork] # "absent")
               THEN {{[run |-> run["ministack"], kind |-> Kind, pos |-> i]}} ELSE {})

CreateECSService ==
    /\ AtStep({"service"})
    /\ \/ /\ Register /\ Accepted /\ Make
          /\ \E new \in Starts : tasks' = tasks \cup new
          /\ Done
       \/ /\ RegisterFails /\ Abort
          /\ UNCHANGED <<made, tasks, i>>
       \/ /\ Register /\ Accepted /\ Make   \* the reply lost
          /\ \E new \in Starts : tasks' = tasks \cup new
          /\ Abort /\ UNCHANGED i
    /\ UNCHANGED <<kept, run, nets, stopping, object, stage>>

(* A task that could not be started is reported in the reply, which is not   *)
(* read for it.  One whose ARN never arrives cannot be stopped.              *)
RunECSTask ==
    /\ AtStep({"task"})
    /\ \/ /\ Register /\ Accepted
          /\ \E new \in Starts : tasks' = tasks \cup new /\ arns' = arns \cup new
          /\ Done /\ UNCHANGED lost
       \/ /\ RegisterFails /\ Abort
          /\ UNCHANGED <<tasks, arns, lost, i>>
       \/ /\ Register /\ Accepted   \* the reply lost
          /\ \E new \in Starts : tasks' = tasks \cup new /\ lost' = lost \cup new
          /\ Abort /\ UNCHANGED <<arns, i>>
    /\ UNCHANGED <<fixed, run, nets, made, stopping, network, port, registryPort,
                   ids, stage, missed>>

NextKind_KeepsIndex ==
    /\ pc = "resources" /\ i > Len(Wanted)
    /\ UNCHANGED i
    /\ IF stage = Len(Order) THEN Goto("idle") /\ UNCHANGED stage
                             ELSE Goto(pc) /\ stage' = stage + 1
    /\ UNCHANGED <<kept, world, object>>

NextKind ==
    /\ pc = "resources" /\ i > Len(Wanted)
    /\ i' = 1
    /\ IF stage = Len(Order) THEN Goto("idle") /\ UNCHANGED stage
                             ELSE Goto(pc) /\ stage' = stage + 1
    /\ UNCHANGED <<kept, world, object>>

(* A client is built before the first call that needs it. *)
BuildsClient ==
    \/ Kind \in {"s3", "sqs", "sns"}
    \/ Kind \notin ECS /\ Wanted # << >>
    \/ Kind = "cluster" /\ \E k \in ECS : conf.wanted[k] # << >>

NoClient ==
    /\ pc = "resources" /\ i = 1 /\ BuildsClient /\ Abort
    /\ UNCHANGED <<kept, world, object, stage, i>>

-----------------------------------------------------------------------------
(* Cleanup, and cleanupAfterCreateFailure, which runs the same releases with *)
(* a context that cannot be cancelled and drops their errors.                *)

Reachable_Caller == ~cancelled
Reachable        == op = "cleanup" => ~cancelled   \* a Docker call can succeed

(* What the releases share.  bad: the container or network whose removal     *)
(* failed.  The first error is kept and the releases go on.                  *)
Record(bad, failed) ==
    /\ missed' = missed \cup bad
    /\ abandoned' = (abandoned \/ (failed /\ ~Reachable))
    /\ UNCHANGED <<conf, op, cancelled, stage, i, creates>>

Release_LastError(bad, failed, next) ==
    Record(bad, failed) /\ err' = failed /\ pc' = next

Release(bad, failed, next) ==
    Record(bad, failed) /\ err' = (err \/ failed) /\ pc' = next

HasECS == port # 0 /\ \E k \in ECS : conf.wanted[k] # << >>
Talks  == Reachable /\ Up("ministack") /\ port = run["ministack"]

(* A request for each of asked; whose container is still known may be told   *)
(* to stop.  Asking for what is gone, or where nobody listens, is an error.  *)
Ask(asked, containers, next) ==
    \E told \in SUBSET (containers \cap Known), failed \in BOOLEAN :
       LET left == (containers \cap Known) \ told
       IN  /\ told # {} => Talks
           /\ failed => asked
           /\ left # {} \/ (asked /\ ~Talks) => failed
           /\ tasks' = tasks \ told /\ stopping' = stopping \cup told
           /\ lost' = lost \cup left
           /\ Release({}, failed, next)

Asks(kind) == conf.wanted[kind] # << >>

DeleteServices ==
    /\ pc = "services"
    /\ IF HasECS THEN Ask(Asks("service"), {t \in tasks : t.kind = "service"}, "tasks")
       ELSE Release({}, FALSE, "rmMiniStack") /\ UNCHANGED <<tasks, stopping, lost>>
    /\ UNCHANGED <<run, nets, made, pushed, object>>

StopTasks ==
    /\ pc = "tasks" /\ Ask(arns # {}, arns, "clusters")
    /\ UNCHANGED <<run, nets, made, pushed, object>>

(* Each time a cluster was asked for it is deleted, under the name it was    *)
(* asked for by, though it was created once.                                 *)
DeleteClusters ==
    /\ pc = "clusters" /\ Ask(Asks("cluster"), {}, "rmMiniStack")
    /\ UNCHANGED <<run, nets, made, pushed, object>>

CleanupMiniStack ==
    /\ pc = "rmMiniStack"
    /\ \/ /\ Reachable /\ run' = [run EXCEPT !["ministack"] = 0] /\ made' = {}
          /\ Release({}, FALSE, "rmRegistry")
       \/ Release({"ministack"}, TRUE, "rmRegistry") /\ UNCHANGED <<run, made>>
    /\ UNCHANGED <<nets, tasks, stopping, pushed, object, lost>>

(* An error leaves the registry's address published. *)
CleanupRegistry ==
    /\ pc = "rmRegistry"
    /\ \/ /\ conf.registry => Reachable
          /\ run' = [run EXCEPT !["registry"] = 0] /\ pushed' = {}
          /\ registryPort' = 0
          /\ Release({}, FALSE, "rmNet")
       \/ /\ conf.registry /\ Reachable   \* removed, and the reply lost
          /\ run' = [run EXCEPT !["registry"] = 0] /\ pushed' = {}
          /\ Release({}, TRUE, "rmNet") /\ UNCHANGED registryPort
       \/ /\ conf.registry /\ Release({"registry"}, TRUE, "rmNet")
          /\ UNCHANGED <<run, pushed, registryPort>>
    /\ UNCHANGED <<nets, made, tasks, stopping, network, port, arns, ids, lost>>

RemoveNetwork ==
    /\ pc = "rmNet"
    /\ networkCreated' = FALSE
    /\ \/ ~networkCreated /\ Release({}, FALSE, "idle") /\ UNCHANGED nets
       \/ /\ networkCreated /\ Reachable /\ ~Attached(networkName)
          /\ nets' = [nets EXCEPT ![networkName] = "absent"]
          /\ Release({}, FALSE, "idle")
       \/ networkCreated /\ Release({"net"}, TRUE, "idle") /\ UNCHANGED nets
    /\ UNCHANGED <<run, made, tasks, stopping, pushed, networkName,
                   createNetwork, port, registryPort, arns, ids, lost>>

-----------------------------------------------------------------------------
(* The rest of the world: containers that end, and another process that uses *)
(* the network's name, and may remove the object's own network while nothing *)
(* is attached to it.                                                        *)

TaskExits ==
    \E t \in tasks \cup stopping :
       /\ tasks' = tasks \ {t} /\ stopping' = stopping \ {t}
       /\ lost' = lost \ {t}
       /\ UNCHANGED <<conf, run, nets, made, pushed, object, call, missed, abandoned,
                      creates>>

OtherCreates ==
    /\ nets["own"] = "absent"
    /\ nets' = [nets EXCEPT !["own"] = IF networkCreated THEN "heir" ELSE "other"]
    /\ UNCHANGED <<conf, run, made, tasks, stopping, pushed, object, call, history>>

OtherRemoves ==
    /\ nets["own"] # "absent" /\ ~Attached("own")
    /\ nets' = [nets EXCEPT !["own"] = "absent"]
    /\ UNCHANGED <<conf, run, made, tasks, stopping, pushed, object, call, history>>

-----------------------------------------------------------------------------
CreateResources ==
    \/ CreateResource \/ CreateECSCluster \/ CreateECSService \/ RunECSTask
    \/ NextKind \/ NoClient

Create ==
    \/ CreateNetwork \/ StartRegistry \/ AwaitRegistry \/ PreloadImage
    \/ StartMiniStack \/ AwaitMiniStack \/ CreateResources

Cleanup ==
    \/ DeleteServices \/ StopTasks \/ DeleteClusters \/ CleanupMiniStack
    \/ CleanupRegistry \/ RemoveNetwork

Caller  == SetNetwork \/ BeginCreate \/ BeginCleanup \/ Cancel
Outside == TaskExits \/ OtherCreates \/ OtherRemoves

Next == Create \/ Cleanup \/ Caller \/ Outside

Spec == Init /\ [][Next]_vars

-----------------------------------------------------------------------------
(* HostEnv publishes queue URLs with the host of the current endpoint, and   *)
(* topic ARNs as they came.                                                  *)
HostEnv == {[x EXCEPT !.run = IF x.kind = "sqs" THEN port ELSE @] : x \in ids}

CreatePoints  == {"network", "registry", "registryUp", "images", "ministack",
                  "health", "resources"}
ReleasePoints == {"services", "tasks", "clusters", "rmMiniStack", "rmRegistry",
                  "rmNet"}
Resources     == Containers \cup {"net"}

WorldOK ==
    /\ run \in [Containers -> Runs]
    /\ nets \in [Networks -> {"absent", "us", "other", "heir"}]
    /\ made \subseteq Kinds \X STRING /\ pushed \subseteq STRING
    /\ tasks \subseteq Task /\ stopping \subseteq Task

ObjectOK ==
    /\ conf \in Confs
    /\ networkName \in Networks \cup {"none"}
    /\ createNetwork \in BOOLEAN /\ networkCreated \in BOOLEAN
    /\ port \in Runs /\ registryPort \in Runs /\ arns \subseteq Task
    /\ ids \subseteq [kind : Kinds, name : STRING, run : Runs]

CallOK ==
    /\ op \in {"new", "create", "cleanup"}
    /\ pc \in {"idle"} \cup CreatePoints \cup ReleasePoints
    /\ err \in BOOLEAN /\ cancelled \in BOOLEAN
    /\ missed \subseteq Resources /\ lost \subseteq Task /\ abandoned \in BOOLEAN
    /\ creates \in Runs

LoopOK ==
    /\ stage \in DOMAIN Order /\ i \in Nat \ {0}
    /\ pc = "resources" => i <= Len(Wanted) + 1

(* The values of the variables; the loops of createResources (aws.go:551)    *)
(* stay within what was asked for.                                           *)
TypeOK == WorldOK /\ ObjectOK /\ CallOK /\ LoopOK

(* Nothing leaks silently, ECS containers included: what the object brought  *)
(* into the world and is still there it can still name and reach, unless a   *)
(* call has failed to remove it, or never heard of it (a lost reply of       *)
(* RunTask).  A task can be reached only through the MiniStack that started  *)
(* it, at the current port (ecs.go:340): cleanupECSResources has to come     *)
(* first, on every path (aws.go:510, :661).                                  *)
HandleKept ==
    /\ nets["own"] = "us" => networkCreated \/ "net" \in missed
    /\ tasks \subseteq Known \cup lost
    /\ Up("registry") => conf.registry
    /\ Up("ministack") => port = run["ministack"]

(* When Cleanup returns nil, both containers are gone, and of the rest only  *)
(* what an earlier call failed to remove is left: an error of the ECS        *)
(* requests, the first part of Cleanup, must not be lost behind the other    *)
(* removals.  Of the addresses only the registry's is withdrawn              *)
(* (registry.go:235): the port of MiniStack and what ids holds stay and go   *)
(* on being published by Endpoints and HostEnv (aws.go:329, 495).            *)
CleanupNilMeansClean ==
    pc = "idle" /\ op = "cleanup" /\ ~err
        => /\ Remaining \subseteq missed \ Containers /\ tasks \subseteq lost
           /\ registryPort = 0 /\ ~networkCreated

(* A failed Create leaves only what could not be removed, in this call or an *)
(* earlier one, whether or not the caller's context was cancelled            *)
(* (aws.go:660).  Unlike kubernetes.Cluster it has no exceptions.            *)
FailedCreateReleases ==
    pc = "idle" /\ op = "create" /\ err
        => Remaining \subseteq missed /\ tasks \subseteq lost /\ ~abandoned

(* What the options put together and the order of createResources are for:   *)
(* a step that is about to begin finds what it needs, so that it can fail    *)
(* only in what it asks for itself or in what the outside does.  Its service *)
(* is one MiniStack was started with; an image goes to a registry that is up *)
(* at the published address (registry.go:240); so is the network up that     *)
(* MiniStack puts the containers of services and tasks on (aws.go:196), as   *)
(* long as SetNetwork has not moved the stack off it.  The cluster of a      *)
(* service or task is there (ecs.go:141) exactly if it was named without     *)
(* blanks around: it is made under the trimmed name and looked up under the  *)
(* other (ecs.go:171, 198).                                                  *)
NeedsMet ==
    /\ pc = "images" /\ i <= Len(conf.images) => RegistryAnswers
    /\ AtStep(Kinds) => Enabled(conf, IF Kind \in ECS THEN "ecs" ELSE Kind)
    /\ AtStep({"service", "task"}) =>
          /\ Now.image # "" => RegistryAnswers
          /\ Now.cluster # ""
                => (<<"cluster", Now.cluster>> \in made <=> Trim(Now.cluster) = Now.cluster)
          /\ conf.docker
          /\ networkName = TaskNetwork /\ TaskNetwork # "none"
                => nets[TaskNetwork] # "absent"

(* A nil Create means all that was asked for is there: both containers up    *)
(* and published, every bucket, queue, topic, table, secret, parameter,      *)
(* stream, bus and service made, every cluster too, under its trimmed name   *)
(* unless that is blank, every image in the registry, and every queue URL    *)
(* and topic ARN in HostEnv the one of this MiniStack, not of one before it. *)
(* ECS tasks are let off: whether one runs is in a reply nobody reads        *)
(* (ecs.go:219).                                                             *)
ReadyMeansComplete ==
    Running
        => /\ Up("ministack") /\ port = run["ministack"]
           /\ registryPort = run["registry"] /\ (conf.registry => Up("registry"))
           /\ \A k \in Kinds \ {"cluster", "task"} : \A j \in DOMAIN conf.wanted[k] :
                 <<k, conf.wanted[k][j].name>> \in made
           /\ \A j \in DOMAIN conf.wanted["cluster"] :
                 LET name == Trim(conf.wanted["cluster"][j].name)
                 IN  name # "" => <<"cluster", name>> \in made
           /\ \A j \in DOMAIN conf.images : conf.images[j] \in pushed
           /\ \A k \in {"service", "task"} : \A j \in DOMAIN conf.wanted[k] :
                 conf.wanted[k][j].image \in pushed \cup {""}
           /\ HostEnv = UNION {{[kind |-> k, name |-> conf.wanted[k][j].name, run |-> port] :
                                  j \in DOMAIN conf.wanted[k]} : k \in {"sqs", "sns"}}
=============================================================================
