------------------------------ MODULE Cluster ------------------------------
(***************************************************************************)
(* kubernetes.Cluster: one Create or Cleanup at a time on one harness      *)
(* object, against a Docker daemon and a k3s API that may refuse any call. *)
(*                                                                         *)
(* The object owns up to three containers (k3s, registry, the ssh bridge), *)
(* two temporary directories and, when nobody attached it to a shared      *)
(* network, one Docker network.  The variables are in three groups: what   *)
(* exists in the world, what the object remembers, and the running call.   *)
(* Other processes may create, join, leave and remove a network of the     *)
(* same name.  Labels, names, log streams and kubectl's output are left    *)
(* out; ports are kept only as "published or not".                         *)
(***************************************************************************)
EXTENDS Integers, FiniteSets

CONSTANTS
    SSH,         \* WithSSH was given
    Registry,    \* WithRegistry, or an image option that implies it
    Namespace,   \* WithNamespace was given
    Images,      \* number of images to preload
    Manifests,   \* number of registered manifests
    MaxCreates   \* bound: how often Create is called on the object

ASSUME ConfigAssumption ==
    /\ {SSH, Registry, Namespace} \subseteq BOOLEAN
    /\ Images \in Nat /\ Manifests \in Nat /\ MaxCreates \in Nat
    /\ Images > 0 => Registry

Containers == {"k3s", "registry", "ssh"}
Dirs       == {"sshDir", "registryDir"}
Resources  == Containers \cup Dirs \cup {"net"}
Networks   == {"own", "shared"}   \* name-network, and a network scaffold set
Kinds      == {"deployment", "statefulset", "daemonset"}

(* The kinds WaitForRollouts walks through. *)
KindOrder_NoDaemonSets == <<"deployment", "statefulset", "statefulset">>
KindOrder              == <<"deployment", "statefulset", "daemonset">>

CreatePoints  == {"network", "registry", "registryUp", "images", "k3s", "api",
                  "node", "ssh", "sshStart", "namespace", "manifests",
                  "rollouts"}
ReleasePoints == {"rmSSH", "rmK3s", "rmRegistry", "rmNet"}

VARIABLES
    at,        \* container -> "absent", "bridge" or the network it runs on
    nets,      \* network -> "absent", "us" (this object made it), "other", or
               \*   "heir": made by another process in the place of ours
    guests,    \* networks a container of another process is attached to
    disk,      \* the temporary directories that exist
    mirror,    \* k3s started with the registry's mirror configuration bound
    pushed,    \* images in the registry container
    applied,   \* manifests applied to the running k3s
    pending    \* kinds with a rollout that has not finished

VARIABLES
    networkName,     \* c.networkName: "none" or a network
    networkCreated,  \* c.networkCreated
    k3sNetwork,      \* the network c.container was last told to use
    held,            \* of sshContainer, sshTempDir, registryTempDir: those set
    ports            \* of port (k3s), sshPort, registryPort: those set

VARIABLES
    op,         \* the last call: "new", "create" or "cleanup"
    pc,         \* "idle", or where the call stands
    err,        \* the call has met an error
    cancelled,  \* the caller's context is cancelled
    i,          \* loop index of the call
    failedAt,   \* history: where the last Create failed
    missed,     \* history: resources a call failed to remove
    abandoned,  \* history: those the last call could not remove only because
                \*   its context was cancelled
    listFailed, \* history: WaitForRollouts could not list a kind
    creates     \* Creates begun

world   == <<at, nets, guests, disk, mirror, pushed, applied, pending>>
object  == <<networkName, networkCreated, k3sNetwork, held, ports>>
notes   == <<missed, abandoned, listFailed, creates>>
history == <<failedAt, notes>>
call    == <<op, pc, err, cancelled, i>>
vars    == <<world, object, call, history>>

Up(x)       == at[x] # "absent"
Attached(n) == (\E x \in Containers : at[x] = n) \/ n \in guests
Place(n)    == IF n = "none" THEN "bridge" ELSE n

(* What this object brought into the world and is still there. *)
Remaining == {x \in Containers : Up(x)} \cup disk
               \cup (IF nets["own"] = "us" THEN {"net"} ELSE {})

(* What a Cleanup that starts now would try to remove. *)
Held == {"k3s"} \cup (IF Registry THEN {"registry"} ELSE {}) \cup held
          \cup (IF networkCreated THEN {"net"} ELSE {})

Init ==
    /\ at = [x \in Containers |-> "absent"]
    /\ nets \in {[own |-> o, shared |-> "other"] : o \in {"absent", "other"}}
    /\ guests = {}
    /\ disk = IF Registry THEN {"registryDir"} ELSE {}
    /\ mirror = FALSE /\ pushed = 0 /\ applied = {} /\ pending = {}
    /\ networkName = "none" /\ networkCreated = FALSE /\ k3sNetwork = "none"
    /\ held = disk /\ ports = {}
    /\ op = "new" /\ pc = "idle" /\ err = FALSE /\ cancelled = FALSE /\ i = 0
    /\ failedAt = "none" /\ missed = {} /\ abandoned = {}
    /\ listFailed = FALSE /\ creates = 0

-----------------------------------------------------------------------------
(* The caller. *)

(* The last call was a Create, and it returned nil. *)
Running == pc = "idle" /\ op = "create" /\ ~err

(* scaffold attaches a service to the shared network before creating it. *)
SetNetwork ==
    /\ pc = "idle" /\ ~networkCreated
    /\ \A x \in Containers : ~Up(x)
    /\ networkName # "shared" /\ creates < MaxCreates
    /\ networkName' = "shared" /\ k3sNetwork' = "shared"
    /\ UNCHANGED <<world, networkCreated, held, ports, call, history>>

BeginCreate ==
    /\ pc = "idle" /\ ~Running /\ creates < MaxCreates
    /\ op' = "create" /\ pc' = "network" /\ err' = FALSE /\ cancelled' = FALSE
    /\ i' = 1
    /\ failedAt' = "none" /\ listFailed' = FALSE /\ creates' = creates + 1
    /\ abandoned' = {}
    /\ UNCHANGED <<world, object, missed>>

BeginCleanup ==
    /\ pc = "idle" /\ op # "new"
    /\ op' = "cleanup" /\ pc' = "delete" /\ err' = FALSE /\ cancelled' = FALSE
    /\ i' = Manifests
    /\ abandoned' = {}
    /\ UNCHANGED <<world, object, failedAt, missed, listFailed, creates>>

Cancel ==
    /\ pc # "idle" /\ ~cancelled
    /\ cancelled' = TRUE
    /\ UNCHANGED <<world, object, op, pc, err, i, history>>

-----------------------------------------------------------------------------
(* Create.  A step whose call fails goes to cleanupAfterCreateFailure; the   *)
(* failures of CreateNetwork and of container.Start return at once.          *)

Goto(p)   == pc' = p /\ UNCHANGED <<op, err, cancelled, failedAt>>
Fail(p)   == /\ err' = TRUE /\ failedAt' = pc /\ pc' = p
             /\ UNCHANGED <<op, cancelled>>
Abort     == Fail("rmSSH")
ReturnErr == Fail("idle")

(* Start needs the container's name free and its network to exist. *)
CanStart(x, n) == ~cancelled /\ ~Up(x) /\ (n # "none" => nets[n] # "absent")

(* What scaffold's CreateNetwork answers: false for a network that exists.   *)
Created_Always == TRUE
Created        == nets["own"] = "absent"

CreateNetwork ==
    /\ pc = "network"
    /\ UNCHANGED <<at, guests, disk, mirror, pushed, applied, pending, held,
                   ports, i, abandoned, listFailed, creates>>
    /\ IF ~(SSH \/ Registry) \/ networkName # "none"
       THEN /\ Goto("registry")
            /\ UNCHANGED <<nets, networkName, networkCreated, k3sNetwork, missed>>
       ELSE /\ networkName' = "own"
            /\ \/ /\ ~cancelled
                  /\ networkCreated' = Created
                  /\ nets' = IF nets["own"] = "absent"
                             THEN [nets EXCEPT !["own"] = "us"] ELSE nets
                  /\ k3sNetwork' = "own"
                  /\ Goto("registry") /\ UNCHANGED missed
               \/ /\ ReturnErr
                  /\ UNCHANGED <<nets, networkCreated, k3sNetwork, missed>>
               \/ /\ nets["own"] = "absent"   \* made, and the reply lost
                  /\ nets' = [nets EXCEPT !["own"] = "us"]
                  /\ missed' = missed \cup {"net"}
                  /\ ReturnErr
                  /\ UNCHANGED <<networkCreated, k3sNetwork>>

(* The network a container started by this call is told to use. *)
Joined_Default == "none"
Joined         == networkName

StartRegistry ==
    /\ pc = "registry"
    /\ \/ /\ ~Registry
          /\ Goto("images")
          /\ UNCHANGED <<at, ports>>
       \/ /\ Registry
          /\ CanStart("registry", Joined)
          /\ at' = [at EXCEPT !["registry"] = Place(Joined)]
          /\ ports' = ports \cup {"registry"}
          /\ Goto("registryUp")
       \/ /\ Registry
          /\ Abort
          /\ UNCHANGED <<at, ports>>
    /\ UNCHANGED <<nets, guests, disk, mirror, pushed, applied, pending,
                   networkName, networkCreated, k3sNetwork, held, i, notes>>

(* The waits of Create: registry HTTP, API port, node, namespace. *)
Await_NoRelease(p, needed, next) ==
    /\ pc = p
    /\ \/ (needed => ~cancelled) /\ Goto(next)
       \/ needed /\ ReturnErr
    /\ UNCHANGED <<world, object, i, notes>>

Await(p, needed, next) ==
    /\ pc = p
    /\ \/ (needed => ~cancelled) /\ Goto(next)
       \/ needed /\ Abort
    /\ UNCHANGED <<world, object, i, notes>>

AwaitRegistry   == Await("registryUp", TRUE, "images")
AwaitAPI        == Await("api", TRUE, "node")
AwaitNode       == Await("node", TRUE, "ssh")
EnsureNamespace == Await("namespace", Namespace, "manifests")

PreloadImage_IgnoresError ==
    /\ pc = "images"
    /\ \/ pushed < Images /\ ~cancelled /\ pushed' = pushed + 1 /\ Goto(pc)
       \/ Goto("k3s") /\ UNCHANGED pushed
    /\ UNCHANGED <<at, nets, guests, disk, mirror, applied, pending, object, i, notes>>

PreloadImage_OneTooMany ==
    /\ pc = "images"
    /\ \/ pushed <= Images /\ ~cancelled /\ pushed' = pushed + 1 /\ Goto(pc)
       \/ pushed > Images /\ Goto("k3s") /\ UNCHANGED pushed
    /\ UNCHANGED <<at, nets, guests, disk, mirror, applied, pending, object, i, notes>>

PreloadImage ==
    /\ pc = "images"
    /\ \/ pushed < Images /\ ~cancelled /\ pushed' = pushed + 1 /\ Goto(pc)
       \/ pushed < Images /\ Abort /\ UNCHANGED pushed
       \/ pushed >= Images /\ Goto("k3s") /\ UNCHANGED pushed
    /\ UNCHANGED <<at, nets, guests, disk, mirror, applied, pending, object, i, notes>>

StartK3s ==
    /\ pc = "k3s"
    /\ \/ /\ CanStart("k3s", k3sNetwork)
          /\ at' = [at EXCEPT !["k3s"] = Place(k3sNetwork)]
          /\ mirror' = ("registryDir" \in disk)
          /\ ports' = (ports \ {"ssh"}) \cup {"k3s"}   \* k3s has no port 22
          /\ Goto("api")
       \/ ReturnErr /\ UNCHANGED <<at, mirror, ports>>
    /\ UNCHANGED <<nets, guests, disk, pushed, applied, pending, networkName,
                   networkCreated, k3sNetwork, held, i, notes>>

(* startSSHBridge up to NewContainer: the directory, its files, kubeconfig. *)
PrepareSSH_RemembersLate ==
    /\ pc = "ssh"
    /\ \/ ~SSH /\ Goto("namespace") /\ UNCHANGED <<disk, held>>
       \/ SSH /\ Abort /\ disk' = disk \cup {"sshDir"} /\ UNCHANGED held
       \/ /\ SSH /\ ~cancelled
          /\ disk' = disk \cup {"sshDir"} /\ held' = held \cup {"sshDir"}
          /\ Goto("sshStart")
    /\ UNCHANGED <<at, nets, guests, mirror, pushed, applied, pending,
                   networkName, networkCreated, k3sNetwork, ports, i, notes>>

PrepareSSH ==
    /\ pc = "ssh"
    /\ \/ ~SSH /\ Goto("namespace") /\ UNCHANGED <<disk, held>>
       \/ SSH /\ Abort /\ UNCHANGED <<disk, held>>
       \/ /\ SSH
          /\ disk' = disk \cup {"sshDir"} /\ held' = held \cup {"sshDir"}
          /\ \/ ~cancelled /\ Goto("sshStart")
             \/ Abort
    /\ UNCHANGED <<at, nets, guests, mirror, pushed, applied, pending,
                   networkName, networkCreated, k3sNetwork, ports, i, notes>>

StartSSH ==
    /\ pc = "sshStart"
    /\ held' = held \cup {"ssh"}
    /\ \/ /\ CanStart("ssh", Joined)
          /\ at' = [at EXCEPT !["ssh"] = Place(Joined)]
          /\ ports' = ports \cup {"ssh"}
          /\ Goto("namespace")
       \/ Abort /\ UNCHANGED <<at, ports>>
    /\ UNCHANGED <<nets, guests, disk, mirror, pushed, applied, pending,
                   networkName, networkCreated, k3sNetwork, i, notes>>

ApplyManifest ==
    /\ pc = "manifests"
    /\ \/ /\ i <= Manifests /\ ~cancelled
          /\ applied' = applied \cup {i} /\ i' = i + 1
          /\ \E k \in SUBSET Kinds : pending' = pending \cup k
          /\ Goto(pc)
       \/ i <= Manifests /\ Abort /\ UNCHANGED <<applied, pending, i>>
       \/ i > Manifests /\ i' = 1 /\ Goto("rollouts") /\ UNCHANGED <<applied, pending>>
    /\ UNCHANGED <<at, nets, guests, disk, mirror, pushed, object, notes>>

WaitForRollouts_Retries ==
    /\ pc = "rollouts"
    /\ \/ i <= 3 /\ listFailed' = TRUE /\ Goto(pc) /\ UNCHANGED i
       \/ /\ i <= 3 /\ ~cancelled /\ KindOrder[i] \notin pending
          /\ i' = i + 1 /\ Goto(pc) /\ UNCHANGED listFailed
       \/ i > 3 /\ Goto("idle") /\ UNCHANGED <<i, listFailed>>
    /\ UNCHANGED <<world, object, missed, abandoned, creates>>

(* A list that fails ends the wait, and Create, with nil. *)
WaitForRollouts ==
    /\ pc = "rollouts"
    /\ \/ i <= 3 /\ listFailed' = TRUE /\ Goto("idle") /\ UNCHANGED i
       \/ /\ i <= 3 /\ ~cancelled /\ KindOrder[i] \notin pending
          /\ i' = i + 1 /\ Goto(pc) /\ UNCHANGED listFailed
       \/ i <= 3 /\ Abort /\ UNCHANGED <<i, listFailed>>
       \/ i > 3 /\ Goto("idle") /\ UNCHANGED <<i, listFailed>>
    /\ UNCHANGED <<world, object, missed, abandoned, creates>>

-----------------------------------------------------------------------------
(* Cleanup, and cleanupAfterCreateFailure, which runs the same releases with *)
(* a context that cannot be cancelled and drops their errors.                *)

Reachable_Caller == ~cancelled
Reachable        == op = "cleanup" => ~cancelled   \* a Docker call can succeed

DeleteManifest ==
    /\ pc = "delete"
    /\ \/ i > 0 /\ i' = i - 1 /\ Goto(pc)
          /\ \/ ~cancelled /\ Up("k3s") /\ applied' = applied \ {i}
             \/ UNCHANGED applied
       \/ i = 0 /\ Goto("rmSSH") /\ UNCHANGED <<applied, i>>
    /\ UNCHANGED <<at, nets, guests, disk, mirror, pushed, pending, object, notes>>

(* What the releases share.  bad: the resources whose removal failed.  The   *)
(* first error is kept; the loop goes on.                                    *)
Record(bad) ==
    /\ missed' = missed \cup bad
    /\ abandoned' = IF Reachable THEN abandoned ELSE abandoned \cup (bad \ Dirs)

Release_LastError(bad, next) ==
    /\ Record(bad)
    /\ err' = (bad # {})
    /\ pc' = next
    /\ UNCHANGED <<guests, op, cancelled, i, failedAt, listFailed, creates>>

Release(bad, next) ==
    /\ Record(bad)
    /\ err' = (err \/ bad # {})
    /\ pc' = next
    /\ UNCHANGED <<guests, op, cancelled, i, failedAt, listFailed, creates>>

(* Handles and ports are cleared whether or not the removal succeeded. *)
Forget_KeepsPorts(handles, published) ==
    /\ held' = held \ handles /\ UNCHANGED ports
Forget(handles, published) ==
    /\ held' = held \ handles /\ ports' = ports \ published

(* A handle whose container never started may find nothing to remove.        *)
CleanupSSHBridge ==
    /\ pc = "rmSSH"
    /\ \E bad \in SUBSET (held \cap {"ssh", "sshDir"}) :
          /\ \/ /\ "ssh" \in held \ bad /\ Reachable
                /\ at' = [at EXCEPT !["ssh"] = "absent"]
             \/ "ssh" \notin (held \ bad) \cap ports /\ UNCHANGED at
          /\ disk' = disk \ ((held \ bad) \cap {"sshDir"})
          /\ Release(bad, "rmK3s")
    /\ Forget({"ssh", "sshDir"}, {"ssh"})
    /\ UNCHANGED <<nets, mirror, pushed, applied, pending, networkName,
                   networkCreated, k3sNetwork>>

CleanupK3s ==
    /\ pc = "rmK3s"
    /\ \/ /\ Reachable
          /\ at' = [at EXCEPT !["k3s"] = "absent"]
          /\ mirror' = FALSE /\ applied' = {} /\ pending' = {}
          /\ Release({}, "rmRegistry")
       \/ /\ Release({"k3s"}, "rmRegistry")
          /\ UNCHANGED <<at, mirror, applied, pending>>
    /\ UNCHANGED <<nets, disk, pushed, object>>

CleanupRegistry ==
    /\ pc = "rmRegistry"
    /\ \E bad \in SUBSET ((IF Registry THEN {"registry"} ELSE {})
                            \cup (held \cap {"registryDir"})) :
          /\ IF Registry /\ "registry" \notin bad
             THEN /\ Reachable
                  /\ at' = [at EXCEPT !["registry"] = "absent"]
                  /\ pushed' = 0
             ELSE UNCHANGED <<at, pushed>>
          /\ disk' = disk \ ((held \ bad) \cap {"registryDir"})
          /\ Release(bad, "rmNet")
    /\ Forget({"registryDir"}, {"registry"})
    /\ UNCHANGED <<nets, mirror, applied, pending, networkName, networkCreated,
                   k3sNetwork>>

(* Docker refuses to remove a network that has containers attached. *)
RemoveNetwork ==
    /\ pc = "rmNet"
    /\ networkCreated' = FALSE
    /\ \/ ~networkCreated /\ Release({}, "idle") /\ UNCHANGED nets
       \/ /\ networkCreated /\ Reachable /\ ~Attached(networkName)
          /\ nets' = [nets EXCEPT ![networkName] = "absent"]
          /\ Release({}, "idle")
       \/ networkCreated /\ Release({"net"}, "idle") /\ UNCHANGED nets
    /\ UNCHANGED <<at, disk, mirror, pushed, applied, pending, networkName,
                   k3sNetwork, held, ports>>

-----------------------------------------------------------------------------
(* The rest of the world: another process that uses the network's name, and  *)
(* the cluster's controllers.  That process may also remove the object's own *)
(* network while nothing is attached, and make one of the same name.         *)

OtherCreates ==
    /\ nets["own"] = "absent"
    /\ nets' = [nets EXCEPT !["own"] = IF networkCreated THEN "heir" ELSE "other"]
    /\ UNCHANGED <<at, guests, disk, mirror, pushed, applied, pending, object,
                   call, history>>

OtherJoinsOrLeaves ==
    /\ nets["own"] # "absent"
    /\ guests' = IF "own" \in guests THEN guests \ {"own"} ELSE guests \cup {"own"}
    /\ UNCHANGED <<at, nets, disk, mirror, pushed, applied, pending, object,
                   call, history>>

OtherRemoves ==
    /\ nets["own"] # "absent" /\ ~Attached("own")
    /\ nets' = [nets EXCEPT !["own"] = "absent"]
    /\ UNCHANGED <<at, guests, disk, mirror, pushed, applied, pending, object,
                   call, history>>

RolloutFinishes ==
    /\ Up("k3s")
    /\ \E k \in pending : pending' = pending \ {k}
    /\ UNCHANGED <<at, nets, guests, disk, mirror, pushed, applied, object,
                   call, history>>

-----------------------------------------------------------------------------
Create ==
    \/ CreateNetwork \/ StartRegistry \/ AwaitRegistry \/ PreloadImage
    \/ StartK3s \/ AwaitAPI \/ AwaitNode \/ PrepareSSH \/ StartSSH
    \/ EnsureNamespace \/ ApplyManifest \/ WaitForRollouts

Cleanup ==
    \/ DeleteManifest \/ CleanupSSHBridge \/ CleanupK3s \/ CleanupRegistry
    \/ RemoveNetwork

Caller  == SetNetwork \/ BeginCreate \/ BeginCleanup \/ Cancel
Outside == OtherCreates \/ OtherJoinsOrLeaves \/ OtherRemoves \/ RolloutFinishes

Next == Create \/ Cleanup \/ Caller \/ Outside

Spec == Init /\ [][Next]_vars

(* A call runs on its own goroutine and every wait in it has a timeout. *)
FairSpec == Spec /\ WF_vars(Create \/ Cleanup)

-----------------------------------------------------------------------------
FlagsOK ==
    /\ mirror \in BOOLEAN /\ networkCreated \in BOOLEAN /\ err \in BOOLEAN
    /\ cancelled \in BOOLEAN /\ listFailed \in BOOLEAN

NumbersOK ==
    /\ pushed \in 0..Images /\ applied \subseteq 1..Manifests
    /\ i \in Nat /\ creates \in 0..MaxCreates

WorldOK ==
    /\ at \in [Containers -> {"absent", "bridge"} \cup Networks]
    /\ nets \in [Networks -> {"absent", "us", "other", "heir"}]
    /\ guests \subseteq Networks /\ pending \subseteq Kinds /\ disk \subseteq Dirs

HandlesOK ==
    /\ held \subseteq {"ssh"} \cup Dirs /\ ports \subseteq Containers
    /\ networkName \in Networks \cup {"none"}
    /\ k3sNetwork \in Networks \cup {"none"}

CallOK ==
    /\ op \in {"new", "create", "cleanup"}
    /\ pc \in {"idle", "delete"} \cup CreatePoints \cup ReleasePoints
    /\ failedAt \in {"none"} \cup CreatePoints
    /\ missed \subseteq Resources /\ abandoned \subseteq Resources

NamesOK == WorldOK /\ HandlesOK /\ CallOK

(* The values of the variables. *)
TypeOK == FlagsOK /\ NumbersOK /\ NamesOK

(* Nothing leaks silently: whatever the object brought into the world and is *)
(* still there, the object still has the handle of, unless the very call     *)
(* that removes it has failed once.  The handles are the fields cleared in   *)
(* cleanupSSHBridge, cleanupRegistry and Cleanup.                            *)
HandleKept == Remaining \subseteq Held \cup missed

(* When Cleanup returns nil, both long-lived containers are gone, and of the *)
(* rest only what an earlier call failed to remove (and forgot) is left.     *)
CleanupNilMeansClean ==
    pc = "idle" /\ op = "cleanup" /\ ~err
        => Remaining \subseteq missed \ {"k3s", "registry"}

(* A Create that fails anywhere but at CreateNetwork and container.Start     *)
(* leaves only what Docker refused to remove, in this call or an earlier     *)
(* one.  That the caller's context was cancelled is no excuse: the release   *)
(* chain runs under WithoutCancel (lifecycle.go:194).                        *)
FailedCreateReleases ==
    pc = "idle" /\ op = "create" /\ err /\ failedAt \notin {"network", "k3s"}
        => Remaining \subseteq missed \ abandoned

(* The addresses of the registry and the bridge belong to containers that    *)
(* are up, and a k3s that is up has one.  Not the other way round: the       *)
(* address of k3s is never withdrawn (lifecycle.go:44 is the only line that  *)
(* writes c.port), so Endpoints goes on naming a k3s that is gone.           *)
AddressesLive ==
    /\ \A x \in ports \ {"k3s"} : Up(x)
    /\ Up("k3s") => "k3s" \in ports

(* A nil Create means the whole cluster is there: every enabled container up *)
(* and published, every image in the registry, every manifest applied and,   *)
(* when each kind could be listed (kubectl.go:121 gives up on the first that *)
(* cannot), every rollout finished.                                          *)
ReadyMeansComplete ==
    Running
        => /\ Up("k3s") /\ (SSH => Up("ssh")) /\ (Registry => Up("registry"))
           /\ ports = {"k3s"} \cup (IF SSH THEN {"ssh"} ELSE {})
                        \cup (IF Registry THEN {"registry"} ELSE {})
           /\ pushed = Images /\ applied = 1..Manifests
           /\ ~listFailed => pending = {}

(* "WaitForRollouts waits for deployment, statefulset, and daemonset         *)
(* rollouts" (kubectl.go:109), and Create for it.                            *)
RolloutsFinished == Running => pending = {}

(* All containers run on one network. *)
Together == \A x \in Containers : Up(x) => at[x] = at["k3s"]

(* The registry and the ssh bridge run "on the same Docker network" as k3s   *)
(* (kubernetes/README.md:122 and :171).                                      *)
SameNetwork == Running => Together

(* How a nil Create, the first or a later one, has wired its containers: on  *)
(* one network exactly if the object and k3s were told the same one, and k3s *)
(* with the mirror of the registry exactly if the files that configure it    *)
(* are still there.  For the first Create both are so; a later one may find  *)
(* the name of a network that was never made (lifecycle.go:19), or the files *)
(* removed that only NewCluster writes (registry.go:201).                    *)
WiredExactly ==
    Running
        => /\ SSH \/ Registry => (Together <=> networkName = k3sNetwork)
           /\ mirror <=> "registryDir" \in disk
           /\ creates = 1 => Together /\ (Registry => mirror)

(* No step of the harness removes a network another process made, with one   *)
(* exception: it removes by name (lifecycle.go:125), so if its own network   *)
(* was removed from under it and another process has made one of that name,  *)
(* Cleanup takes that one for its own.                                       *)
ForeignNetworkKept ==
    [][ \A n \in Networks :
          nets[n] \in {"other", "heir"} /\ nets'[n] # nets[n]
            => \/ Outside
               \/ nets[n] = "heir" /\ networkCreated /\ RemoveNetwork ]_vars

(* Manifests are applied to a ready cluster only after every image is in the *)
(* registry they pull from (options.go, WithLocalImage).                     *)
ImagesBeforeManifests ==
    [][ applied' \subseteq applied
        \/ (pushed = Images /\ (Registry => Up("registry"))) ]_vars

(* Every call returns. *)
CallsReturn == pc # "idle" ~> pc = "idle"
=============================================================================
