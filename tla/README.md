# TLA+ verification of scaffold-toolbox

scaffold-toolbox is a set of Go modules, each of which runs one service (or one
stack of services) in Docker containers for a test: `New...` builds an object,
`Create` brings the service up and fills it, `Cleanup` takes it down again. The
code that can go wrong is the lifecycle: many resources, every call fallible,
a context that may be cancelled at any point, and an object that may be created
and cleaned up more than once. That is what this directory models, checks with
TLC and, for the core, proves with TLAPS.

## 1. Inventory

### Components

| component | state it keeps | operations | talks to |
|---|---|---|---|
| `kubernetes.Cluster` (`src/kubernetes`) | the k3s container; optional registry and ssh-bridge containers; `networkName`, `networkCreated`; `sshTempDir`, `registryTempDir`; published ports; options | `SetNetwork`, `Create`, `Cleanup`, `ApplyYAML`, `Kubectl`, `WriteKubeconfig`, image pushes | Docker daemon (through scaffold), `docker` CLI, k3s API through `kubectl` in the container |
| image references (`src/kubernetes/registry.go`) | what the registry holds | `PushImage`, `BuildAndPushImage`, `RegistryImage` | the registry container, the manifests that name images |
| connection harnesses: postgres, mysql, redis, mongo, memcached | container, client handle, port, preloads | `Create`, `Connect`, `Cleanup` | one container, over a client connection |
| HTTP harnesses: qdrant, weaviate, clickhouse, ollama, minio, litellm, trino, `iceberg.Catalog` | container, port, preloads; Trino also a host directory of catalogs | `Create`, `Cleanup`, queries | one container, over HTTP |
| `argocd.Stack`, `workflows.Stack` | a `kubernetes.Cluster`; `preexisting` (which CRDs were there before); CRD options; manifests | `Create`, `Cleanup` | the Cluster, `kubectl` |
| `aws.Stack` (`src/aws`) | MiniStack container, optional registry and network; created resources; ECS task ARNs; queue URLs; ports | `Create`, `Cleanup`, resource helpers, image pushes, `RunTask` | Docker, MiniStack's AWS API, containers MiniStack starts by itself |
| composed stacks: `iceberg.Stack`, `stacks/rag`, `stacks/analytics`, `stacks/datalake`, `stacks/workflow` | the services they hold, in one `scaffold.Stack` | `Create`, `Cleanup`, `SetNamePrefix`, `Env` | the services above |
| the scaffold library | containers, networks, waits | not in this repository | Docker |

### How they interact

A service is an object with one caller. `Create` and `Cleanup` are sequential
code; the concurrency is with the world: the Docker daemon, the k3s API and its
controllers, other processes that use a network of the same name, and the
caller's context, which can end between any two calls. A harness keeps handles
(a client, a temporary directory, "I made this network") so that a later
`Cleanup` can undo what an earlier `Create` did; handles that outlive what they
name, or are forgotten before it is gone, are the main source of errors.

### What is hard, and what makes each component correct

* **Cluster**: a `Create` fails at any of twelve points and has to release what
  the earlier steps made, under a context that is no longer the caller's
  (`WithoutCancel`); `Cleanup` goes on after an error and has to report it; the
  network may be another process's; images have to be pushed before manifests
  are applied; a second `Create` finds fields of the first. Correct means:
  nothing is leaked without an error, a nil `Create` means everything the
  options ask for is there, a published address has a container behind it (but for
  that of k3s, which nothing withdraws), a foreign network is never removed, and every
  call returns.
* **Image references**: the reference a manifest uses must name the repository
  that was pushed to, although three functions rewrite it.
* **Harnesses**: the readiness wait and the preloads open clients, polls fail
  half-way, MinIO's preloads are retried as one unit. Correct means: one open
  client at most and the object holds it; preloads took effect, in order, on the
  container that is up; a failed `Create` leaves no container.
* **Argo stacks**: a record made by fallible reads decides what a later call
  deletes. Correct means: the user's CRDs stay and the stack's own go.
* **AWS stack**: as Cluster, plus resources that live in the service and
  containers the service starts on the network.
* **Composed stacks**: services in one network under one name prefix; correct
  means that a failure of one leaves none of the others and that addresses which
  services are given of each other are right.

The full list of hazards, each at its line and with the properties that cover
it, is under `hazards` in `PROJECT.json`.

## 2. Plan

Modules, in order:

1. `ServiceContract`: the abstract specification of a service. *Done.*
2. `Cluster`, `ClusterContract`, `ClusterProofs`, `ClusterReadyProofs`. *Done; the core.*
3. `ServiceHarness`, `ServiceHarnessProofs`: thirteen services as profiles of one machine.
   *Done.*
4. `ArgoStack`, `ArgoStackProofs`: the two Argo stacks over a Cluster. *Done.*
5. `ImageRef`, `ImageRefProofs`: references. *Done.*
6. `AwsOptions`, `AwsStack`, `AwsContract`, `AwsStackProofs`, `AwsReadyProofs`: the
   options, the stack, its refinement and its proofs. *Done.*
7. `Composed`, `ComposedProofs`: a `scaffold.Stack` of services that each follow
   `ServiceContract`, with the shared network, the name prefix and the addresses
   `iceberg.Stack` puts in Trino's catalog. *Done.*
8. Still to model: `envKey` and the uniqueness of the names it makes, the manifest
   paths and the kubeconfig rewriting of `kubernetes.Cluster`.

`ClusterContract`, `MCServiceHarness` and `MCArgoStack` compose a detailed module
with `ServiceContract`, and so does `AwsContract`; `Composed` is built on `ServiceContract`
alone, which is why the contract is shown for each service first. `ArgoStack` uses of the
Cluster only what `ClusterContract` shows of it.

## 3. The modules and the code

### Cluster

State. `at` is where each of the containers `k3s`, `registry` and `ssh` runs ("absent",
the default bridge, the object's own network, or one scaffold set); `nets` who made a
network ("us", "other", or "heir": another process, in the place of the object's own while
it still believes to have one); `guests` which networks another process has a container
on; `disk` the temporary directories; `mirror` whether k3s was started with
`registries.yaml` bound; `pushed`, `applied`, `pending` the images, manifests and
unfinished rollouts. `networkName`, `networkCreated` are the fields of the same name,
`k3sNetwork` the network `c.container` was told to join, `held` the non-nil ones among
`sshContainer`, `sshTempDir`, `registryTempDir`, `ports` the non-empty ones among `port`,
`sshPort`, `registryPort`. `op`, `pc`, `err`, `i`, `cancelled` are the running call.
`failedAt`, `missed`, `abandoned`, `listFailed`, `creates` are history, read by properties
only (`creates` also bounds the run).

| action | code |
|---|---|
| `SetNetwork`, `BeginCreate`, `BeginCleanup`, `Cancel` | the caller: `Cluster.SetNetwork`, the entry of `Create` and `Cleanup`, the context |
| `CreateNetwork` | `lifecycle.go`, first block of `Create` |
| `StartRegistry`, `AwaitRegistry` | `startRegistry` and its wait |
| `PreloadImage` | `preloadImages`, one image per step |
| `StartK3s`, `AwaitAPI`, `AwaitNode` | `container.Start` and the two waits |
| `PrepareSSH`, `StartSSH` | `startSSHBridge`: files, then container |
| `EnsureNamespace`, `ApplyManifest`, `WaitForRollouts` | the rest of `Create` |
| `DeleteManifest` | the loop at the head of `Cleanup` |
| `CleanupSSHBridge`, `CleanupK3s`, `CleanupRegistry`, `RemoveNetwork` | the release chain, shared by `Cleanup` and `cleanupAfterCreateFailure` |
| `OtherCreates`, `OtherJoinsOrLeaves`, `OtherRemoves`, `RolloutFinishes` | other processes on the network's name; the controllers |

A step is one call to the outside with the assignments around it. Each call may
succeed (if the world and the context allow) or fail; a call that fails may have
had its effect where the code cannot tell (a network that was made and whose
reply was lost).

### ImageRef

`registry` maps a repository to the image last pushed there, `last` is what the
last push was asked for and what it returned. A reference is the sequence of its
parts between slashes; whether a part "looks like a registry" (`.`, `:` or
`localhost`) is membership in `Hosts`. `stripRegistry`, `RegistryImage`,
`HostImage`, `ClusterImage` are the functions and the two lines of
`pushPreparedImage`; `Push` and `PushFails` are its outcomes.

### ServiceHarness

Thirteen services differ in six ways, which `Profile` records (how `Create` waits,
when preloads connect again, whether a replaced client is closed, whether
preloads are retried, whether a directory is bound, whether preloads obey the context:
those of postgres, mysql and memcached take none); each service is one
definition mapped to its own `Create` and connect code, which the profile sums up. `Start`,
`AwaitReady`, `Redial`, `Preload`, `Preloaded` are the steps of `Create`;
`CloseClient`, `RemoveContainer`, `RemoveDir` those of `Cleanup`; `Connect` is the
caller's own connection to a running service. `open` is the set of open clients,
`handle` the one the object remembers.

### ArgoStack

`store` says of each CRD whether it is on the cluster and where it came from: the
user, an earlier run that left it, or this run. `preexisting` is the field.
`persistent` says that k3s keeps its objects in a datastore that outlives the
container (which `WithK3sArgs` allows); without one every CRD goes with k3s and
most of the stack's bookkeeping could never matter. `CreateCluster` and
`RemoveCluster` are the Cluster's calls, one step each, with the outcomes
`ClusterContract` shows; the other actions are one `kubectl` call each.

### AwsStack

`AwsOptions` is the options as functions on a configuration: each `With...` of the
package, applied in the order given, and what `NewStack` makes of the result. A
configuration says whether there is a registry, which network, which services
are enabled, which images are preloaded, and for each kind of resource the list
of things to make (`wanted`), ECS services and tasks with their cluster and image.
`Trim` is what `uniqueServices` does to a name: it is applied to the services that are
enabled and to the names under which ECS clusters are made, and not where services and
tasks look for their cluster. `Trimmed` gives it for the names with blanks around them.

In `AwsStack` a container is known by the `Create` that started it (`run`), so the
handles that outlive their container (`port`, `registryPort`, `arns`, `ids`) can be told
from fresh ones: a handle is stale when it names another run than the one that
is up. `tasks` are the containers MiniStack started for ECS; `stopping` those it was
told to stop and that have not ended. `made` is what is in the MiniStack that is up
and `pushed` in the registry that is up; both go with the container. `stage` and `i`
are the position in `createResources`. `missed`, `lost`, `abandoned`, `creates` are history.

| action | code |
|---|---|
| `SetNetwork`, `BeginCreate`, `BeginCleanup`, `Cancel` | the caller |
| `CreateNetwork`, `StartRegistry`, `AwaitRegistry`, `PreloadImage`, `StartMiniStack`, `AwaitMiniStack` | `Create` up to the resources |
| `NoClient`, `CreateResource`, `NextKind` | `createResources` and `resources.go`: one thing of one kind per step |
| `CreateECSCluster`, `CreateECSService`, `RunECSTask` | `createECSResources`, with `registerTaskDefinition` and the image push it makes |
| `DeleteServices`, `StopTasks`, `DeleteClusters` | the three loops of `cleanupECSResources`, one step each |
| `CleanupMiniStack`, `CleanupRegistry`, `RemoveNetwork` | the rest of `Cleanup` and `cleanupAfterCreateFailure`, in their common order |
| `TaskExits`, `OtherCreates`, `OtherRemoves` | ECS containers end; another process uses the network's name |

### Composed

A stack is a record the constructors build: its name, the groups in which its services
start, whether they share a network, and for each service the addresses written into it
(`Lake`, `DataLake`, `RAG`, `Analytics`, `Workflow`). A name is the sequence of its parts,
which is what `stringsTrimSuffix` needs to tell. `member` is the state of each service as
`ServiceContract` has it, and `Serve(m)` any step that contract allows: the module knows
nothing else of a service. `container` is the name and network a service's container was
started with. `BeginCreate`, `Start`, `NextGroup`, `Release`, `BeginCleanup`, `Stop`,
`Stopped`, `Unlink` are what `scaffold.Stack` does with the groups; the services of a
group may start and stop in any order or at once. `Fade` and `OthersUnlink` are others who
remove what a failed removal left.

### ServiceContract

Seven phases of an object's life. While a call runs resources come and go;
between calls nothing comes back, though what is left of an earlier call may be
removed by others; `Create` returns nil only with the service
there; a call that fails to `Create`, or a `Cleanup` that returns nil, leaves
nothing, with the one excuse that a removal was refused (`excused`).

## 4. What the runs check

| run | question | result |
|---|---|---|
| `cluster_full` | all options, two `Create`s, failures and cancellation anywhere, others who make, use, remove and replace the network | types; `HandleKept`, `CleanupNilMeansClean`, `FailedCreateReleases`, `AddressesLive`, `ReadyMeansComplete`, `WiredExactly`, `ForeignNetworkKept`, `ImagesBeforeManifests` hold; the Cluster implements `ServiceContract` (`KeepsContract`), with two more excuses: failures at `CreateNetwork` and at the k3s `Start` |
| `cluster_first` | all options, one `Create`, two manifests | every call returns |
| `images` | names of up to three parts, two pushes | references pull what was pushed, but for `ClusterImagePulls` below |
| `harness` | thirteen services | type, clients, preloads, release, contract hold; every call returns |
| `argo` | two CRDs, two manifests, clearing before the install, datastore of both kinds | `RecordTellsOwn`, `OwnCRDsGone`, `ReadyMeansInstalled`, `UserCRDsKept`, the contract hold; every call returns |
| `aws` | eight choices of options, two `Create`s, failures, lost replies and cancellation anywhere, tasks that end, others who make, remove and replace the network | types and loop bounds; `NeedsMet` (each step of `createResources` finds its service, registry and network, and its cluster exactly if that is named without blanks around it); `HandleKept` (ECS containers included), `CleanupNilMeansClean`, `FailedCreateReleases`, `ReadyMeansComplete` hold; the stack implements `ServiceContract` with no more excuse than a refused removal |
| `composed` | the five ready-made stacks and two lakes with awkward names, over services that do whatever the contract allows; two `Create`s, a prefix set or not, others who remove what is left over | the stack implements `ServiceContract` (`KeepsContract`); the lake's addresses lead to containers (`LakeWired`) |

Five runs end in a violation, each of a sentence in the repository (quoted under
`findings` in `PROJECT.json`):

* `cluster_start_fails`: a failed k3s `Start` leaves the registry and the network,
  and the README and tests defer `Cleanup` only after a nil `Create`.
* `cluster_retry_network`: `Create` after a failed `CreateNetwork` skips the network
  and puts registry and k3s on different ones.
* `cluster_rollouts`: one failing `kubectl get` makes `WaitForRollouts`, and `Create`,
  return nil with rollouts unfinished.
* `image_nested_host`: stripping twice loses a part of `registry/my.org/app`.
* `argo_leftovers`: the CRDs that `beforeInstall` is meant to clear are recorded as
  preexisting first, so none ever is.

Where the code promises less than its documentation elsewhere, the property that
holds names the exception, with the line that causes it:

* one failing `kubectl get` makes `WaitForRollouts` return nil (`kubectl.go:121`):
  `ReadyMeansComplete` says nothing of rollouts then;
* `Create` after `cleanupRegistry` starts k3s without the mirror configuration
  (`registry.go:201`), and Trino without its catalogs (`trino.go:204`); one after a
  `CreateNetwork` that failed finds `networkName` set (`lifecycle.go:19`). `WiredExactly`
  and `ReadyMeansPreloaded` promise the mirror, one network and the catalogs of the first
  `Create`, and say of every later nil one exactly when it has them;
* `Cleanup` never clears `port` (`lifecycle.go:44`), and `Endpoints` goes on naming a k3s
  that is gone: `AddressesLive` speaks of the registry's and the bridge's addresses. In
  the AWS stack only `registryPort` is cleared; the port, the queue URLs and the topic
  ARNs stay published after a nil `Cleanup` (`aws.go:329`, `aws.go:495`);
* networks are removed by name (`lifecycle.go:125`, `aws.go:520`): if another process has
  removed the object's own and made one of that name, `Cleanup` removes that one.
  `ForeignNetworkKept` allows this step and no other;
* ECS clusters are made under trimmed names (`services.go:430`, `ecs.go:141`) and looked
  up under the names as given (`ecs.go:171`, `ecs.go:198`, `ecs.go:381`): `NeedsMet` says
  that a service or task finds its cluster exactly if its name has no blanks around it;
* memcached's `Connect` drops the previous client without closing it
  (`memcached.go:116`): `ClientsReachable`, `OrphanClient` and `CleanupNilMeansClean`
  let it off;
* a `kubectl get` that fails for any reason reads as "was not there"
  (`argocd.go:275`), and a `Create` that fails in `cluster.Create` records nothing:
  `UserCRDsKept` allows the user's CRD to be deleted in these two cases;
* nobody reads the failures in the reply of `RunTask` (`ecs.go:219`):
  `ReadyMeansComplete` of the AWS stack lets tasks off;
* `SetNamePrefix` renames the containers of an `iceberg.Stack` and not the addresses
  in its catalogs (`iceberg.go:82`): `LakeWired` speaks of stacks without a prefix, and
  without that condition TLC finds it violated. Whether Docker also resolves the
  unprefixed names is up to the scaffold library.

### Bounds, and why they are enough

* `MaxCreates = 2` (1 in `cluster_first`, where the question is whether calls end).
  What a `Create` finds that the first did not is the fields and
  resources an earlier call left; a second call meets all of them, and `Cleanup` is
  not bounded. A third would start from a state the second starts from.
* `Images = 1`, `Manifests` 1 or 2. Properties compare "all" with "some": one image
  is either there or not; two manifests give a state with the first applied and
  the second not. The passing Cluster runs have every option on; that the steps which an
  option switches off leave nothing undone, and that such a call ends, is
  `ReadyIsComplete` and `CallsEnd`, for all options. The proofs do not bound either.
* `MaxPreloads = 2`: order and repetition need two. `MaxClients = 2`: one client that
  replaces another. `MaxTries = 2`: one retry after a retry. In the code the wait is
  limited by a timeout and the poll count is the model's stand-in for it.
* `Confs` of `aws`: one configuration per path through the code: resources that may
  be asked for twice and those that may not, no network, one of the stack's own
  and one from outside, images preloaded and pushed for a service, an ECS cluster
  asked for three times, one ECS service whose option alone has to bring in its
  cluster, the registry and the Docker socket, a name the checks refuse, names of
  clusters and services with blanks in front or of blanks alone. Each has at
  most three things of a kind.
* `Stacks` of `composed`: all constructors; the lakes are called `app`, `app-catalog` and
  `-catalog`, where trimming one suffix too many or too few shows.
* `CRDs = 2`: one treated one way and one the other. The code has up to eight,
  handled one by one.
* `Depth = 3`, two hosts, one word: a host before a host before a word is the
  longest case the functions distinguish; `MaxPushes = 2` lets one push replace
  another. The proofs do not bound the length.

`ImageRef` alone is checked without deadlock detection: pushes are limited, and
with the last of them the model stops. Every other model can always go on.

### Fairness

`FairSpec` is weak fairness of the steps of a running call, and of nothing else:
not of the caller, nor of the cluster's controllers. A call runs on the caller's
goroutine, which the scheduler does not starve, and a step of it ends because
the wait it makes has a timeout (`waitTimeout`, `rolloutTimeout`, the HTTP client's) or is a
request to a daemon that answers. Two are weaker, and the model has them answer or fail:
`kubectl delete` in `Cleanup` has no timeout except the caller's context, and the SQL
preloads (`postgres.go:234`, `mysql.go:221`) not even that, so a statement that never ends
holds `Create` up for ever, cancelled or not. That a
rollout never finishes is allowed: the step that waits may then fail.

## 5. What is proved

`ClusterProofs`, for all options, numbers of images, manifests and calls, from
`ConfigAssumption` alone (the constants are Booleans and naturals; preloaded
images imply the registry, as `WithLocalImage` does):

* `TypeCorrect`, `HandlesKept`, `CleanupIsClean`, `FailedCreateIsClean`,
  `AddressesAreLive`: safety invariants that `cluster_full` checks;
* `ForeignNetworksKept`: the action property about networks;
* `K3sAddressIsKept`: that no step withdraws the address of k3s.

The invariants are not inductive. That a nil `Cleanup` left nothing is a fact about the
end of a chain of four releases, so `Released` says for each point of the chain what is
already gone and forgotten (`Gone`). That in turn needs `Kept`: what exists is held,
resource by resource, otherwise a release would not look for it; and `BridgeKnown`: an ssh
bridge that is up is published, since a release that finds nothing to remove is told from
one that removes by the port. `CallShape` ties the program counter to the call (a `Create`
on the release chain has met its error and did not fail at the two points that return at
once, and its context is not the caller's, so nothing is abandoned). `NetworkOwned` says
that `networkCreated` is set only under the object's own name, and that what is there
under it was then made by the object, or by another process in its place ("heir"), or is
gone: so what the object made is held or reported, and the only network of another's that
`RemoveNetwork` can meet is such a replacement. `IInv` is the conjunction with `TypeOK`;
it is shown for `Init`, then step by step in four lemmas (`CreateStep`, `CleanupStep`,
`CallerStep`, `OutsideStep`), each with one case per action and one step per conjunct it
can disturb.

`ClusterReadyProofs`, from the same assumption, is about a `Create` that succeeds:
`ReadyIsComplete`, `CreateIsWired`, `ImagesFirst` and the refinement
`ImplementsContract`. That a nil `Create` means a complete cluster is the work of
twelve steps, of which only the last is seen when it returns, so its invariant
`Built` says what the steps before each point have put in place. `Standing`: the
enabled containers that `Create` has passed are up and published. `Filled`: how
far the loops over images, manifests and kinds of rollouts have come; a k3s that is
down has nothing applied, so a retry starts from nothing. `Wired`: until the first
`Create` fails, the object knows one network, which everything that is up is on, and
the registry's files are on disk. `Built` is inductive relative to `IInv`, one case per
action and one step per part. The refinement takes from `Standing` that a `Create`
that returns nil holds k3s, and from `CleanupIsClean` and `FailedCreateIsClean` the
rest.

`ImageRefProofs`, for names of every length and any number of pushes:
`NamesPull`, `ReturnedPull`, `ReferencesStable`. They rest on lemmas about
`stripRegistry` and on one invariant, that the repository of the last push holds
its image.

`AwsStackProofs`, for every set of configurations the options can build and any number of
calls, from `AwsAssumption` and `TrimmedAssumption` (trimming a trimmed name changes
nothing, and the names of the kinds have no blanks around them): `TypeCorrect`,
`HandlesKept`, `CleanupIsClean`, `FailedCreateIsClean` and the refinement
`ImplementsContract`. `IInv` adds to the type invariant four facts: `CallShape` (where
each call can stand, and that the release after a failed `Create` runs with a context that
cannot be cancelled), `NetworkOwned` (a network is the object's only under
`networkCreated`, or was reported, also where others remove and replace it), `TasksKnown`
(a running task belongs to the MiniStack that is up and can be named, or is in `lost`;
past the ECS part of a release none is left) and `ContainersKnown` (a container that is up
is published and configured; past its place in the release it is gone or reported). The
refinement follows from `IInv` and the two results on `Cleanup` and failed `Create`s, one
case per way a step can change `op` and `pc`.

`AwsReadyProofs`, from the same assumptions: `ReadyIsComplete`. A nil `Create` ends a loop
over kinds of loops over resources, on a MiniStack that forgot those of an earlier
`Create` and an object that did not. `Built` says what is there at each point: containers
of this `Create` at the addresses the object publishes (`Placed`), the images passed so
far (`Preloaded`), for each kind and resource passed what its step leaves behind
(`Filled`), and that of one name the object remembers one address, and none of names not
asked for (`Remembered`). `OneFurther` is the lemma on one step of the loop; that old
addresses are replaced one by one until none is left follows from `Filled` with
`Remembered`.

The same module proves what `createResources` takes for granted. `createResources` checks
nothing of what its requests rely on; the options have to have seen to it.
`Stacks` is what `NewStack` can make: the least set of configurations that holds the empty
one and is closed under every option, completed by `NewStack`. `OptionsAreWellBuilt` says
that all of these have the services, the Docker socket, the clusters and the registry
their resources need (`WellBuilt`), whatever options are combined, in whatever order and
however often; there is one lemma per option, and induction over the list of options
is not needed because membership in a least set is used instead. `NeedsAreMet` carries
this through the run of `Create`: for stacks made of options (its one hypothesis,
`Confs \subseteq Stacks`, which is what the code's only constructor gives) each step
finds what it needs at the moment it is taken, its cluster exactly if that is named
without blanks around it: clusters are made under trimmed names only (`ClustersTrimmed`,
a part of `Built`). These two use `LiteralAssumption`
besides, that the names of the kinds are strings, which TLAPS is not able to see.
`NetworksAreKept` in `AwsStackProofs` is the action property about other processes'
networks, with the same exception as the Cluster's.

`ComposedProofs`, for any stacks of any groups: `ImplementsContract` says that a stack
over services that keep `ServiceContract` keeps it too. This is the step from the
services, each shown to implement the contract, to the ready-made stacks. It
rests on `Excuses` (what a service at rest still holds has an excuse) and `ReadyShape` (a
service that is up is accounted for by a stack that is up or is still to be
released). `AddressesResolve` says that for stacks the constructors build, under any name,
`LakeWired` holds; it rests on `TrimAppend` (trimming the suffix that was appended gives
the name back) and on `Progress` (groups before the current one are up).

`ServiceHarnessProofs`, for every set of profiles and every number of preloads, polls,
clients and calls, from `HarnessAssumption` alone: every safety property that `harness`
checks, and the refinement `ImplementsContract`. Most of its invariant says, as for the
Cluster, where a call can stand (`CallShape`), where the container is up (`Standing`),
what Trino's directory allows (`CatalogKept`, `Followed`) and what a `Cleanup` has undone
(`Undone`). The part that is its own is `Counted`: which preloads took effect how often is
settled at the last of them, after retries of the whole list and after calls that took
effect though their reply was lost. So it compares the counters before, at and after the
current preload: each of those before it is ahead of each that is to come, and none is
ahead of the tries. `EffectCounts` is the lemma that one preload keeps that.

`ArgoStackProofs`, for any numbers of CRDs and manifests, from `ArgoAssumption` alone: every
safety and action property that `argo` checks, and the refinement. Whether a CRD is the
run's own is decided before the install and used at the other end of the object's
life, maybe after another `Create` has decided it again. `FoundKept` and `Noted` say
what the record means at each point between, also half-way through the loop that
makes it: a CRD of the user's is in it or was misread, and one that is in it was
there. `Undone` says how far the deletion has come, `Installed` what the second half
of `Create` has put on the cluster. `UserCRDsAreKept`, about steps, follows from `Noted`.

### How far the exceptions go

A violating run shows that something can happen; these theorems say when it does, and
that nothing later repairs it. They need no assumption besides the one each module has,
except that `AddressesDangle` is, like `AddressesResolve`, about the stacks the constructors
build (`Presets`), and takes a prefix to be a sequence, as any name is.

| finding or exception | theorem |
|---|---|
| `cluster_retry_network` | `CreateIsWired`: the containers of a nil `Create` are on two networks exactly when `networkName` differs from the name k3s was given. `SplitIsKept`: only a failed `CreateNetwork` brings that about, and of all steps only `SetNetwork` undoes it |
| `cluster_start_fails` | `StartFailureIsLeft`: it is not a matter of timing. Whenever `Start` of k3s fails and there is a registry, the failed `Create` leaves it, on the network it was told to join. (The network may be removed by others where nothing is attached to it.) |
| `image_nested_host` | `ReturnedIsExact`: a push returns the right reference exactly if the repository does not begin with a further host, and otherwise the repository without that host |
| `argo_leftovers` | `NothingIsCleared`: no leftover is ever cleared before the install, whatever the datastore and the number of CRDs, but for one whose `get` failed |
| `WiredExactly` (`registry.go:201`) | `CreateIsWired`: k3s has the mirror exactly if the files are on disk. `MirrorIsLost`: after a nil `Cleanup` that removed them it never has it again |
| `ReadyMeansPreloaded` (`trino.go:204`) | `ReadyIsPreloaded`, `CatalogsAreLost`: the same for Trino's directory and catalogs |
| `AddressesLive` (`lifecycle.go:44`) | `K3sAddressIsKept`: once published, the address of k3s is withdrawn by no step |
| `ClientsReachable` (`memcached.go:116`) | `LostClientsStay`: a client that the object does not remember is closed by no later call |
| `LakeWired` (`iceberg.go:82`) | `AddressesDangle`: with any prefix no written address is the name of a container of the stack |

Those of the Cluster rest on `Traced`, an invariant relative to `IInv` and `Built`, which
keeps where each container was put, and with what, as a function of the fields that were
read at that time; the Argo one on `Seen` (what `recordCRDs` has passed is in the record
or was misread); the one about prefixes on `Named` (a prefix cannot change under a
container) and on `PrefixLengthens`. `MirrorIsLost` and `CatalogsAreLost` speak of all
later states, and put an invariant, a step and a result about `Cleanup` together.

### That calls end

`CallsReturn` is liveness and stays with TLC, but most of it is not about fairness: it is
that a call cannot go round in circles, although it loops over images, manifests, CRDs and
resources, polls, retries MinIO's preloads from the first, and goes through a release
chain that two calls share. `CallsEnd` says so in `ClusterReadyProofs`,
`ServiceHarnessProofs`, `ArgoStackProofs` and `AwsReadyProofs`. `StepsLeft` is what a call
has left to do at most; it is natural, 0 only between calls, lower after each step of
`Create` or `Cleanup`, and no step of anyone else raises it. It starts, for a Cluster's
`Create`, at `19 + Images + Manifests`, for its `Cleanup` at `5 + Manifests`; for an Argo
stack at `8 + Manifests + 2 * CRDs` and `3 + Manifests + CRDs`; for an AWS stack at 12
plus its images and the turns of its eleven loops over resources, and at 6. For a service
the bound depends on `MaxTries`, which stands for the timeout of its wait. What TLC adds
is that a running call always has a step to take and, by the fairness of section 4, takes
it. There is no such bound for `Composed`: `ServiceContract` lets a service work for as
long as it likes.

### What is only model-checked

* Liveness: `CallsReturn`, out of the prover's reach (see above for the part that is not).
* Nothing else: every other property of the passing runs is stated by a theorem.

The inductive invariants (`IInv`, `Built`, `Traced`, ...) are in no configuration: TLC
checks the properties that they imply. They were checked with TLC on the
same instances before they were proved. The theorems on the extent of the exceptions are
in no configuration either; the violating runs show the states that they are about.

## 6. Assumptions about what is outside

The scaffold library, Docker and `kubectl` are not in the repository; the model
takes of them what the code relies on:

* a `Start` that fails leaves no container, fails when the container's name is
  taken or its network is missing, and every Docker call fails once its context
  is cancelled;
* `CreateNetwork` reports whether it made the network; removing a network fails while
  a container is attached, whoever asks. Others may make, join, leave, remove and replace
  the network of the object's name at any time; the shared network that scaffold
  set for a single service stays for as long as the object is used, and that of a composed
  stack during the stack's calls;
* scaffold calls `SetNetwork` before `Create`, on an object that holds nothing;
* `Create` is not called on a running service, and one object has one caller;
* MiniStack keeps its state in memory and does not crash while its container is
  up; it answers "already exists" for tables, secrets, streams, buses and services
  and accepts a second bucket, queue, topic, parameter or cluster; a request may
  take effect and its reply be lost; the reply of a `CreateQueue` or `CreateTopic` that
  succeeds carries the URL or ARN (without one the code would keep the old, `aws.go:583`,
  `aws.go:599`); a container it starts goes on without it, can
  only be stopped through it, and may end by itself;
* `scaffold.Stack` starts groups in order, waits for the services of a group before
  it gives up, releases on failure what it started, and removes a shared network
  last;
* a `kubectl apply` may fail with part of its objects applied; a delete that fails
  has deleted nothing, and deleting a CRD deletes the objects of its kind.

## 7. What is not modelled

* `UploadObject` and `UploadFile` (`src/aws/s3.go`): one request each, which changes nothing
  in the object. Region, credentials, labels and the wording of the AWS
  environment variables (`envKey` may map two names to one).
* The options of the composed stacks that are handed to one of their services.
* Calls on a running service that leave the object's state alone: `Kubectl`, `Status`,
  `Logs`, queries, `Env`, endpoints. They read fields the models have.
* What manifests, preloads and kubeconfigs contain, and how they are rewritten
  (`manifests.go`, `kubeconfig.go`); options, but for the ones that are constants.
* Two clusters of the same name in one process, and crashes of the process: the
  harness persists nothing and never looks for what a dead process left, except
  through the Argo stacks' CRDs, where the leftovers are initial states.
* `NewCluster` and `NewTrino` failing: there is no object afterwards. (`NewCluster`
  then leaves its temporary directory behind; see `hazards`.)
