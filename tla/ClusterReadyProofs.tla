------------------------- MODULE ClusterReadyProofs -------------------------
(***************************************************************************)
(* What TLAPS proves of a Create that succeeds: the cluster is complete,   *)
(* the first one is wired together, images go in before manifests, and     *)
(* with ClusterProofs' two theorems about failures and Cleanup, that       *)
(* Cluster implements ServiceContract.                                     *)
(*                                                                         *)
(* None of it follows from the last step of Create.  Built says, for each  *)
(* point of the call, what the steps before it have put in place.          *)
(***************************************************************************)
EXTENDS ClusterProofs

(* The points of Create at which each container has been started. *)
WithBridge   == {"namespace", "manifests", "rollouts"}
WithK3s      == {"api", "node", "ssh", "sshStart"} \cup WithBridge
WithRegistry == {"registryUp", "images", "k3s"} \cup WithK3s

(* The enabled containers that Create has passed are up and published, and   *)
(* no other is published.                                                    *)
Standing ==
    /\ pc \in WithRegistry \/ Running
         => (Registry => Up("registry") /\ "registry" \in ports)
    /\ pc \in WithK3s \/ Running => Up("k3s")
    /\ pc \in WithBridge \/ Running => (SSH => Up("ssh") /\ "ssh" \in ports)
    /\ pc = "sshStart" => SSH
    /\ SSH \/ "ssh" \notin ports
    /\ Registry \/ "registry" \notin ports

(* How far the three loops of Create have come.  A k3s that is down has      *)
(* nothing applied, so a retry counts from nothing.                          *)
Filled ==
    /\ pc = "k3s" \/ pc \in WithK3s \/ Running => pushed = Images
    /\ ~Up("k3s") => applied = {} /\ pending = {}
    /\ pc \in CreatePoints \ {"manifests", "rollouts"} => i = 1
    /\ pc \in WithK3s \ {"manifests", "rollouts"} => applied = {}
    /\ pc = "manifests" => i <= Manifests + 1 /\ applied = 1 .. (i - 1)
    /\ pc = "rollouts" \/ Running => applied = 1 .. Manifests
    /\ pc = "rollouts"
         => /\ i \in 1 .. 4
            /\ i > 1 => "deployment" \notin pending
            /\ i > 2 => "statefulset" \notin pending
            /\ i > 3 => "daemonset" \notin pending
    /\ Running /\ ~listFailed => pending = {}

(* Until the first Create fails, the object knows one network, what is up is *)
(* on it, and the registry's files are there for k3s to be started with.     *)
Wired ==
    /\ creates = 0 => op = "new"
    /\ op = "new" => pc = "idle" /\ creates = 0 /\ \A x \in Containers : ~Up(x)
    /\ op = "new" \/ (creates = 1 /\ op = "create" /\ ~err)
         => /\ networkName = k3sNetwork
            /\ Registry => "registryDir" \in disk
            /\ \A x \in Containers :
                 Up(x) => at[x] = Place(networkName) /\ pc # "network"
            /\ pc \in WithK3s \/ Running => (Registry => mirror)

Built == Standing /\ Filled /\ Wired

-----------------------------------------------------------------------------
(* Nothing is built in the initial state. *)
LEMMA InitBuilt == Init => Built
BY ConfigAssumption DEF Init, Built, Standing, Filled, Wired, Running, Up, Containers,
   CreatePoints, WithRegistry, WithK3s, WithBridge

(* What Create has built is kept, or built further, by a step of Create. *)
LEMMA CreateBuilds == IInv /\ Built /\ Create => Built'
<1> SUFFICES ASSUME IInv, Built, Create PROVE Built'
    OBVIOUS
<1> USE ConfigAssumption
    DEF Built, Containers, Up, Running, CreatePoints, WithRegistry, WithK3s, WithBridge,
        world, object, call, history, notes,
        Goto, Fail, Abort, ReturnErr, Release, Record, Forget
<1>a. NumbersOK /\ WorldOK /\ HandlesOK /\ CallOK /\ CallShape
    BY DEF IInv, TypeOK, NamesOK, Safe
<1>1. CASE CreateNetwork
  <2>1. Standing'
    BY <1>a, <1>1
    DEF CreateNetwork, WorldOK, CallOK, CallShape, Standing, CanStart, Place, Joined
  <2>2. Filled'
    BY <1>a, <1>1
    DEF CreateNetwork, WorldOK, CallOK, CallShape, Filled, NumbersOK, Standing
  <2>3. Wired'
    BY <1>a, <1>1
    DEF CreateNetwork, WorldOK, CallOK, CallShape, Wired, Standing, CanStart, Place,
        Joined
  <2>4. QED
    BY <2>1, <2>2, <2>3
<1>2. CASE StartRegistry
  <2>1. Standing'
    <3>1. Place(networkName) # "absent"
      BY <1>a DEF Place, HandlesOK, Networks
    <3>2. \A x \in Containers : Up(x) => Up(x)'
      BY <1>a, <1>2, <3>1 DEF StartRegistry, WorldOK, CanStart, Joined
    <3>3. pc' = "registryUp" => Up("registry")'
      BY <1>a, <1>2, <3>1 DEF StartRegistry, WorldOK, CanStart, Joined, CallShape
    <3>4. QED
      BY <1>a, <1>2, <3>2, <3>3 DEF StartRegistry, CallOK, CallShape, Standing
  <2>2. Filled'
    BY <1>a, <1>2
    DEF StartRegistry, WorldOK, CallOK, CallShape, Filled, NumbersOK, Standing
  <2>3. Wired'
    BY <1>a, <1>2
    DEF StartRegistry, WorldOK, CallOK, CallShape, Wired, Standing, CanStart, Place,
        Joined
  <2>4. QED
    BY <2>1, <2>2, <2>3
<1>3. CASE AwaitRegistry
  <2>1. Standing'
    BY <1>a, <1>3 DEF AwaitRegistry, Await, WorldOK, CallOK, CallShape, Standing
  <2>2. Filled'
    BY <1>a, <1>3
    DEF AwaitRegistry, Await, WorldOK, CallOK, CallShape, Filled, NumbersOK,
        Standing
  <2>3. Wired'
    BY <1>a, <1>3 DEF AwaitRegistry, Await, WorldOK, CallOK, CallShape, Wired, Standing
  <2>4. QED
    BY <2>1, <2>2, <2>3
<1>4. CASE PreloadImage
  <2>1. Standing'
    BY <1>a, <1>4 DEF PreloadImage, WorldOK, CallOK, CallShape, Standing
  <2>2. Filled'
    BY <1>a, <1>4
    DEF PreloadImage, WorldOK, CallOK, CallShape, Filled, NumbersOK, Standing
  <2>3. Wired'
    BY <1>a, <1>4 DEF PreloadImage, WorldOK, CallOK, CallShape, Wired, Standing
  <2>4. QED
    BY <2>1, <2>2, <2>3
<1>5. CASE StartK3s
  <2>1. Standing'
    <3>1. Place(k3sNetwork) # "absent"
      BY <1>a DEF Place, HandlesOK, Networks
    <3>2. \A x \in Containers : Up(x) => Up(x)'
      BY <1>a, <1>5, <3>1 DEF StartK3s, WorldOK, CanStart, Joined
    <3>3. pc' # "idle" /\ ~err' => Up("k3s")'
      BY <1>a, <1>5, <3>1 DEF StartK3s, WorldOK, CanStart, Joined, CallShape
    <3>4. QED
      BY <1>a, <1>5, <3>2, <3>3 DEF StartK3s, CallOK, CallShape, Standing
  <2>2. Filled'
    <3>1. UNCHANGED <<pushed, applied, pending, i>> /\ (~Up("k3s")' => ~Up("k3s"))
      BY <1>a, <1>5 DEF StartK3s, WorldOK, CanStart
    <3>2. pc' = "api" => ~Up("k3s")
      BY <1>a, <1>5 DEF StartK3s, CanStart
    <3>3. QED
      BY <1>a, <1>5, <3>1, <3>2 DEF StartK3s, CallOK, CallShape, Filled
  <2>3. Wired'
    BY <1>a, <1>5
    DEF StartK3s, WorldOK, CallOK, CallShape, Wired, Standing, CanStart, Place,
        Joined
  <2>4. QED
    BY <2>1, <2>2, <2>3
<1>6. CASE AwaitAPI
  <2>1. Standing'
    BY <1>a, <1>6 DEF AwaitAPI, Await, WorldOK, CallOK, CallShape, Standing
  <2>2. Filled'
    BY <1>a, <1>6
    DEF AwaitAPI, Await, WorldOK, CallOK, CallShape, Filled, NumbersOK, Standing
  <2>3. Wired'
    BY <1>a, <1>6 DEF AwaitAPI, Await, WorldOK, CallOK, CallShape, Wired, Standing
  <2>4. QED
    BY <2>1, <2>2, <2>3
<1>7. CASE AwaitNode
  <2>1. Standing'
    BY <1>a, <1>7 DEF AwaitNode, Await, WorldOK, CallOK, CallShape, Standing
  <2>2. Filled'
    BY <1>a, <1>7
    DEF AwaitNode, Await, WorldOK, CallOK, CallShape, Filled, NumbersOK, Standing
  <2>3. Wired'
    BY <1>a, <1>7 DEF AwaitNode, Await, WorldOK, CallOK, CallShape, Wired, Standing
  <2>4. QED
    BY <2>1, <2>2, <2>3
<1>8. CASE PrepareSSH
  <2>1. Standing'
    BY <1>a, <1>8 DEF PrepareSSH, WorldOK, CallOK, CallShape, Standing
  <2>2. Filled'
    BY <1>a, <1>8
    DEF PrepareSSH, WorldOK, CallOK, CallShape, Filled, NumbersOK, Standing
  <2>3. Wired'
    BY <1>a, <1>8 DEF PrepareSSH, WorldOK, CallOK, CallShape, Wired, Standing
  <2>4. QED
    BY <2>1, <2>2, <2>3
<1>9. CASE StartSSH
  <2>1. Standing'
    <3>1. Place(networkName) # "absent"
      BY <1>a DEF Place, HandlesOK, Networks
    <3>2. \A x \in Containers : Up(x) => Up(x)'
      BY <1>a, <1>9, <3>1 DEF StartSSH, WorldOK, CanStart, Joined
    <3>3. pc' # "idle" /\ ~err' => Up("ssh")'
      BY <1>a, <1>9, <3>1 DEF StartSSH, WorldOK, CanStart, Joined, CallShape
    <3>4. QED
      BY <1>a, <1>9, <3>2, <3>3 DEF StartSSH, CallOK, CallShape, Standing
  <2>2. Filled'
    BY <1>a, <1>9 DEF StartSSH, WorldOK, CallOK, CallShape, Filled, NumbersOK, Standing
  <2>3. Wired'
    BY <1>a, <1>9
    DEF StartSSH, WorldOK, CallOK, CallShape, Wired, Standing, CanStart, Place,
        Joined
  <2>4. QED
    BY <2>1, <2>2, <2>3
<1>10. CASE EnsureNamespace
  <2>1. Standing'
    BY <1>a, <1>10 DEF EnsureNamespace, Await, WorldOK, CallOK, CallShape, Standing
  <2>2. Filled'
    BY <1>a, <1>10
    DEF EnsureNamespace, Await, WorldOK, CallOK, CallShape, Filled, NumbersOK,
        Standing
  <2>3. Wired'
    BY <1>a, <1>10
    DEF EnsureNamespace, Await, WorldOK, CallOK, CallShape, Wired, Standing
  <2>4. QED
    BY <2>1, <2>2, <2>3
<1>11. CASE ApplyManifest
  <2>1. Standing'
    BY <1>a, <1>11 DEF ApplyManifest, WorldOK, CallOK, CallShape, Standing
  <2>2. Filled'
    <3>1. /\ pushed' = Images /\ UNCHANGED at /\ Up("k3s")
          /\ pc' \notin WithK3s \ {"manifests", "rollouts"}
      BY <1>11 DEF ApplyManifest, Filled, Standing
    <3>2. i \in Nat /\ i >= 1 /\ i <= Manifests + 1 /\ applied = 1 .. (i - 1)
      BY <1>a, <1>11 DEF ApplyManifest, Filled, NumbersOK, CallShape
    <3>3. CASE i <= Manifests /\ applied' = applied \cup {i} /\ i' = i + 1 /\ pc' = pc
      <4>1. applied' = 1 .. (i' - 1)
        BY <3>2, <3>3
      <4>2. QED
        BY <1>11, <3>1, <3>2, <3>3, <4>1 DEF ApplyManifest, Filled
    <3>4. CASE pc' = "rmSSH"
      BY <3>1, <3>4 DEF Filled
    <3>5. CASE i > Manifests /\ i' = 1 /\ pc' = "rollouts" /\ UNCHANGED applied
      <4>1. applied' = 1 .. Manifests
        BY <3>2, <3>5
      <4>2. QED
        BY <3>1, <3>5, <4>1 DEF Filled
    <3>6. QED
      BY <1>11, <3>3, <3>4, <3>5 DEF ApplyManifest
  <2>3. Wired'
    BY <1>a, <1>11 DEF ApplyManifest, WorldOK, CallOK, CallShape, Wired, Standing
  <2>4. QED
    BY <2>1, <2>2, <2>3
<1>12. CASE WaitForRollouts
  <2>1. Standing'
    BY <1>a, <1>12 DEF WaitForRollouts, WorldOK, CallOK, CallShape, Standing
  <2>2. Filled'
    BY <1>a, <1>12
    DEF WaitForRollouts, WorldOK, CallOK, CallShape, Filled, NumbersOK, KindOrder,
        Kinds, Standing
  <2>3. Wired'
    BY <1>a, <1>12 DEF WaitForRollouts, WorldOK, CallOK, CallShape, Wired, Standing
  <2>4. QED
    BY <2>1, <2>2, <2>3
<1>13. QED
    BY <1>1, <1>2, <1>3, <1>4, <1>5, <1>6, <1>7, <1>8, <1>9, <1>10, <1>11, <1>12
    DEF Create

(* What Create has built is kept, or built further, by a step of Cleanup or  *)
(* of cleanupAfterCreateFailure.                                             *)
LEMMA CleanupBuilds == IInv /\ Built /\ Cleanup => Built'
<1> SUFFICES ASSUME IInv, Built, Cleanup PROVE Built'
    OBVIOUS
<1> USE ConfigAssumption
    DEF Built, Containers, Up, Running, CreatePoints, WithRegistry, WithK3s, WithBridge,
        world, object, call, history, notes,
        Goto, Fail, Abort, ReturnErr, Release, Record, Forget
<1>a. NumbersOK /\ WorldOK /\ HandlesOK /\ CallOK /\ CallShape
    BY DEF IInv, TypeOK, NamesOK, Safe
<1>1. CASE DeleteManifest
  <2>1. Standing'
    BY <1>a, <1>1 DEF DeleteManifest, WorldOK, CallOK, CallShape, Standing
  <2>2. Filled'
    BY <1>a, <1>1
    DEF DeleteManifest, WorldOK, CallOK, CallShape, Filled, NumbersOK, Standing
  <2>3. Wired'
    BY <1>a, <1>1 DEF DeleteManifest, WorldOK, CallOK, CallShape, Wired, Standing
  <2>4. QED
    BY <2>1, <2>2, <2>3
<1>2. CASE CleanupSSHBridge
  <2>1. Standing'
    BY <1>a, <1>2 DEF CleanupSSHBridge, WorldOK, CallOK, CallShape, Standing
  <2>2. Filled'
    BY <1>a, <1>2
    DEF CleanupSSHBridge, WorldOK, CallOK, CallShape, Filled, NumbersOK, Standing
  <2>3. Wired'
    BY <1>a, <1>2 DEF CleanupSSHBridge, WorldOK, CallOK, CallShape, Wired, Standing
  <2>4. QED
    BY <2>1, <2>2, <2>3
<1>3. CASE CleanupK3s
  <2>1. Standing'
    BY <1>a, <1>3 DEF CleanupK3s, WorldOK, CallOK, CallShape, Standing
  <2>2. Filled'
    BY <1>a, <1>3
    DEF CleanupK3s, WorldOK, CallOK, CallShape, Filled, NumbersOK, Standing
  <2>3. Wired'
    BY <1>a, <1>3 DEF CleanupK3s, WorldOK, CallOK, CallShape, Wired, Standing
  <2>4. QED
    BY <2>1, <2>2, <2>3
<1>4. CASE CleanupRegistry
  <2>1. Standing'
    BY <1>a, <1>4 DEF CleanupRegistry, WorldOK, CallOK, CallShape, Standing
  <2>2. Filled'
    BY <1>a, <1>4
    DEF CleanupRegistry, WorldOK, CallOK, CallShape, Filled, NumbersOK, Standing
  <2>3. Wired'
    BY <1>a, <1>4 DEF CleanupRegistry, WorldOK, CallOK, CallShape, Wired, Standing
  <2>4. QED
    BY <2>1, <2>2, <2>3
<1>5. CASE RemoveNetwork
  <2>1. Standing'
    BY <1>a, <1>5 DEF RemoveNetwork, WorldOK, CallOK, CallShape, Standing
  <2>2. Filled'
    BY <1>a, <1>5
    DEF RemoveNetwork, WorldOK, CallOK, CallShape, Filled, NumbersOK, Standing
  <2>3. Wired'
    BY <1>a, <1>5 DEF RemoveNetwork, WorldOK, CallOK, CallShape, Wired, Standing
  <2>4. QED
    BY <2>1, <2>2, <2>3
<1>6. QED
    BY <1>1, <1>2, <1>3, <1>4, <1>5 DEF Cleanup

(* What Create has built is kept, or built further, by a step of the caller. *)
LEMMA CallerBuilds == IInv /\ Built /\ Caller => Built'
<1> SUFFICES ASSUME IInv, Built, Caller PROVE Built'
    OBVIOUS
<1> USE ConfigAssumption
    DEF Built, Containers, Up, Running, CreatePoints, WithRegistry, WithK3s, WithBridge,
        world, object, call, history, notes,
        Goto, Fail, Abort, ReturnErr, Release, Record, Forget
<1>a. NumbersOK /\ WorldOK /\ HandlesOK /\ CallOK /\ CallShape
    BY DEF IInv, TypeOK, NamesOK, Safe
<1>1. CASE SetNetwork
  <2>1. Standing'
    BY <1>a, <1>1 DEF SetNetwork, WorldOK, CallOK, CallShape, Standing
  <2>2. Filled'
    BY <1>a, <1>1
    DEF SetNetwork, WorldOK, CallOK, CallShape, Filled, NumbersOK, Standing
  <2>3. Wired'
    BY <1>a, <1>1 DEF SetNetwork, WorldOK, CallOK, CallShape, Wired, Standing
  <2>4. QED
    BY <2>1, <2>2, <2>3
<1>2. CASE BeginCreate
  <2>1. Standing'
    BY <1>a, <1>2 DEF BeginCreate, WorldOK, CallOK, CallShape, Standing
  <2>2. Filled'
    BY <1>a, <1>2
    DEF BeginCreate, WorldOK, CallOK, CallShape, Filled, NumbersOK, Standing
  <2>3. Wired'
    BY <1>a, <1>2
    DEF BeginCreate, WorldOK, CallOK, CallShape, Wired, Standing, NumbersOK
  <2>4. QED
    BY <2>1, <2>2, <2>3
<1>3. CASE BeginCleanup
  <2>1. Standing'
    BY <1>a, <1>3 DEF BeginCleanup, WorldOK, CallOK, CallShape, Standing
  <2>2. Filled'
    BY <1>a, <1>3
    DEF BeginCleanup, WorldOK, CallOK, CallShape, Filled, NumbersOK, Standing
  <2>3. Wired'
    BY <1>a, <1>3 DEF BeginCleanup, WorldOK, CallOK, CallShape, Wired, Standing
  <2>4. QED
    BY <2>1, <2>2, <2>3
<1>4. CASE Cancel
  <2>1. Standing'
    BY <1>a, <1>4 DEF Cancel, WorldOK, CallOK, CallShape, Standing
  <2>2. Filled'
    BY <1>a, <1>4 DEF Cancel, WorldOK, CallOK, CallShape, Filled, NumbersOK, Standing
  <2>3. Wired'
    BY <1>a, <1>4 DEF Cancel, WorldOK, CallOK, CallShape, Wired, Standing
  <2>4. QED
    BY <2>1, <2>2, <2>3
<1>5. QED
    BY <1>1, <1>2, <1>3, <1>4 DEF Caller

(* What Create has built is kept, or built further, by a step of another     *)
(* process or of the cluster.                                                *)
LEMMA OutsideBuilds == IInv /\ Built /\ Outside => Built'
<1> SUFFICES ASSUME IInv, Built, Outside PROVE Built'
    OBVIOUS
<1> USE ConfigAssumption
    DEF Built, Containers, Up, Running, CreatePoints, WithRegistry, WithK3s, WithBridge,
        world, object, call, history, notes,
        Goto, Fail, Abort, ReturnErr, Release, Record, Forget
<1>a. NumbersOK /\ WorldOK /\ HandlesOK /\ CallOK /\ CallShape
    BY DEF IInv, TypeOK, NamesOK, Safe
<1>1. CASE OtherCreates
  <2>1. Standing'
    BY <1>a, <1>1 DEF OtherCreates, WorldOK, CallOK, CallShape, Standing
  <2>2. Filled'
    BY <1>a, <1>1
    DEF OtherCreates, WorldOK, CallOK, CallShape, Filled, NumbersOK, Standing
  <2>3. Wired'
    BY <1>a, <1>1 DEF OtherCreates, WorldOK, CallOK, CallShape, Wired, Standing
  <2>4. QED
    BY <2>1, <2>2, <2>3
<1>2. CASE OtherJoinsOrLeaves
  <2>1. Standing'
    BY <1>a, <1>2 DEF OtherJoinsOrLeaves, WorldOK, CallOK, CallShape, Standing
  <2>2. Filled'
    BY <1>a, <1>2
    DEF OtherJoinsOrLeaves, WorldOK, CallOK, CallShape, Filled, NumbersOK, Standing
  <2>3. Wired'
    BY <1>a, <1>2 DEF OtherJoinsOrLeaves, WorldOK, CallOK, CallShape, Wired, Standing
  <2>4. QED
    BY <2>1, <2>2, <2>3
<1>3. CASE OtherRemoves
  <2>1. Standing'
    BY <1>a, <1>3 DEF OtherRemoves, WorldOK, CallOK, CallShape, Standing
  <2>2. Filled'
    BY <1>a, <1>3
    DEF OtherRemoves, WorldOK, CallOK, CallShape, Filled, NumbersOK, Standing
  <2>3. Wired'
    BY <1>a, <1>3 DEF OtherRemoves, WorldOK, CallOK, CallShape, Wired, Standing
  <2>4. QED
    BY <2>1, <2>2, <2>3
<1>4. CASE RolloutFinishes
  <2>1. Standing'
    BY <1>a, <1>4 DEF RolloutFinishes, WorldOK, CallOK, CallShape, Standing
  <2>2. Filled'
    BY <1>a, <1>4
    DEF RolloutFinishes, WorldOK, CallOK, CallShape, Filled, NumbersOK, Standing
  <2>3. Wired'
    BY <1>a, <1>4 DEF RolloutFinishes, WorldOK, CallOK, CallShape, Wired, Standing
  <2>4. QED
    BY <2>1, <2>2, <2>3
<1>5. QED
    BY <1>1, <1>2, <1>3, <1>4 DEF Outside

(* Built is an invariant of the specification. *)
THEOREM BuiltKept == Spec => []Built
<1>1. Built /\ UNCHANGED vars => Built'
    BY DEF Built, Standing, Filled, Wired, Running, Up, vars, world, object, call,
           history, notes
<1>2. IInv /\ Built /\ [Next]_vars => Built'
    BY <1>1, CreateBuilds, CleanupBuilds, CallerBuilds, OutsideBuilds DEF Next
<1>3. QED
    BY Inductive, InitBuilt, <1>2, PTL DEF Spec

(* A nil Create means the whole cluster is there: containers, addresses,     *)
(* images, manifests, and the rollouts of every kind it could list.          *)
THEOREM ReadyIsComplete == Spec => []ReadyMeansComplete
<1>1. IInv /\ Built => ReadyMeansComplete
  <2> SUFFICES ASSUME IInv, Built, Running PROVE ReadyMeansComplete
      BY DEF ReadyMeansComplete
  <2>1. ports \subseteq Containers /\ "k3s" \in ports
      BY DEF IInv, TypeOK, NamesOK, HandlesOK, Safe, AddressesLive, Built, Standing
  <2>2. ports = {"k3s"} \cup (IF SSH THEN {"ssh"} ELSE {})
                        \cup (IF Registry THEN {"registry"} ELSE {})
      BY <2>1 DEF Built, Standing, Containers
  <2>3. QED
      BY <2>2 DEF ReadyMeansComplete, Built, Standing, Filled
<1>2. QED
    BY Inductive, BuiltKept, <1>1, PTL

(* No manifest is applied before every image is in a registry that is up.    *)
THEOREM ImagesFirst == Spec => ImagesBeforeManifests
<1> DEFINE First == applied' \subseteq applied
                      \/ (pushed = Images /\ (Registry => Up("registry")))
<1>1. Built /\ [Next]_vars => [First]_vars
  <2> SUFFICES ASSUME Built, Next PROVE First
      OBVIOUS
  <2>1. CASE ApplyManifest
      BY <2>1
      DEF ApplyManifest, Built, Standing, Filled, WithRegistry, WithK3s, WithBridge
  <2>2. CASE Create \/ Caller \/ Outside
    <3>1. ApplyManifest \/ UNCHANGED applied
        BY <2>2 DEF Create, CreateNetwork, StartRegistry, AwaitRegistry, PreloadImage,
             StartK3s, AwaitAPI, AwaitNode, PrepareSSH, StartSSH, EnsureNamespace,
             WaitForRollouts, Await, Caller, SetNetwork, BeginCreate, BeginCleanup, Cancel,
             Outside, OtherCreates, OtherJoinsOrLeaves, OtherRemoves, RolloutFinishes, world
    <3>2. QED
        BY <3>1, <2>1
  <2>3. CASE Cleanup
      BY <2>3 DEF Cleanup, DeleteManifest, CleanupSSHBridge, CleanupK3s,
                  CleanupRegistry, RemoveNetwork
  <2>4. QED
      BY <2>2, <2>3 DEF Next
<1>2. QED
    BY BuiltKept, <1>1, PTL DEF Spec, ImagesBeforeManifests

-----------------------------------------------------------------------------
(* Every step of the cluster is a step of the contract or a stutter: what a  *)
(* call returns is allowed by ReadyMeansComplete, CleanupNilMeansClean or    *)
(* FailedCreateReleases in the state it returns in.                          *)
LEMMA ContractStep ==
    /\ IInv /\ Built /\ (IInv /\ Built /\ CleanupNilMeansClean /\ FailedCreateReleases)'
    /\ [Next]_vars
    => [Contract!Next]_(Contract!vars)
<1> SUFFICES ASSUME IInv, Built, IInv', Built', CleanupNilMeansClean',
                    FailedCreateReleases', [Next]_vars
             PROVE  [Contract!Next]_(Contract!vars)
    OBVIOUS
<1>a. op \in {"new", "create", "cleanup"} /\ op' \in {"new", "create", "cleanup"}
      /\ err \in BOOLEAN /\ err' \in BOOLEAN
    BY DEF IInv, TypeOK, NamesOK, CallOK, FlagsOK
<1>b. Holds' \in BOOLEAN /\ (missed # {} \/ failedAt \in {"network", "k3s"})' \in BOOLEAN
    BY DEF Holds
<1>1. CASE UNCHANGED vars
    BY <1>1
    DEF vars, call, world, history, notes, Contract!vars, Phase, Holds, Remaining,
        Up
<1>2. CASE pc # "idle" /\ op' = op /\ op # "new"
  <2>1. CASE pc' # "idle"
    <3>1. Phase' = Phase /\ Phase \in {"creating", "cleaning"}
      BY <1>2, <1>a, <2>1 DEF Phase
    <3>2. QED
      BY <1>b, <3>1 DEF Contract!Next, Contract!Work
  <2>2. CASE pc' = "idle"
    <3>1. Phase = IF op = "create" THEN "creating" ELSE "cleaning"
      BY <1>2, <1>a DEF Phase
    <3>2. CASE op = "create" /\ err'
      <4>1. Phase' = "failed"
        BY <1>2, <2>2, <3>2 DEF Phase
      <4>2. Holds' => (missed # {} \/ failedAt \in {"network", "k3s"})'
        BY <1>2, <2>2, <3>2 DEF Holds, FailedCreateReleases
      <4>3. QED
        BY <1>b, <3>1, <3>2, <4>1, <4>2
        DEF Contract!Next, Contract!ReturnError, Contract!Released
    <3>3. CASE op = "create" /\ ~err'
      <4>1. Phase' = "ready"
        BY <1>2, <2>2, <3>3 DEF Phase
      <4>2. Up("k3s")'
        BY <1>2, <2>2, <3>3 DEF Built, Standing, Running
      <4>3. Holds'
        BY <4>2 DEF Holds, Remaining, Containers, Dirs
      <4>4. QED
        BY <1>b, <3>1, <3>3, <4>1, <4>3 DEF Contract!Next, Contract!ReturnReady
    <3>4. CASE op = "cleanup" /\ ~err'
      <4>1. Phase' = "clean"
        BY <1>2, <2>2, <3>4 DEF Phase
      <4>2. Holds' => (missed # {})'
        BY <1>2, <2>2, <3>4 DEF Holds, CleanupNilMeansClean
      <4>3. QED
        BY <1>b, <3>1, <3>4, <4>1, <4>2
        DEF Contract!Next, Contract!ReturnClean, Contract!Released
    <3>5. CASE op = "cleanup" /\ err'
      <4>1. Phase' = "dirty"
        BY <1>2, <2>2, <3>5 DEF Phase
      <4>2. QED
        BY <1>b, <3>1, <3>5, <4>1 DEF Contract!Next, Contract!ReturnDirty
    <3>6. QED
      BY <1>a, <1>2, <3>2, <3>3, <3>4, <3>5
  <2>3. QED
    BY <2>1, <2>2
<1>3. CASE BeginCreate
  <2>1. Phase \in {"new", "failed", "clean", "dirty"} /\ Phase' = "creating"
    BY <1>3, <1>a DEF BeginCreate, Running, Phase
  <2>2. UNCHANGED Holds
    BY <1>3 DEF BeginCreate, Holds, Remaining, Up, world
  <2>3. QED
    BY <1>b, <2>1, <2>2 DEF Contract!Next, Contract!StartCreate, Contract!Call
<1>4. CASE BeginCleanup
  <2>1. Phase \in {"ready", "failed", "clean", "dirty"} /\ Phase' = "cleaning"
    BY <1>4, <1>a DEF BeginCleanup, Phase
  <2>2. UNCHANGED Holds
    BY <1>4 DEF BeginCleanup, Holds, Remaining, Up, world
  <2>3. QED
    BY <1>b, <2>1, <2>2 DEF Contract!Next, Contract!StartCleanup, Contract!Call
<1>5. CASE UNCHANGED <<op, pc, err, Holds>>
  <2>1. Phase' = Phase
    BY <1>5 DEF Phase
  <2>2. CASE Phase \in {"creating", "cleaning"}
    BY <1>b, <2>1, <2>2 DEF Contract!Next, Contract!Work
  <2>3. CASE Phase \notin {"creating", "cleaning"}
    BY <1>b, <1>5, <2>1, <2>3 DEF Contract!Next, Contract!Rest
  <2>4. QED
    BY <2>2, <2>3
<1>6. CASE Outside \/ SetNetwork
  <2>1. UNCHANGED <<op, pc, err>>
    BY <1>6 DEF Outside, SetNetwork, OtherCreates, OtherJoinsOrLeaves, OtherRemoves,
                RolloutFinishes, call
  <2>2. CASE UNCHANGED Holds
    BY <1>5, <2>1, <2>2
  <2>3. CASE OtherRemoves
    <3>1. Phase' = Phase
      BY <2>1 DEF Phase
    <3>2. UNCHANGED at
      BY <2>3 DEF OtherRemoves
    <3>3. Remaining' \subseteq Remaining
      BY <2>3, <3>2 DEF OtherRemoves, Remaining, Up, IInv, TypeOK, NamesOK, WorldOK, Networks
    <3>4. Holds' => Holds
      BY <3>3 DEF Holds
    <3>5. Phase = "ready" => UNCHANGED Holds
      <4>1. Phase = "ready" => Up("k3s")
        BY <1>a DEF Phase, Built, Standing, Running
      <4>2. Up("k3s") => Holds /\ Holds'
        BY <3>2 DEF Holds, Remaining, Up, Containers, Dirs
      <4>3. QED
        BY <4>1, <4>2
    <3>6. Holds' \in {Holds, FALSE}
      BY <1>b, <3>4 DEF Holds
    <3>7. QED
      BY <1>b, <3>1, <3>5, <3>6 DEF Contract!Next, Contract!Work, Contract!Rest
  <2>4. QED
    <3>1. OtherRemoves \/ UNCHANGED Holds
      BY <1>6 DEF Outside, SetNetwork, OtherCreates, OtherJoinsOrLeaves, RolloutFinishes,
                  Holds, Remaining, Up, world, IInv, TypeOK, NamesOK, WorldOK, Networks
    <3>2. QED
      BY <2>2, <2>3, <3>1
<1>7. CASE Create \/ Cleanup \/ Cancel
  <2>1. pc # "idle" /\ op' = op
    BY <1>7
    DEF Create, CreateNetwork, StartRegistry, AwaitRegistry, PreloadImage, StartK3s,
         AwaitAPI, AwaitNode, PrepareSSH, StartSSH, EnsureNamespace, ApplyManifest,
         WaitForRollouts, Await, Goto, Fail, Abort, ReturnErr, Cleanup, DeleteManifest,
         CleanupSSHBridge, CleanupK3s, CleanupRegistry, RemoveNetwork, Release, Cancel
  <2>2. op = "new" => pc = "idle"
    BY DEF Built, Wired
  <2>3. QED
    BY <1>2, <2>1, <2>2
<1>8. QED
    BY <1>1, <1>3, <1>4, <1>6, <1>7 DEF Next, Caller

(* kubernetes.Cluster implements the service contract, for every choice of   *)
(* options and every number of images, manifests and calls, with the two     *)
(* excuses ClusterContract gives it.                                         *)
THEOREM ImplementsContract == Spec => KeepsContract
<1>1. Init => Contract!Init
    BY DEF Init, Contract!Init, Phase, Holds, Remaining, Up, Containers, Dirs
<1>2. QED
    BY Inductive, BuiltKept, CleanupIsClean, FailedCreateIsClean, <1>1, ContractStep, PTL
    DEF Spec, KeepsContract, Contract!Spec
-----------------------------------------------------------------------------
(* The extent of the two flaws of Create that ClusterRetryNetwork and        *)
(* ClusterStartFails show once, and what becomes of the mirror.              *)

(* Where the containers run that this Create started: k3s on the network it  *)
(* was told to join, the others on the one of the object's name.             *)
Told ==
    /\ pc \in WithK3s \/ Running => at["k3s"] = Place(k3sNetwork)
    /\ Registry /\ (pc \in WithRegistry \/ Running)
         => at["registry"] = Place(networkName)
    /\ SSH /\ (pc \in WithBridge \/ Running) => at["ssh"] = Place(networkName)
    /\ Up("registry") => Registry
    /\ Up("ssh") => SSH

(* The two networks differ in one way only. *)
Split == networkName = "own" /\ k3sNetwork = "none"
Apart == networkName # k3sNetwork => Split

(* What a failed Start of k3s leaves. *)
Left ==
    /\ pc \in CreatePoints => failedAt # "k3s"
    /\ pc = "idle" /\ op = "create" /\ failedAt = "k3s" /\ Registry
         => Up("registry") /\ at["registry"] = Place(networkName)

(* k3s was started with the mirror configuration that was then on disk.      *)
Files == "registryDir" \in disk
Mirrored == pc \in WithK3s \/ Running => (mirror <=> Files)

Traced == Told /\ Apart /\ Left /\ Mirrored

(* They come to differ in a CreateNetwork that fails and in nothing else, and*)
(* no later Create or Cleanup brings them together again: only SetNetwork.   *)
SplitStays ==
    [][ /\ ~Split /\ Split' => CreateNetwork /\ err'
        /\ Split /\ ~Split' => SetNetwork ]_vars

(* The registry is still there when Create returns after a failed Start of   *)
(* k3s (lifecycle.go:39), on the network it was told to join, which nobody   *)
(* can remove while it is attached.                                          *)
StartFailureLeaves ==
    Phase = "failed" /\ failedAt = "k3s" /\ Registry
        => Up("registry") /\ at["registry"] = Place(networkName)

(* The files never come back, since only NewCluster writes them: k3s created *)
(* after a Cleanup that removed them pulls nothing from the registry that is *)
(* started beside it, however often Create and Cleanup are called.           *)
RecreatedUnmirrored ==
    [](pc = "idle" /\ op = "cleanup" /\ ~err /\ "registryDir" \notin missed
         => [](Running => ~mirror))

LEMMA InitTraced == Init => Traced
BY DEF Init, Traced, Mirrored, Told, Apart, Left, Running, Up, Containers, CreatePoints,
   WithRegistry, WithK3s, WithBridge

LEMMA TracedStep == IInv /\ Built /\ Traced /\ [Next]_vars => Traced'
<1> SUFFICES ASSUME IInv, Built, Traced, [Next]_vars PROVE Traced'
    OBVIOUS
<1> USE DEF Containers, Up, Running, CreatePoints, WithRegistry, WithK3s, WithBridge,
            Goto, Fail, Abort, ReturnErr, Mirrored, Files
<1>a. /\ at \in [Containers -> {"absent", "bridge"} \cup Networks]
      /\ CallShape /\ Standing
      /\ networkName # "absent" /\ k3sNetwork # "absent"
    BY DEF IInv, Safe, Built, TypeOK, NamesOK, WorldOK, HandlesOK, Networks
<1>b. Place(networkName) # "absent" /\ Place(k3sNetwork) # "absent"
    BY <1>a DEF Place
<1>1. CASE CreateNetwork
    BY <1>1, <1>a DEF CreateNetwork, Traced, Told, Apart, Split, Left
<1>2. CASE StartRegistry
  <2>1. /\ UNCHANGED <<networkName, k3sNetwork, mirror, disk>> /\ pc = "registry"
        /\ \A x \in {"k3s", "ssh"} : at'[x] = at[x]
        /\ pc' = "registryUp" => Registry /\ at'["registry"] = Place(networkName)
        /\ Up("registry")' => Registry
      BY <1>2, <1>a DEF StartRegistry, Traced, Told, Joined
  <2>2. \/ pc' \in {"images", "registryUp"} /\ failedAt' = failedAt
        \/ pc' = "rmSSH"
      BY <1>2 DEF StartRegistry
  <2>3. pc' = "images" => ~Registry
      BY <1>2 DEF StartRegistry
  <2>4. QED
      BY <2>1, <2>2, <2>3 DEF Traced, Told, Apart, Split, Left
<1>3. CASE StartK3s
  <2>1. /\ UNCHANGED <<networkName, k3sNetwork>> /\ pc = "k3s" /\ op' = op
        /\ \A x \in {"registry", "ssh"} : at'[x] = at[x]
        /\ pc' = "api" => /\ at'["k3s"] = Place(k3sNetwork) /\ failedAt' = failedAt
                          /\ (mirror' <=> Files')
        /\ pc' \in {"api", "idle"} /\ (pc' = "idle" => err')
      BY <1>3, <1>a DEF StartK3s
  <2>2. Registry => Up("registry")
      BY <2>1, <1>a DEF Standing
  <2>3. QED
      BY <2>1, <2>2 DEF Traced, Told, Apart, Split, Left, Place
<1>4. CASE StartSSH
  <2>1. /\ UNCHANGED <<networkName, k3sNetwork, mirror, disk>>
        /\ pc = "sshStart" /\ SSH
        /\ \A x \in {"k3s", "registry"} : at'[x] = at[x]
        /\ pc' = "namespace" => at'["ssh"] = Place(networkName) /\ failedAt' = failedAt
        /\ pc' \in {"namespace", "rmSSH"}
      BY <1>4, <1>a DEF StartSSH, Joined, Standing
  <2>2. QED
      BY <2>1 DEF Traced, Told, Apart, Split, Left, Place
<1>5. CASE UNCHANGED <<at, networkName, k3sNetwork, mirror, disk, pc, op, err, failedAt>>
    BY <1>5 DEF Traced, Told, Apart, Split, Left, Place
<1>6. CASE UNCHANGED vars \/ Cancel \/ Outside
    BY <1>5, <1>6 DEF vars, world, object, call, history, Cancel, Outside, OtherCreates,
       OtherJoinsOrLeaves, OtherRemoves, RolloutFinishes
<1>7. CASE AwaitRegistry \/ PreloadImage
  <2>1. /\ UNCHANGED <<at, networkName, k3sNetwork, mirror, disk>>
        /\ pc \in {"registryUp", "images"}
        /\ \/ pc' \in {"images", "k3s"} /\ failedAt' = failedAt
           \/ pc' = "rmSSH"
      BY <1>7 DEF AwaitRegistry, Await, PreloadImage, world, object
  <2>2. QED
      BY <2>1 DEF Traced, Told, Apart, Split, Left, Place
<1>8. CASE AwaitAPI \/ AwaitNode \/ PrepareSSH
  <2>1. /\ UNCHANGED <<at, networkName, k3sNetwork, mirror>> /\ Files' = Files
        /\ pc \in {"api", "node", "ssh"}
        /\ \/ pc' \in {"node", "ssh", "sshStart"} /\ failedAt' = failedAt
           \/ pc' = "namespace" /\ ~SSH /\ failedAt' = failedAt
           \/ pc' = "rmSSH"
      BY <1>8 DEF AwaitAPI, AwaitNode, Await, PrepareSSH, world, object
  <2>2. QED
      BY <2>1 DEF Traced, Told, Apart, Split, Left, Place
<1>9. CASE EnsureNamespace \/ ApplyManifest \/ WaitForRollouts
  <2>1. /\ UNCHANGED <<at, networkName, k3sNetwork, mirror, disk>>
        /\ pc \in WithBridge
        /\ \/ pc' \in WithBridge \cup {"idle"} /\ failedAt' = failedAt
           \/ pc' = "rmSSH"
      BY <1>9 DEF EnsureNamespace, Await, ApplyManifest, WaitForRollouts, world, object
  <2>2. QED
      BY <2>1, <1>a DEF Traced, Told, Apart, Split, Left, Place
<1>10. CASE Cleanup
  <2>1. /\ UNCHANGED <<networkName, k3sNetwork, op, failedAt>>
        /\ \A x \in Containers : at'[x] \in {at[x], "absent"}
        /\ pc' \in {"delete", "idle"} \cup ReleasePoints
        /\ pc \in {"delete"} \cup ReleasePoints
      BY <1>10, <1>a
      DEF Cleanup, DeleteManifest, CleanupSSHBridge, CleanupK3s, CleanupRegistry,
          RemoveNetwork, Release, Record, Forget, object, ReleasePoints
  <2>2. ~Running'
      BY <1>10, <2>1, <1>a
      DEF CallShape, Cleanup, DeleteManifest, CleanupSSHBridge, CleanupK3s,
          CleanupRegistry, RemoveNetwork, Release, ReleasePoints
  <2>3. op = "create" => failedAt # "k3s"
      BY <2>1, <1>a DEF CallShape, ReleasePoints
  <2>4. pc' \notin CreatePoints
      BY <2>1 DEF ReleasePoints
  <2>5. QED
      BY <2>1, <2>2, <2>3, <2>4 DEF Traced, Told, Apart, Split, Left
<1>11. CASE SetNetwork
    BY <1>11, <1>a DEF SetNetwork, Traced, Told, Apart, Left, Standing, call, history, world
<1>12. CASE BeginCreate \/ BeginCleanup
    BY <1>12 DEF BeginCreate, BeginCleanup, Traced, Told, Apart, Split, Left, world, object
<1>13. QED
    BY <1>1, <1>2, <1>3, <1>4, <1>6, <1>7, <1>8, <1>9, <1>10, <1>11, <1>12
    DEF Next, Create, Caller

THEOREM Traces == Spec => []Traced
BY Inductive, BuiltKept, InitTraced, TracedStep, PTL DEF Spec

(* A nil Create has its containers on one network exactly when the two names *)
(* of the network agree, and the mirror exactly when its files are there; the*)
(* first has both.                                                           *)
THEOREM CreateIsWired == Spec => []WiredExactly
<1>1. IInv /\ Built /\ Traced => WiredExactly
  <2> SUFFICES ASSUME IInv, Built, Traced, Running PROVE WiredExactly
      BY DEF WiredExactly
  <2>1. /\ at["k3s"] = Place(k3sNetwork)
        /\ Registry => at["registry"] = Place(networkName)
        /\ SSH => at["ssh"] = Place(networkName)
        /\ ~Registry => ~Up("registry")
        /\ ~SSH => ~Up("ssh")
      BY DEF Traced, Told
  <2>2. networkName = k3sNetwork => Together
      BY <2>1 DEF Together, Containers
  <2>3. (SSH \/ Registry) /\ networkName # k3sNetwork => ~Together
    <3> SUFFICES ASSUME SSH \/ Registry, networkName # k3sNetwork PROVE ~Together
        OBVIOUS
    <3>1. Place(networkName) = "own" /\ Place(k3sNetwork) = "bridge"
        BY DEF Traced, Apart, Split, Place
    <3>2. \E x \in {"registry", "ssh"} : at[x] = "own"
        BY <2>1, <3>1
    <3>3. QED
        BY <2>1, <3>1, <3>2 DEF Together, Containers, Up
  <2>4. mirror <=> "registryDir" \in disk
      BY DEF Traced, Mirrored, Files
  <2>5. creates = 1 => networkName = k3sNetwork /\ (Registry => mirror)
      BY DEF Built, Wired, Running
  <2>6. QED
      BY <2>2, <2>3, <2>4, <2>5 DEF WiredExactly
<1>2. QED
    BY Inductive, BuiltKept, Traces, <1>1, PTL

(* Only a failed CreateNetwork parts them, and only SetNetwork mends it.     *)
THEOREM SplitIsKept == Spec => SplitStays
<1> DEFINE Stays == /\ ~Split /\ Split' => CreateNetwork /\ err'
                    /\ Split /\ ~Split' => SetNetwork
<1>1. Traced /\ [Next]_vars => [Stays]_vars
  <2> SUFFICES ASSUME Traced, Next PROVE Stays
      OBVIOUS
  <2>1. CASE CreateNetwork
      BY <2>1 DEF CreateNetwork, ReturnErr, Fail, Goto, Split, Traced, Apart
  <2>2. CASE SetNetwork
      BY <2>2 DEF SetNetwork, Split
  <2>3. CASE UNCHANGED <<networkName, k3sNetwork>>
      BY <2>3 DEF Split
  <2>4. \/ CreateNetwork \/ SetNetwork \/ UNCHANGED <<networkName, k3sNetwork>>
      BY DEF Next, Create, Cleanup, Caller, Outside, StartRegistry, AwaitRegistry,
         PreloadImage, StartK3s, AwaitAPI, AwaitNode, PrepareSSH, StartSSH,
         EnsureNamespace, ApplyManifest, WaitForRollouts, Await, DeleteManifest,
         CleanupSSHBridge, CleanupK3s, CleanupRegistry, RemoveNetwork, BeginCreate,
         BeginCleanup, Cancel, OtherCreates, OtherJoinsOrLeaves, OtherRemoves,
         RolloutFinishes, object
  <2>5. QED
      BY <2>1, <2>2, <2>3, <2>4
<1>2. QED
    BY Traces, <1>1, PTL DEF Spec, SplitStays

(* No step writes the files again, and a nil Cleanup has removed them.       *)
THEOREM MirrorIsLost == Spec => RecreatedUnmirrored
<1> DEFINE Cleaned == pc = "idle" /\ op = "cleanup" /\ ~err /\ "registryDir" \notin missed
<1>1. CleanupNilMeansClean /\ Cleaned => ~Files
    BY DEF CleanupNilMeansClean, Files, Remaining
<1>2. ~Files /\ [Next]_vars => ~Files'
    BY DEF Next, Create, Cleanup, Caller, Outside, CreateNetwork, StartRegistry,
       AwaitRegistry, PreloadImage, StartK3s, AwaitAPI, AwaitNode, PrepareSSH, StartSSH,
       EnsureNamespace, ApplyManifest, WaitForRollouts, Await, DeleteManifest,
       CleanupSSHBridge, CleanupK3s, CleanupRegistry, RemoveNetwork, SetNetwork,
       BeginCreate, BeginCleanup, Cancel, OtherCreates, OtherJoinsOrLeaves,
       OtherRemoves, RolloutFinishes, world, vars, Files
<1>3. WiredExactly /\ ~Files => (Running => ~mirror)
    BY DEF WiredExactly, Files
<1>4. QED
    BY CleanupIsClean, CreateIsWired, <1>1, <1>2, <1>3, PTL DEF Spec, RecreatedUnmirrored

(* A failed Start of k3s leaves the registry that was started before it.     *)
THEOREM StartFailureIsLeft == Spec => []StartFailureLeaves
<1>1. IInv /\ Traced => StartFailureLeaves
  <2> SUFFICES ASSUME IInv, Traced, Phase = "failed", failedAt = "k3s", Registry
               PROVE  Up("registry") /\ at["registry"] = Place(networkName)
      BY DEF StartFailureLeaves
  <2>1. pc = "idle" /\ op = "create"
      BY DEF Phase, IInv, TypeOK, NamesOK, CallOK
  <2>2. QED
      BY <2>1 DEF Traced, Left
<1>2. QED
    BY Inductive, Traces, <1>1, PTL

-----------------------------------------------------------------------------
(* A call ends.  PointsLeft ranks the points of a call by how many of them   *)
(* are still to come; a loop adds the turns it has left, and a point before  *)
(* a loop all of them.                                                       *)
PointsLeft ==
    [network |-> 19, registry |-> 18, registryUp |-> 17, images |-> 16, k3s |-> 15,
     api |-> 14, node |-> 13, ssh |-> 12, sshStart |-> 11, namespace |-> 10,
     manifests |-> 10, rollouts |-> 9, delete |-> 5, rmSSH |-> 4, rmK3s |-> 3,
     rmRegistry |-> 2, rmNet |-> 1, idle |-> 0]

TurnsLeft ==
    CASE pc \in {"network", "registry", "registryUp"} -> Images + Manifests
      [] pc = "images"    -> Images - pushed + Manifests
      [] pc \in {"k3s", "api", "node", "ssh", "sshStart", "namespace"} -> Manifests
      [] pc = "manifests" -> Manifests - i
      [] pc = "rollouts"  -> -i
      [] pc = "delete"    -> i
      [] OTHER            -> 0

StepsLeft == PointsLeft[pc] + TurnsLeft

(* Nothing in a call goes round in circles: each step of it leaves fewer to  *)
(* be taken, and nobody else's step adds any.  A Create takes at most        *)
(* 19 + Images + Manifests steps with the releases that follow a failure, a  *)
(* Cleanup at most 5 + Manifests.                                            *)
CallsAdvance ==
    [][ /\ BeginCreate => StepsLeft' = 19 + Images + Manifests
        /\ BeginCleanup => StepsLeft' = 5 + Manifests
        /\ Create \/ Cleanup => StepsLeft' < StepsLeft
        /\ SetNetwork \/ Cancel \/ Outside => StepsLeft' = StepsLeft ]_vars

(* The number of steps left is a natural number, and none are left only      *)
(* between calls.                                                            *)
StepsCounted == StepsLeft \in Nat /\ (StepsLeft = 0 <=> pc = "idle")

(* StepsLeft, point by point, and what is known of the counters there. *)
StepsByPoint ==
    /\ pc = "network"    => StepsLeft = 19 + Images + Manifests
    /\ pc = "registry"   => StepsLeft = 18 + Images + Manifests
    /\ pc = "registryUp" => StepsLeft = 17 + Images + Manifests
    /\ pc = "images"     => StepsLeft = 16 + (Images - pushed + Manifests)
    /\ pc = "k3s"        => StepsLeft = 15 + Manifests
    /\ pc = "api"        => StepsLeft = 14 + Manifests
    /\ pc = "node"       => StepsLeft = 13 + Manifests
    /\ pc = "ssh"        => StepsLeft = 12 + Manifests
    /\ pc = "sshStart"   => StepsLeft = 11 + Manifests
    /\ pc = "namespace"  => StepsLeft = 10 + Manifests
    /\ pc = "manifests"  => StepsLeft = 10 + (Manifests - i)
    /\ pc = "rollouts"   => StepsLeft = 9 + (-i)
    /\ pc = "delete"     => StepsLeft = 5 + i
    /\ pc = "rmSSH"      => StepsLeft = 4
    /\ pc = "rmK3s"      => StepsLeft = 3
    /\ pc = "rmRegistry" => StepsLeft = 2
    /\ pc = "rmNet"      => StepsLeft = 1
    /\ pc = "idle"       => StepsLeft = 0

Counters ==
    /\ Images \in Nat /\ Manifests \in Nat /\ pushed \in 0 .. Images /\ i \in Nat
    /\ pc = "manifests" => i \in 1 .. Manifests + 1
    /\ pc = "rollouts" => i \in 1 .. 4
    /\ pc \in CreatePoints \ {"manifests", "rollouts"} => i = 1
    /\ pc \in {"idle", "delete"} \cup CreatePoints \cup ReleasePoints

LEMMA PointFacts == StepsByPoint
BY ConfigAssumption DEF StepsByPoint, StepsLeft, PointsLeft, TurnsLeft

LEMMA CounterFacts == IInv /\ Built => Counters
BY ConfigAssumption
DEF IInv, TypeOK, NumbersOK, NamesOK, CallOK, Safe, CallShape, Built, Filled, CreatePoints,
    Counters

(* The number is a natural one, and 0 only between calls. *)
LEMMA InvCounted == IInv /\ Built => StepsCounted
BY PointFacts, CounterFacts
DEF StepsByPoint, Counters, StepsCounted, CreatePoints, ReleasePoints

(* Each step of a call lowers it. *)
LEMMA StepLowers ==
    IInv /\ Built /\ (IInv /\ Built)' /\ (Create \/ Cleanup) => StepsLeft' < StepsLeft
<1> SUFFICES ASSUME IInv, Built, IInv', Built', Create \/ Cleanup
             PROVE  StepsLeft' < StepsLeft
    OBVIOUS
<1>a. StepsByPoint /\ StepsByPoint'
  BY PointFacts, PTL
<1>b. Counters /\ Counters'
  BY CounterFacts, PTL
<1> USE <1>a, <1>b
    DEF StepsByPoint, Counters, CreatePoints, ReleasePoints,
        world, object, call, history, notes,
        Goto, Fail, Abort, ReturnErr, Await, Release, Record, Forget
<1>1. CASE CreateNetwork
  BY <1>1 DEF CreateNetwork
<1>2. CASE StartRegistry
  BY <1>2 DEF StartRegistry
<1>3. CASE AwaitRegistry
  BY <1>3 DEF AwaitRegistry
<1>4. CASE PreloadImage
  BY <1>4 DEF PreloadImage
<1>5. CASE StartK3s
  BY <1>5 DEF StartK3s
<1>6. CASE AwaitAPI
  BY <1>6 DEF AwaitAPI
<1>7. CASE AwaitNode
  BY <1>7 DEF AwaitNode
<1>8. CASE PrepareSSH
  BY <1>8 DEF PrepareSSH
<1>9. CASE StartSSH
  BY <1>9 DEF StartSSH
<1>10. CASE EnsureNamespace
  BY <1>10 DEF EnsureNamespace
<1>11. CASE ApplyManifest
  BY <1>11 DEF ApplyManifest
<1>12. CASE WaitForRollouts
  BY <1>12 DEF WaitForRollouts
<1>13. CASE DeleteManifest
  BY <1>13 DEF DeleteManifest
<1>14. CASE CleanupSSHBridge
  BY <1>14 DEF CleanupSSHBridge
<1>15. CASE CleanupK3s
  BY <1>15 DEF CleanupK3s
<1>16. CASE CleanupRegistry
  BY <1>16 DEF CleanupRegistry
<1>17. CASE RemoveNetwork
  BY <1>17 DEF RemoveNetwork
<1>18. QED
  BY <1>1, <1>2, <1>3, <1>4, <1>5, <1>6, <1>7, <1>8, <1>9, <1>10, <1>11, <1>12,
     <1>13, <1>14, <1>15, <1>16, <1>17 DEF Create, Cleanup

(* Every call ends, as far as steps can say: what is left is that a call     *)
(* that can take a step takes one.                                           *)
THEOREM CallsEnd == Spec => []StepsCounted /\ CallsAdvance
<1> DEFINE Advance ==
      /\ BeginCreate => StepsLeft' = 19 + Images + Manifests
      /\ BeginCleanup => StepsLeft' = 5 + Manifests
      /\ Create \/ Cleanup => StepsLeft' < StepsLeft
      /\ SetNetwork \/ Cancel \/ Outside => StepsLeft' = StepsLeft
<1>1. IInv /\ Built /\ (IInv /\ Built)' /\ [Next]_vars => [Advance]_vars
  <2> SUFFICES ASSUME IInv, Built, IInv', Built', Next PROVE Advance
      OBVIOUS
  <2>a. StepsByPoint'
      BY PointFacts, PTL
  <2>1. BeginCreate => StepsLeft' = 19 + Images + Manifests
      BY <2>a DEF BeginCreate, StepsByPoint
  <2>2. BeginCleanup => StepsLeft' = 5 + Manifests
      BY <2>a DEF BeginCleanup, StepsByPoint
  <2>3. Create \/ Cleanup => StepsLeft' < StepsLeft
      BY StepLowers
  <2>4. SetNetwork \/ Cancel \/ Outside => StepsLeft' = StepsLeft
      BY DEF SetNetwork, Cancel, Outside, OtherCreates, OtherJoinsOrLeaves, OtherRemoves,
             RolloutFinishes, world, call, StepsLeft, PointsLeft, TurnsLeft
  <2>5. QED
      BY <2>1, <2>2, <2>3, <2>4
<1>2. QED
    BY Inductive, BuiltKept, InvCounted, <1>1, PTL DEF Spec, CallsAdvance
=============================================================================
