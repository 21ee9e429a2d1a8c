--------------------------- MODULE ClusterProofs ---------------------------
(***************************************************************************)
(* What TLAPS proves of Cluster, for every value of its constants.         *)
(*                                                                         *)
(* None of the properties is inductive: whether a release leaves anything  *)
(* depends on how far it has come and on what the object still remembers.  *)
(* IInv says so point by point; the properties follow from it.             *)
(***************************************************************************)
EXTENDS ClusterContract, TLAPS

(* What the program counter says of the call. *)
CallShape ==
    /\ pc \in CreatePoints => op = "create" /\ ~err /\ i >= 1
    /\ pc = "delete" => op = "cleanup"
    /\ op = "create" /\ pc \in ReleasePoints
         => err /\ failedAt \notin {"network", "k3s"}
    /\ op = "create" => abandoned = {}

(* networkCreated is set for the object's own network only.  Another process *)
(* may have removed that network, or have made one in its place, but then    *)
(* the one under the name is an heir.                                        *)
NetworkOwned == networkCreated => networkName = "own" /\ nets["own"] # "other"

(* HandleKept, resource by resource. *)
Kept ==
    /\ Up("registry") => Registry \/ "registry" \in missed
    /\ Up("ssh") => "ssh" \in held \cup missed
    /\ disk \subseteq held \cup missed
    /\ nets["own"] = "us" => networkCreated \/ "net" \in missed

(* An ssh bridge nobody failed to remove is published, and it is up only     *)
(* from startSSHBridge to the next cleanupSSHBridge.                         *)
BridgeKnown ==
    Up("ssh") /\ "ssh" \notin missed
        => /\ "ssh" \in ports /\ "ssh" \in held
           /\ pc \in {"namespace", "manifests", "rollouts", "delete", "rmSSH"}
                \/ Running

(* The call has run the whole release chain. *)
Finished ==
    /\ pc = "idle"
    /\ op = "cleanup"
         \/ (op = "create" /\ err /\ failedAt \notin {"network", "k3s"})

(* A release chain that is past a resource has forgotten its handle, and     *)
(* removed it or recorded that it could not; in a Cleanup that has met no    *)
(* error it is gone.                                                         *)
Gone(x) == (Up(x) => x \in missed) /\ (op = "cleanup" /\ ~err => ~Up(x))

Released ==
    /\ pc \in {"rmK3s", "rmRegistry", "rmNet"} \/ Finished
         => "ssh" \notin held /\ "sshDir" \notin held
    /\ pc \in {"rmRegistry", "rmNet"} \/ Finished => Gone("k3s")
    /\ pc = "rmNet" \/ Finished
         => (Registry => Gone("registry")) /\ "registryDir" \notin held
    /\ Finished => ~networkCreated

(* Without WithRegistry there is never a registry. *)
NoRegistry == ~Registry => ~Up("registry")

(* The inductive invariant. *)
Safe ==
    /\ CallShape /\ NetworkOwned /\ Kept /\ BridgeKnown /\ Released
    /\ NoRegistry /\ AddressesLive

IInv == TypeOK /\ Safe

-----------------------------------------------------------------------------
(* The initial state satisfies the invariant. *)
LEMMA InitIInv == Init => IInv
<1> SUFFICES ASSUME Init PROVE IInv
    OBVIOUS
<1> USE ConfigAssumption DEF Init, Containers, Dirs, Resources, Networks, Kinds,
        CreatePoints, ReleasePoints
<1>1. FlagsOK
    BY DEF FlagsOK
<1>2. NumbersOK
    BY DEF NumbersOK
<1>3. NamesOK
    BY DEF NamesOK, WorldOK, HandlesOK, CallOK
<1>4. Safe
    BY DEF Safe, CallShape, NetworkOwned, Kept, BridgeKnown, Released,
           NoRegistry, AddressesLive, Finished, Gone, Running, Up
<1>5. QED
    BY <1>1, <1>2, <1>3, <1>4 DEF IInv, TypeOK

(* The invariant is preserved by a step of Create. *)
LEMMA CreateStep == IInv /\ Create => IInv'
<1> SUFFICES ASSUME IInv, Create PROVE IInv'
    OBVIOUS
<1> USE ConfigAssumption
    DEF IInv, TypeOK, CallShape, Containers, Dirs, Resources, Networks, Kinds, CreatePoints,
          ReleasePoints, Up, Running,
        world, object, call, history, notes,
        Goto, Fail, Abort, ReturnErr, Await, CanStart, Place, Joined, Created
<1>1. CASE CreateNetwork
  <2>1. FlagsOK'
    BY <1>1 DEF FlagsOK, CreateNetwork
  <2>2. NumbersOK'
    BY <1>1 DEF NumbersOK, CreateNetwork
  <2>3. NamesOK'
    <3>1. WorldOK'
      BY <1>1 DEF NamesOK, WorldOK, CreateNetwork
    <3>2. HandlesOK'
      BY <1>1 DEF NamesOK, HandlesOK, CreateNetwork
    <3>3. CallOK'
      BY <1>1 DEF NamesOK, CallOK, CreateNetwork
    <3>4. QED
      BY <3>1, <3>2, <3>3 DEF NamesOK
  <2>4. Safe'
    BY <1>1, <2>1, <2>2, <2>3
    DEF CreateNetwork, FlagsOK, NumbersOK, NamesOK, WorldOK, HandlesOK, CallOK,
        Safe, NetworkOwned, Kept, BridgeKnown, Released, NoRegistry, AddressesLive, Finished, Gone
  <2>5. QED
    BY <2>1, <2>2, <2>3, <2>4
<1>2. CASE StartRegistry
  <2>1. FlagsOK'
    BY <1>2 DEF FlagsOK, StartRegistry
  <2>2. NumbersOK'
    BY <1>2 DEF NumbersOK, StartRegistry
  <2>3. NamesOK'
    <3>1. WorldOK'
      <4>1. Place(Joined) \in {"absent", "bridge"} \cup Networks
        BY DEF Place, Joined, NamesOK, HandlesOK
      <4>2. at' = at \/ at' = [at EXCEPT !["registry"] = Place(Joined)]
        BY <1>2 DEF StartRegistry
      <4>3. at' \in [Containers -> {"absent", "bridge"} \cup Networks]
        BY <4>1, <4>2 DEF NamesOK, WorldOK
      <4>4. QED
        BY <1>2, <4>3 DEF NamesOK, WorldOK, StartRegistry
    <3>2. HandlesOK'
      BY <1>2 DEF NamesOK, HandlesOK, StartRegistry
    <3>3. CallOK'
      BY <1>2 DEF NamesOK, CallOK, StartRegistry
    <3>4. QED
      BY <3>1, <3>2, <3>3 DEF NamesOK
  <2>4. Safe'
    BY <1>2, <2>1, <2>2, <2>3
    DEF StartRegistry, FlagsOK, NumbersOK, NamesOK, WorldOK, HandlesOK, CallOK,
        Safe, NetworkOwned, Kept, BridgeKnown, Released, NoRegistry, AddressesLive, Finished, Gone
  <2>5. QED
    BY <2>1, <2>2, <2>3, <2>4
<1>3. CASE AwaitRegistry
  <2>1. FlagsOK'
    BY <1>3 DEF FlagsOK, AwaitRegistry
  <2>2. NumbersOK'
    BY <1>3 DEF NumbersOK, AwaitRegistry
  <2>3. NamesOK'
    BY <1>3 DEF NamesOK, WorldOK, HandlesOK, CallOK, AwaitRegistry
  <2>4. Safe'
    BY <1>3, <2>1, <2>2, <2>3
    DEF AwaitRegistry, FlagsOK, NumbersOK, NamesOK, WorldOK, HandlesOK, CallOK,
        Safe, NetworkOwned, Kept, BridgeKnown, Released, NoRegistry, AddressesLive, Finished, Gone
  <2>5. QED
    BY <2>1, <2>2, <2>3, <2>4
<1>4. CASE PreloadImage
  <2>1. FlagsOK'
    BY <1>4 DEF FlagsOK, PreloadImage
  <2>2. NumbersOK'
    BY <1>4 DEF NumbersOK, PreloadImage
  <2>3. NamesOK'
    BY <1>4 DEF NamesOK, WorldOK, HandlesOK, CallOK, PreloadImage
  <2>4. Safe'
    BY <1>4, <2>1, <2>2, <2>3
    DEF PreloadImage, FlagsOK, NumbersOK, NamesOK, WorldOK, HandlesOK, CallOK,
        Safe, NetworkOwned, Kept, BridgeKnown, Released, NoRegistry, AddressesLive, Finished, Gone
  <2>5. QED
    BY <2>1, <2>2, <2>3, <2>4
<1>5. CASE StartK3s
  <2>1. FlagsOK'
    <3>1. mirror' \in BOOLEAN
      <4>1. CASE mirror' = mirror
        BY <4>1 DEF FlagsOK
      <4>2. CASE mirror' = ("registryDir" \in disk)
        <5>1. ("registryDir" \in disk) = TRUE \/ ("registryDir" \in disk) = FALSE
          OBVIOUS
        <5>2. TRUE \in BOOLEAN /\ FALSE \in BOOLEAN
          OBVIOUS
        <5>3. QED
          BY ONLY <4>2, <5>1, <5>2, Zenon
      <4>3. QED
        BY <1>5, <4>1, <4>2, Zenon DEF StartK3s
    <3>2. err' \in BOOLEAN /\ UNCHANGED <<networkCreated, cancelled, listFailed>>
      BY <1>5 DEF FlagsOK, StartK3s
    <3>3. QED
      BY <3>1, <3>2 DEF FlagsOK
  <2>2. NumbersOK'
    BY <1>5 DEF NumbersOK, StartK3s
  <2>3. NamesOK'
    <3>1. WorldOK'
      <4>1. Place(k3sNetwork) \in {"absent", "bridge"} \cup Networks
        BY DEF Place, Joined, NamesOK, HandlesOK
      <4>2. at' = at \/ at' = [at EXCEPT !["k3s"] = Place(k3sNetwork)]
        BY <1>5 DEF StartK3s
      <4>3. at' \in [Containers -> {"absent", "bridge"} \cup Networks]
        BY <4>1, <4>2 DEF NamesOK, WorldOK
      <4>4. QED
        BY <1>5, <4>3 DEF NamesOK, WorldOK, StartK3s
    <3>2. HandlesOK'
      BY <1>5 DEF NamesOK, HandlesOK, StartK3s
    <3>3. CallOK'
      BY <1>5 DEF NamesOK, CallOK, StartK3s
    <3>4. QED
      BY <3>1, <3>2, <3>3 DEF NamesOK
  <2>4. Safe'
    BY <1>5, <2>1, <2>2, <2>3
    DEF StartK3s, FlagsOK, NumbersOK, NamesOK, WorldOK, HandlesOK, CallOK,
        Safe, NetworkOwned, Kept, BridgeKnown, Released, NoRegistry, AddressesLive, Finished, Gone
  <2>5. QED
    BY <2>1, <2>2, <2>3, <2>4
<1>6. CASE AwaitAPI
  <2>1. FlagsOK'
    BY <1>6 DEF FlagsOK, AwaitAPI
  <2>2. NumbersOK'
    BY <1>6 DEF NumbersOK, AwaitAPI
  <2>3. NamesOK'
    BY <1>6 DEF NamesOK, WorldOK, HandlesOK, CallOK, AwaitAPI
  <2>4. Safe'
    BY <1>6, <2>1, <2>2, <2>3
    DEF AwaitAPI, FlagsOK, NumbersOK, NamesOK, WorldOK, HandlesOK, CallOK,
        Safe, NetworkOwned, Kept, BridgeKnown, Released, NoRegistry, AddressesLive, Finished, Gone
  <2>5. QED
    BY <2>1, <2>2, <2>3, <2>4
<1>7. CASE AwaitNode
  <2>1. FlagsOK'
    BY <1>7 DEF FlagsOK, AwaitNode
  <2>2. NumbersOK'
    BY <1>7 DEF NumbersOK, AwaitNode
  <2>3. NamesOK'
    BY <1>7 DEF NamesOK, WorldOK, HandlesOK, CallOK, AwaitNode
  <2>4. Safe'
    BY <1>7, <2>1, <2>2, <2>3
    DEF AwaitNode, FlagsOK, NumbersOK, NamesOK, WorldOK, HandlesOK, CallOK,
        Safe, NetworkOwned, Kept, BridgeKnown, Released, NoRegistry, AddressesLive, Finished, Gone
  <2>5. QED
    BY <2>1, <2>2, <2>3, <2>4
<1>8. CASE PrepareSSH
  <2>1. FlagsOK'
    BY <1>8 DEF FlagsOK, PrepareSSH
  <2>2. NumbersOK'
    BY <1>8 DEF NumbersOK, PrepareSSH
  <2>3. NamesOK'
    <3>1. WorldOK'
      BY <1>8 DEF NamesOK, WorldOK, PrepareSSH
    <3>2. HandlesOK'
      BY <1>8 DEF NamesOK, HandlesOK, PrepareSSH
    <3>3. CallOK'
      BY <1>8 DEF NamesOK, CallOK, PrepareSSH
    <3>4. QED
      BY <3>1, <3>2, <3>3 DEF NamesOK
  <2>4. Safe'
    BY <1>8, <2>1, <2>2, <2>3
    DEF PrepareSSH, FlagsOK, NumbersOK, NamesOK, WorldOK, HandlesOK, CallOK,
        Safe, NetworkOwned, Kept, BridgeKnown, Released, NoRegistry, AddressesLive, Finished, Gone
  <2>5. QED
    BY <2>1, <2>2, <2>3, <2>4
<1>9. CASE StartSSH
  <2>1. FlagsOK'
    BY <1>9 DEF FlagsOK, StartSSH
  <2>2. NumbersOK'
    BY <1>9 DEF NumbersOK, StartSSH
  <2>3. NamesOK'
    <3>1. WorldOK'
      <4>1. Place(Joined) \in {"absent", "bridge"} \cup Networks
        BY DEF Place, Joined, NamesOK, HandlesOK
      <4>2. at' = at \/ at' = [at EXCEPT !["ssh"] = Place(Joined)]
        BY <1>9 DEF StartSSH
      <4>3. at' \in [Containers -> {"absent", "bridge"} \cup Networks]
        BY <4>1, <4>2 DEF NamesOK, WorldOK
      <4>4. QED
        BY <1>9, <4>3 DEF NamesOK, WorldOK, StartSSH
    <3>2. HandlesOK'
      BY <1>9 DEF NamesOK, HandlesOK, StartSSH
    <3>3. CallOK'
      BY <1>9 DEF NamesOK, CallOK, StartSSH
    <3>4. QED
      BY <3>1, <3>2, <3>3 DEF NamesOK
  <2>4. Safe'
    BY <1>9, <2>1, <2>2, <2>3
    DEF StartSSH, FlagsOK, NumbersOK, NamesOK, WorldOK, HandlesOK, CallOK,
        Safe, NetworkOwned, Kept, BridgeKnown, Released, NoRegistry, AddressesLive, Finished, Gone
  <2>5. QED
    BY <2>1, <2>2, <2>3, <2>4
<1>10. CASE EnsureNamespace
  <2>1. FlagsOK'
    BY <1>10 DEF FlagsOK, EnsureNamespace
  <2>2. NumbersOK'
    BY <1>10 DEF NumbersOK, EnsureNamespace
  <2>3. NamesOK'
    BY <1>10 DEF NamesOK, WorldOK, HandlesOK, CallOK, EnsureNamespace
  <2>4. Safe'
    BY <1>10, <2>1, <2>2, <2>3
    DEF EnsureNamespace, FlagsOK, NumbersOK, NamesOK, WorldOK, HandlesOK, CallOK,
        Safe, NetworkOwned, Kept, BridgeKnown, Released, NoRegistry, AddressesLive, Finished, Gone
  <2>5. QED
    BY <2>1, <2>2, <2>3, <2>4
<1>11. CASE ApplyManifest
  <2>1. FlagsOK'
    BY <1>11 DEF FlagsOK, ApplyManifest
  <2>2. NumbersOK'
    <3>1. pc \in CreatePoints /\ i \in Nat /\ i >= 1
      BY <1>11 DEF NumbersOK, Safe, ApplyManifest
    <3>2. i' \in Nat
      BY <1>11, <3>1 DEF ApplyManifest
    <3>3. applied' \subseteq applied \/ (i <= Manifests /\ applied' = applied \cup {i})
      BY <1>11 DEF ApplyManifest
    <3>4. applied' \subseteq 1..Manifests
      <4>1. i <= Manifests => i \in 1..Manifests
        BY <3>1
      <4>2. applied \subseteq 1..Manifests
        BY DEF NumbersOK
      <4>3. QED
        BY <3>3, <4>1, <4>2
    <3>5. UNCHANGED <<pushed, creates>>
      BY <1>11 DEF ApplyManifest
    <3>6. QED
      BY <3>2, <3>4, <3>5 DEF NumbersOK
  <2>3. NamesOK'
    <3>1. WorldOK'
      BY <1>11 DEF NamesOK, WorldOK, ApplyManifest
    <3>2. HandlesOK'
      BY <1>11 DEF NamesOK, HandlesOK, ApplyManifest
    <3>3. CallOK'
      BY <1>11 DEF NamesOK, CallOK, ApplyManifest
    <3>4. QED
      BY <3>1, <3>2, <3>3 DEF NamesOK
  <2>4. Safe'
    BY <1>11, <2>1, <2>2, <2>3
    DEF ApplyManifest, FlagsOK, NumbersOK, NamesOK, WorldOK, HandlesOK, CallOK,
        Safe, NetworkOwned, Kept, BridgeKnown, Released, NoRegistry, AddressesLive, Finished, Gone
  <2>5. QED
    BY <2>1, <2>2, <2>3, <2>4
<1>12. CASE WaitForRollouts
  <2>1. FlagsOK'
    BY <1>12 DEF FlagsOK, WaitForRollouts
  <2>2. NumbersOK'
    BY <1>12 DEF NumbersOK, WaitForRollouts
  <2>3. NamesOK'
    BY <1>12 DEF NamesOK, WorldOK, HandlesOK, CallOK, WaitForRollouts
  <2>4. Safe'
    BY <1>12, <2>1, <2>2, <2>3
    DEF WaitForRollouts, FlagsOK, NumbersOK, NamesOK, WorldOK, HandlesOK, CallOK,
        Safe, NetworkOwned, Kept, BridgeKnown, Released, NoRegistry, AddressesLive, Finished, Gone
  <2>5. QED
    BY <2>1, <2>2, <2>3, <2>4
<1>13. QED
    BY <1>1, <1>2, <1>3, <1>4, <1>5, <1>6, <1>7, <1>8, <1>9, <1>10, <1>11, <1>12 DEF Create

(* The invariant is preserved by a step of Cleanup or of cleanupAfterCreateFailure. *)
LEMMA CleanupStep == IInv /\ Cleanup => IInv'
<1> SUFFICES ASSUME IInv, Cleanup PROVE IInv'
    OBVIOUS
<1> USE ConfigAssumption
    DEF IInv, TypeOK, CallShape, Containers, Dirs, Resources, Networks, Kinds, CreatePoints,
          ReleasePoints, Up, Running,
        world, object, call, history, notes,
        Goto, Release, Record, Forget, Reachable, Attached
<1>1. CASE DeleteManifest
  <2>1. FlagsOK'
    BY <1>1 DEF FlagsOK, DeleteManifest
  <2>2. NumbersOK'
    <3>1. i' \in Nat
      BY <1>1 DEF NumbersOK, DeleteManifest
    <3>2. applied' \subseteq applied /\ UNCHANGED <<pushed, creates>>
      BY <1>1 DEF DeleteManifest
    <3>3. QED
      BY <3>1, <3>2 DEF NumbersOK
  <2>3. NamesOK'
    BY <1>1 DEF NamesOK, WorldOK, HandlesOK, CallOK, DeleteManifest
  <2>4. Safe'
    BY <1>1, <2>1, <2>2, <2>3
    DEF DeleteManifest, FlagsOK, NumbersOK, NamesOK, WorldOK, HandlesOK, CallOK,
        Safe, NetworkOwned, Kept, BridgeKnown, Released, NoRegistry, AddressesLive, Finished, Gone
  <2>5. QED
    BY <2>1, <2>2, <2>3, <2>4
<1>2. CASE CleanupSSHBridge
  <2>1. FlagsOK'
    BY <1>2 DEF FlagsOK, CleanupSSHBridge
  <2>2. NumbersOK'
    BY <1>2 DEF NumbersOK, CleanupSSHBridge
  <2>3. NamesOK'
    <3>1. WorldOK'
      <4>1. at' = at \/ at' = [at EXCEPT !["ssh"] = "absent"]
        BY <1>2 DEF CleanupSSHBridge
      <4>2. at' \in [Containers -> {"absent", "bridge"} \cup Networks]
        BY <4>1 DEF NamesOK, WorldOK
      <4>3. QED
        BY <1>2, <4>2 DEF NamesOK, WorldOK, CleanupSSHBridge
    <3>2. HandlesOK'
      BY <1>2 DEF NamesOK, HandlesOK, CleanupSSHBridge
    <3>3. CallOK'
      BY <1>2 DEF NamesOK, CallOK, CleanupSSHBridge
    <3>4. QED
      BY <3>1, <3>2, <3>3 DEF NamesOK
  <2>4. Safe'
    BY <1>2, <2>1, <2>2, <2>3
    DEF CleanupSSHBridge, FlagsOK, NumbersOK, NamesOK, WorldOK, HandlesOK, CallOK,
        Safe, NetworkOwned, Kept, BridgeKnown, Released, NoRegistry, AddressesLive, Finished, Gone
  <2>5. QED
    BY <2>1, <2>2, <2>3, <2>4
<1>3. CASE CleanupK3s
  <2>1. FlagsOK'
    BY <1>3 DEF FlagsOK, CleanupK3s
  <2>2. NumbersOK'
    BY <1>3 DEF NumbersOK, CleanupK3s
  <2>3. NamesOK'
    <3>1. WorldOK'
      <4>1. at' = at \/ at' = [at EXCEPT !["k3s"] = "absent"]
        BY <1>3 DEF CleanupK3s
      <4>2. at' \in [Containers -> {"absent", "bridge"} \cup Networks]
        BY <4>1 DEF NamesOK, WorldOK
      <4>3. QED
        BY <1>3, <4>2 DEF NamesOK, WorldOK, CleanupK3s
    <3>2. HandlesOK'
      BY <1>3 DEF NamesOK, HandlesOK, CleanupK3s
    <3>3. CallOK'
      BY <1>3 DEF NamesOK, CallOK, CleanupK3s
    <3>4. QED
      BY <3>1, <3>2, <3>3 DEF NamesOK
  <2>4. Safe'
    BY <1>3, <2>1, <2>2, <2>3
    DEF CleanupK3s, FlagsOK, NumbersOK, NamesOK, WorldOK, HandlesOK, CallOK,
        Safe, NetworkOwned, Kept, BridgeKnown, Released, NoRegistry, AddressesLive, Finished, Gone
  <2>5. QED
    BY <2>1, <2>2, <2>3, <2>4
<1>4. CASE CleanupRegistry
  <2>1. FlagsOK'
    BY <1>4 DEF FlagsOK, CleanupRegistry
  <2>2. NumbersOK'
    BY <1>4 DEF NumbersOK, CleanupRegistry
  <2>3. NamesOK'
    <3>1. WorldOK'
      <4>1. at' = at \/ at' = [at EXCEPT !["registry"] = "absent"]
        BY <1>4 DEF CleanupRegistry
      <4>2. at' \in [Containers -> {"absent", "bridge"} \cup Networks]
        BY <4>1 DEF NamesOK, WorldOK
      <4>3. QED
        BY <1>4, <4>2 DEF NamesOK, WorldOK, CleanupRegistry
    <3>2. HandlesOK'
      BY <1>4 DEF NamesOK, HandlesOK, CleanupRegistry
    <3>3. CallOK'
      BY <1>4 DEF NamesOK, CallOK, CleanupRegistry
    <3>4. QED
      BY <3>1, <3>2, <3>3 DEF NamesOK
  <2>4. Safe'
    BY <1>4, <2>1, <2>2, <2>3
    DEF CleanupRegistry, FlagsOK, NumbersOK, NamesOK, WorldOK, HandlesOK, CallOK,
        Safe, NetworkOwned, Kept, BridgeKnown, Released, NoRegistry, AddressesLive, Finished, Gone
  <2>5. QED
    BY <2>1, <2>2, <2>3, <2>4
<1>5. CASE RemoveNetwork
  <2>1. FlagsOK'
    BY <1>5 DEF FlagsOK, RemoveNetwork
  <2>2. NumbersOK'
    BY <1>5 DEF NumbersOK, RemoveNetwork
  <2>3. NamesOK'
    <3>1. WorldOK'
      <4>1. nets' = nets \/ nets' = [nets EXCEPT ![networkName] = "absent"]
        BY <1>5 DEF RemoveNetwork
      <4>2. nets' \in [Networks -> {"absent", "us", "other", "heir"}]
        BY <4>1 DEF NamesOK, WorldOK
      <4>3. QED
        BY <1>5, <4>2 DEF NamesOK, WorldOK, RemoveNetwork
    <3>2. HandlesOK'
      BY <1>5 DEF NamesOK, HandlesOK, RemoveNetwork
    <3>3. CallOK'
      BY <1>5 DEF NamesOK, CallOK, RemoveNetwork
    <3>4. QED
      BY <3>1, <3>2, <3>3 DEF NamesOK
  <2>4. Safe'
    BY <1>5, <2>1, <2>2, <2>3
    DEF RemoveNetwork, FlagsOK, NumbersOK, NamesOK, WorldOK, HandlesOK, CallOK,
        Safe, NetworkOwned, Kept, BridgeKnown, Released, NoRegistry, AddressesLive, Finished, Gone
  <2>5. QED
    BY <2>1, <2>2, <2>3, <2>4
<1>6. QED
    BY <1>1, <1>2, <1>3, <1>4, <1>5 DEF Cleanup

(* The invariant is preserved by a step of the caller. *)
LEMMA CallerStep == IInv /\ Caller => IInv'
<1> SUFFICES ASSUME IInv, Caller PROVE IInv'
    OBVIOUS
<1> USE ConfigAssumption
    DEF IInv, TypeOK, CallShape, Containers, Dirs, Resources, Networks, Kinds, CreatePoints,
          ReleasePoints, Up, Running,
        world, object, call, history, notes
<1>1. CASE SetNetwork
  <2>1. FlagsOK'
    BY <1>1 DEF FlagsOK, SetNetwork
  <2>2. NumbersOK'
    BY <1>1 DEF NumbersOK, SetNetwork
  <2>3. NamesOK'
    BY <1>1 DEF NamesOK, WorldOK, HandlesOK, CallOK, SetNetwork
  <2>4. Safe'
    BY <1>1, <2>1, <2>2, <2>3
    DEF SetNetwork, FlagsOK, NumbersOK, NamesOK, WorldOK, HandlesOK, CallOK,
        Safe, NetworkOwned, Kept, BridgeKnown, Released, NoRegistry, AddressesLive, Finished, Gone
  <2>5. QED
    BY <2>1, <2>2, <2>3, <2>4
<1>2. CASE BeginCreate
  <2>1. FlagsOK'
    BY <1>2 DEF FlagsOK, BeginCreate
  <2>2. NumbersOK'
    BY <1>2 DEF NumbersOK, BeginCreate
  <2>3. NamesOK'
    BY <1>2 DEF NamesOK, WorldOK, HandlesOK, CallOK, BeginCreate
  <2>4. Safe'
    BY <1>2, <2>1, <2>2, <2>3
    DEF BeginCreate, FlagsOK, NumbersOK, NamesOK, WorldOK, HandlesOK, CallOK,
        Safe, NetworkOwned, Kept, BridgeKnown, Released, NoRegistry, AddressesLive, Finished, Gone
  <2>5. QED
    BY <2>1, <2>2, <2>3, <2>4
<1>3. CASE BeginCleanup
  <2>1. FlagsOK'
    BY <1>3 DEF FlagsOK, BeginCleanup
  <2>2. NumbersOK'
    BY <1>3 DEF NumbersOK, BeginCleanup
  <2>3. NamesOK'
    BY <1>3 DEF NamesOK, WorldOK, HandlesOK, CallOK, BeginCleanup
  <2>4. Safe'
    BY <1>3, <2>1, <2>2, <2>3
    DEF BeginCleanup, FlagsOK, NumbersOK, NamesOK, WorldOK, HandlesOK, CallOK,
        Safe, NetworkOwned, Kept, BridgeKnown, Released, NoRegistry, AddressesLive, Finished, Gone
  <2>5. QED
    BY <2>1, <2>2, <2>3, <2>4
<1>4. CASE Cancel
  <2>1. FlagsOK'
    BY <1>4 DEF FlagsOK, Cancel
  <2>2. NumbersOK'
    BY <1>4 DEF NumbersOK, Cancel
  <2>3. NamesOK'
    BY <1>4 DEF NamesOK, WorldOK, HandlesOK, CallOK, Cancel
  <2>4. Safe'
    BY <1>4, <2>1, <2>2, <2>3
    DEF Cancel, FlagsOK, NumbersOK, NamesOK, WorldOK, HandlesOK, CallOK,
        Safe, NetworkOwned, Kept, BridgeKnown, Released, NoRegistry, AddressesLive, Finished, Gone
  <2>5. QED
    BY <2>1, <2>2, <2>3, <2>4
<1>5. QED
    BY <1>1, <1>2, <1>3, <1>4 DEF Caller

(* The invariant is preserved by a step of another process or of the cluster. *)
LEMMA OutsideStep == IInv /\ Outside => IInv'
<1> SUFFICES ASSUME IInv, Outside PROVE IInv'
    OBVIOUS
<1> USE ConfigAssumption
    DEF IInv, TypeOK, CallShape, Containers, Dirs, Resources, Networks, Kinds, CreatePoints,
          ReleasePoints, Up, Running,
        world, object, call, history, notes,
        Attached
<1>1. CASE OtherCreates
  <2>1. FlagsOK'
    BY <1>1 DEF FlagsOK, OtherCreates
  <2>2. NumbersOK'
    BY <1>1 DEF NumbersOK, OtherCreates
  <2>3. NamesOK'
    BY <1>1 DEF NamesOK, WorldOK, HandlesOK, CallOK, OtherCreates
  <2>4. Safe'
    BY <1>1, <2>1, <2>2, <2>3
    DEF OtherCreates, FlagsOK, NumbersOK, NamesOK, WorldOK, HandlesOK, CallOK,
        Safe, NetworkOwned, Kept, BridgeKnown, Released, NoRegistry, AddressesLive, Finished, Gone
  <2>5. QED
    BY <2>1, <2>2, <2>3, <2>4
<1>2. CASE OtherJoinsOrLeaves
  <2>1. FlagsOK'
    BY <1>2 DEF FlagsOK, OtherJoinsOrLeaves
  <2>2. NumbersOK'
    BY <1>2 DEF NumbersOK, OtherJoinsOrLeaves
  <2>3. NamesOK'
    BY <1>2 DEF NamesOK, WorldOK, HandlesOK, CallOK, OtherJoinsOrLeaves
  <2>4. Safe'
    BY <1>2, <2>1, <2>2, <2>3
    DEF OtherJoinsOrLeaves, FlagsOK, NumbersOK, NamesOK, WorldOK, HandlesOK, CallOK,
        Safe, NetworkOwned, Kept, BridgeKnown, Released, NoRegistry, AddressesLive, Finished, Gone
  <2>5. QED
    BY <2>1, <2>2, <2>3, <2>4
<1>3. CASE OtherRemoves
  <2>1. FlagsOK'
    BY <1>3 DEF FlagsOK, OtherRemoves
  <2>2. NumbersOK'
    BY <1>3 DEF NumbersOK, OtherRemoves
  <2>3. NamesOK'
    BY <1>3 DEF NamesOK, WorldOK, HandlesOK, CallOK, OtherRemoves
  <2>4. Safe'
    BY <1>3, <2>1, <2>2, <2>3
    DEF OtherRemoves, FlagsOK, NumbersOK, NamesOK, WorldOK, HandlesOK, CallOK,
        Safe, NetworkOwned, Kept, BridgeKnown, Released, NoRegistry, AddressesLive, Finished, Gone
  <2>5. QED
    BY <2>1, <2>2, <2>3, <2>4
<1>4. CASE RolloutFinishes
  <2>1. FlagsOK'
    BY <1>4 DEF FlagsOK, RolloutFinishes
  <2>2. NumbersOK'
    BY <1>4 DEF NumbersOK, RolloutFinishes
  <2>3. NamesOK'
    BY <1>4 DEF NamesOK, WorldOK, HandlesOK, CallOK, RolloutFinishes
  <2>4. Safe'
    BY <1>4, <2>1, <2>2, <2>3
    DEF RolloutFinishes, FlagsOK, NumbersOK, NamesOK, WorldOK, HandlesOK, CallOK,
        Safe, NetworkOwned, Kept, BridgeKnown, Released, NoRegistry, AddressesLive, Finished, Gone
  <2>5. QED
    BY <2>1, <2>2, <2>3, <2>4
<1>5. QED
    BY <1>1, <1>2, <1>3, <1>4 DEF Outside

(* IInv is an invariant of the specification. *)
THEOREM Inductive == Spec => []IInv
<1>1. IInv /\ UNCHANGED vars => IInv'
    BY DEF IInv, TypeOK, FlagsOK, NumbersOK, NamesOK, WorldOK, HandlesOK, CallOK, Safe, CallShape,
           NetworkOwned, Kept, BridgeKnown, Released, NoRegistry, AddressesLive,
           Finished, Gone, Running, Up, vars, world, object, call, history, notes
<1>2. IInv /\ [Next]_vars => IInv'
    BY <1>1, CreateStep, CleanupStep, CallerStep, OutsideStep DEF Next
<1>3. QED
    BY InitIInv, <1>2, PTL DEF Spec

(* The variables keep to their types. *)
THEOREM TypeCorrect == Spec => []TypeOK
<1>1. IInv => TypeOK
    BY DEF IInv
<1>2. QED
    BY Inductive, <1>1, PTL

(* Every resource the object made and has not removed is one it still has    *)
(* the handle of, or one whose removal has failed.                           *)
THEOREM HandlesKept == Spec => []HandleKept
<1>1. IInv => HandleKept
    BY DEF IInv, TypeOK, NamesOK, WorldOK, HandlesOK, CallOK, Safe, Kept, HandleKept, Remaining, Held, Up,
           Containers, Dirs
<1>2. QED
    BY Inductive, <1>1, PTL

(* A Cleanup that returns nil leaves at most what an earlier removal failed  *)
(* on, and no k3s or registry container.                                     *)
THEOREM CleanupIsClean == Spec => []CleanupNilMeansClean
<1>1. IInv => CleanupNilMeansClean
  <2> SUFFICES ASSUME IInv, pc = "idle", op = "cleanup", ~err
               PROVE  Remaining \subseteq missed \ {"k3s", "registry"}
      BY DEF CleanupNilMeansClean
  <2>1. ~Up("k3s") /\ ~Up("registry")
      BY DEF IInv, Safe, Released, NoRegistry, Finished, Gone
  <2>2. (Up("ssh") => "ssh" \in missed) /\ disk \subseteq missed \cap Dirs
      BY DEF IInv, TypeOK, NamesOK, WorldOK, HandlesOK, CallOK, Safe, Released, Finished, Kept, Dirs
  <2>3. nets["own"] = "us" => "net" \in missed
      BY DEF IInv, Safe, Released, Finished, Kept
  <2>4. QED
      BY <2>1, <2>2, <2>3 DEF Remaining, Containers, Dirs
<1>2. QED
    BY Inductive, <1>1, PTL

(* A Create that fails anywhere but at CreateNetwork and container.Start     *)
(* leaves only what could not be removed, whatever its context was.          *)
THEOREM FailedCreateIsClean == Spec => []FailedCreateReleases
<1>1. IInv => FailedCreateReleases
  <2> SUFFICES ASSUME IInv, pc = "idle", op = "create", err,
                      failedAt \notin {"network", "k3s"}
               PROVE  Remaining \subseteq missed \ abandoned
      BY DEF FailedCreateReleases
  <2>1. Up("k3s") => "k3s" \in missed
      BY DEF IInv, Safe, Released, Finished, Gone
  <2>2. Up("registry") => "registry" \in missed
      BY DEF IInv, Safe, Released, NoRegistry, Finished, Gone
  <2>3. (Up("ssh") => "ssh" \in missed) /\ disk \subseteq missed
      BY DEF IInv, TypeOK, NamesOK, WorldOK, HandlesOK, CallOK, Safe, Released, Finished, Kept, Dirs
  <2>4. nets["own"] = "us" => "net" \in missed
      BY DEF IInv, Safe, Released, Finished, Kept
  <2>5. abandoned = {}
      BY DEF IInv, Safe, CallShape
  <2>6. QED
      BY <2>1, <2>2, <2>3, <2>4, <2>5 DEF Remaining, Containers
<1>2. QED
    BY Inductive, <1>1, PTL

(* A published address of the registry or the bridge belongs to a container  *)
(* that is up, and a k3s that is up is published.                            *)
THEOREM AddressesAreLive == Spec => []AddressesLive
<1>1. IInv => AddressesLive
    BY DEF IInv, Safe
<1>2. QED
    BY Inductive, <1>1, PTL

(* The address of k3s is never withdrawn (lifecycle.go:44, 109-132): once    *)
(* there has been a k3s, Endpoints names it for good, up or not.             *)
K3sAddressStays == [](Up("k3s") => []("k3s" \in ports))

(* How far the exception reaches that AddressesLive makes for k3s.           *)
THEOREM K3sAddressIsKept == Spec => K3sAddressStays
<1> DEFINE Named == "k3s" \in ports
<1>1. IInv => (Up("k3s") => Named)
    BY DEF IInv, Safe, AddressesLive
<1>2. Named /\ [Next]_vars => Named'
    BY DEF Next, Create, Cleanup, Caller, Outside, CreateNetwork, StartRegistry,
       AwaitRegistry, PreloadImage, StartK3s, AwaitAPI, AwaitNode, PrepareSSH, StartSSH,
       EnsureNamespace, ApplyManifest, WaitForRollouts, Await, DeleteManifest,
       CleanupSSHBridge, CleanupK3s, CleanupRegistry, RemoveNetwork, Forget, SetNetwork,
       BeginCreate, BeginCleanup, Cancel, OtherCreates, OtherJoinsOrLeaves,
       OtherRemoves, RolloutFinishes, world, object, vars
<1> HIDE DEF Named
<1>3. Spec => [](Up("k3s") => []Named)
    BY Inductive, <1>1, <1>2, PTL DEF Spec
<1>4. QED
    BY <1>3 DEF Named, K3sAddressStays

(* A network another process made is removed by the harness only where it    *)
(* took the place and the name of the object's own.                          *)
THEOREM ForeignNetworksKept == Spec => ForeignNetworkKept
<1> DEFINE Keeps == \A n \in Networks :
                      nets[n] \in {"other", "heir"} /\ nets'[n] # nets[n]
                        => \/ Outside
                           \/ nets[n] = "heir" /\ networkCreated /\ RemoveNetwork
<1>1. IInv /\ [Next]_vars => [Keeps]_vars
  <2> SUFFICES ASSUME IInv, Next PROVE Keeps
      OBVIOUS
  <2>1. CASE CreateNetwork
      BY <2>1 DEF CreateNetwork, IInv, TypeOK, NamesOK, WorldOK, HandlesOK, CallOK, Networks
  <2>2. CASE RemoveNetwork
      BY <2>2 DEF RemoveNetwork, IInv, TypeOK, NamesOK, WorldOK, HandlesOK, CallOK, Networks, Safe,
                  NetworkOwned
  <2>3. CASE Outside
      BY <2>3
  <2>4. ASSUME nets' = nets PROVE Keeps
      BY <2>4
  <2>5. CASE Create
    <3>1. CreateNetwork \/ nets' = nets
        BY <2>5 DEF Create, StartRegistry, AwaitRegistry, PreloadImage,
             StartK3s, AwaitAPI, AwaitNode, PrepareSSH, StartSSH,
             EnsureNamespace, ApplyManifest, WaitForRollouts, Await, world
    <3>2. QED
        BY <3>1, <2>1, <2>4
  <2>6. CASE Cleanup
    <3>1. RemoveNetwork \/ nets' = nets
        BY <2>6 DEF Cleanup, DeleteManifest, CleanupSSHBridge, CleanupK3s,
                    CleanupRegistry
    <3>2. QED
        BY <3>1, <2>2, <2>4
  <2>7. CASE Caller
    <3>1. nets' = nets
        BY <2>7 DEF Caller, SetNetwork, BeginCreate, BeginCleanup, Cancel, world
    <3>2. QED
        BY <3>1, <2>4
  <2>8. QED
      BY <2>3, <2>5, <2>6, <2>7 DEF Next
<1>2. QED
    BY Inductive, <1>1, PTL DEF Spec, ForeignNetworkKept

=============================================================================
