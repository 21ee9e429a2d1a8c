--------------------------- MODULE ImageRefProofs ---------------------------
(***************************************************************************)
(* For every set of hosts and words, names of every depth and any number   *)
(* of pushes: an image pulled by name is the one last pushed under it, and *)
(* RegistryImage leaves its own results alone.                             *)
(***************************************************************************)
EXTENDS ImageRef, SequenceTheorems, TLAPS

(* The last push, if it succeeded, is of a name and is what its repository   *)
(* now holds.                                                                *)
LastHeld ==
    last.ok => /\ last.name \in Ref
               /\ last.cluster = ClusterImage(last.name)
               /\ Resolves(HostImage(last.name), last.source)

(* A name is a reference. *)
LEMMA NamesAreRefs == Names \subseteq Ref
<1> SUFFICES ASSUME NEW k \in 1..Depth, NEW name \in [1..k -> Part]
             PROVE  name \in Ref
    BY DEF Names
<1>1. k \in Nat /\ k > 0
    BY RefAssumption
<1>2. name \in Seq(Part) /\ Len(name) = k
    BY <1>1, SeqDef
<1>3. QED
    BY <1>1, <1>2 DEF Ref

(* A registry's address in front is dropped again, and nothing else is. *)
LEMMA StripAddress ==
    ASSUME NEW image \in Ref, NEW host \in Hosts
    PROVE  /\ stripRegistry(image) \in Ref
           /\ stripRegistry(<<host>> \o image) = image
           /\ Repository(<<host>> \o image) = image
<1>1. image \in Seq(Part) /\ Len(image) \in Nat /\ Len(image) > 0
    BY DEF Ref
<1>2. stripRegistry(image) \in Ref
  <2>1. ASSUME Len(image) >= 2
        PROVE  Tail(image) \in Seq(Part) /\ Len(Tail(image)) > 0
      BY <1>1, <2>1
  <2>2. ASSUME NEW s \in Seq(Part), Len(s) > 0 PROVE s \in Ref
      BY <2>2 DEF Ref
  <2>3. QED
      BY <1>1, <2>1, <2>2 DEF stripRegistry
<1>3. <<host>> \in Seq(Part) /\ Len(<<host>>) = 1 /\ host \in Part
    BY DEF Part
<1>4. /\ Len(<<host>> \o image) >= 2
      /\ Head(<<host>> \o image) = host
      /\ Tail(<<host>> \o image) = image
    BY <1>1, <1>3
<1>5. QED
    BY <1>2, <1>4 DEF stripRegistry, Repository

(* RegistryImage is idempotent. *)
LEMMA Idempotent ==
    ASSUME NEW image \in Ref
    PROVE  /\ RegistryImage(image) \in Ref
           /\ RegistryImage(RegistryImage(image)) = RegistryImage(image)
<1>1. stripRegistry(image) \in Ref
    BY StripAddress, RefAssumption
<1>2. RegistryImage(image) \in Ref
    BY <1>1, RefAssumption DEF RegistryImage, Ref, Part
<1>3. stripRegistry(RegistryImage(image)) = stripRegistry(image)
    BY <1>1, StripAddress, RefAssumption DEF RegistryImage
<1>4. QED
    BY <1>2, <1>3 DEF RegistryImage

(* The host pushes to the repository that the name is pulled from. *)
LEMMA SameRepository ==
    ASSUME NEW name \in Ref
    PROVE  Repository(HostImage(name)) = Repository(RegistryImage(name))
<1>1. stripRegistry(name) \in Ref
    BY StripAddress, RefAssumption
<1>2. QED
    BY <1>1, StripAddress, RefAssumption DEF HostImage, RegistryImage

(* LastHeld is an invariant: the push writes the repository it records.      *)
LEMMA Held == Spec => []LastHeld
<1>1. Init => LastHeld
    BY DEF Init, NoPush, LastHeld
<1>2. LastHeld /\ [Next]_vars => LastHeld'
  <2> SUFFICES ASSUME LastHeld, [Next]_vars PROVE LastHeld'
      OBVIOUS
  <2>1. CASE UNCHANGED vars
      BY <2>1 DEF vars, LastHeld, Resolves
  <2>2. ASSUME NEW source \in Sources, NEW name \in Names, Push(source, name)
        PROVE  LastHeld'
    <3>1. name \in Ref
        BY NamesAreRefs
    <3>2. /\ last'.name = name /\ last'.source = source
          /\ last'.cluster = ClusterImage(name)
        BY <2>2 DEF Push
    <3>3. /\ Repository(HostImage(name)) \in DOMAIN registry'
          /\ registry'[Repository(HostImage(name))] = source
        BY <2>2 DEF Push, Pushed
    <3>4. QED
        BY <3>1, <3>2, <3>3 DEF LastHeld, Resolves
  <2>3. ASSUME NEW source \in Sources, NEW name \in Names, PushFails(source, name)
        PROVE  LastHeld'
      BY <2>3 DEF PushFails, NoPush, LastHeld
  <2>4. QED
      BY <2>1, <2>2, <2>3 DEF Next
<1>3. QED
    BY <1>1, <1>2, PTL DEF Spec

(* The image of the last successful push is what its name pulls. *)
THEOREM NamesPull == Spec => []NamePulls
<1>1. LastHeld => NamePulls
    BY SameRepository DEF LastHeld, NamePulls, Resolves
<1>2. QED
    BY <1>1, Held, PTL

(* The reference a push returns is the one its name gives, unless what is    *)
(* left of the name after its host begins with another host.                 *)
THEOREM ReturnedPull == Spec => []ReturnedPulls
<1>1. LastHeld => ReturnedPulls
  <2> DEFINE repo == stripRegistry(last.name)
  <2> SUFFICES ASSUME LastHeld, last.ok, Len(repo) > 1 => Head(repo) \notin Hosts
               PROVE  /\ Resolves(last.cluster, last.source)
                      /\ last.cluster = RegistryImage(last.name)
      BY DEF ReturnedPulls
  <2>1. last.name \in Ref /\ last.cluster = ClusterImage(last.name)
      BY DEF LastHeld
  <2>2. repo \in Ref
      BY <2>1, StripAddress, RefAssumption
  <2>3. stripRegistry(repo) = repo
    <3>1. Len(repo) \in Nat
        BY <2>2 DEF Ref
    <3>2. QED
        BY <3>1 DEF stripRegistry
  <2>4. last.cluster = RegistryImage(last.name)
      BY <2>1, <2>3 DEF ClusterImage, RegistryImage
  <2>5. Resolves(last.cluster, last.source)
      BY <2>1, <2>4, SameRepository DEF LastHeld, Resolves
  <2>6. QED
      BY <2>4, <2>5
<1>2. QED
    BY <1>1, Held, PTL

(* The extent of what ImageRefNested shows once: the reference a push        *)
(* returns names the repository that was pushed to if, and only if, what is  *)
(* left of the name after its host does not begin with another host; then    *)
(* that host is lost, too (registry.go:236).                                 *)
Nested(repo) == Len(repo) > 1 /\ Head(repo) \in Hosts

ReturnedExactly ==
    last.ok =>
      LET repo == Repository(HostImage(last.name))
      IN  /\ Repository(last.cluster) = repo <=> ~Nested(repo)
          /\ Nested(repo) => Repository(last.cluster) = Tail(repo)

(* Where a push goes and where the reference it returns points. *)
LEMMA Destinations ==
    ASSUME NEW name \in Ref
    PROVE  /\ Repository(HostImage(name)) = stripRegistry(name)
           /\ Repository(ClusterImage(name)) = stripRegistry(stripRegistry(name))
<1>1. stripRegistry(name) \in Ref /\ stripRegistry(stripRegistry(name)) \in Ref
    BY StripAddress, RefAssumption
<1>2. QED
    BY <1>1, StripAddress, RefAssumption DEF HostImage, ClusterImage, RegistryImage

(* A push returns the right reference exactly where no host is left to strip.*)
THEOREM ReturnedIsExact == Spec => []ReturnedExactly
<1>1. LastHeld => ReturnedExactly
  <2> DEFINE repo == stripRegistry(last.name)
  <2> SUFFICES ASSUME LastHeld, last.ok PROVE ReturnedExactly
      BY DEF ReturnedExactly
  <2>1. /\ repo \in Ref
        /\ Repository(HostImage(last.name)) = repo
        /\ Repository(last.cluster) = stripRegistry(repo)
      BY StripAddress, RefAssumption, Destinations DEF LastHeld
  <2>2. repo \in Seq(Part) /\ Len(repo) \in Nat /\ Len(repo) > 0
      BY <2>1 DEF Ref
  <2>3. Nested(repo) => stripRegistry(repo) = Tail(repo)
      BY <2>2 DEF Nested, stripRegistry
  <2>4. ~Nested(repo) => stripRegistry(repo) = repo
      BY <2>2 DEF Nested, stripRegistry
  <2>5. Tail(repo) # repo
    <3>1. Len(Tail(repo)) = Len(repo) - 1
        BY <2>2
    <3>2. QED
        BY <2>2, <3>1
  <2> HIDE DEF repo
  <2>6. QED
      BY <2>1, <2>3, <2>4, <2>5 DEF ReturnedExactly
<1>2. QED
    BY <1>1, Held, PTL

(* Patching a manifest twice changes nothing. *)
THEOREM ReferencesStable == Spec => []RegistryImageStable
<1>1. LastHeld => RegistryImageStable
  <2> SUFFICES ASSUME LastHeld, last.ok PROVE RegistryImageStable
      BY DEF RegistryImageStable
  <2>1. last.name \in Ref /\ last.cluster = ClusterImage(last.name)
      BY DEF LastHeld
  <2>2. stripRegistry(last.name) \in Ref
      BY <2>1, StripAddress, RefAssumption
  <2>3. RegistryImage(last.cluster) = last.cluster
      BY <2>1, <2>2, Idempotent DEF ClusterImage
  <2>4. RegistryImage(RegistryImage(last.name)) = RegistryImage(last.name)
      BY <2>1, Idempotent
  <2>5. QED
      BY <2>3, <2>4 DEF RegistryImageStable
<1>2. QED
    BY <1>1, Held, PTL
=============================================================================
