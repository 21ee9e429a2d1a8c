------------------------------ MODULE ImageRef ------------------------------
(***************************************************************************)
(* Image references around the cluster's registry: PushImage and           *)
(* BuildAndPushImage tag and push an image from the host, and hand back    *)
(* the reference that manifests use; RegistryImage computes one by name.   *)
(*                                                                         *)
(* A reference is the sequence of its "/"-separated parts.  All that the   *)
(* code asks of a part is whether it can be a registry's address: whether  *)
(* it has a "." or a ":" or is "localhost".                                *)
(***************************************************************************)
EXTENDS Sequences, Integers

CONSTANTS
    Hosts,     \* parts that look like a registry's address
    Words,     \* parts that do not
    Address,   \* RegistryAddress: where the host reaches the registry
    Internal,  \* RegistryInternalAddress: where the cluster does
    Sources,   \* local images, by content
    Depth,     \* bound: parts of a name
    MaxPushes  \* bound: pushes

ASSUME RefAssumption ==
    /\ {Address, Internal} \subseteq Hosts
    /\ Hosts \cap Words = {}
    /\ Depth \in Nat /\ MaxPushes \in Nat

Part  == Hosts \cup Words
Ref   == Seq(Part) \ {<< >>}
Names == UNION {[1..k -> Part] : k \in 1..Depth}

VARIABLES
    registry,   \* repository -> the image last pushed to it
    last,       \* the last push: what was asked for and what it returned
    pushes      \* pushes so far

vars == <<registry, last, pushes>>

(* strings.SplitN(image, "/", 2): the first part goes if it is a host. *)
stripRegistry_Short(image) ==
    IF Len(image) = 2 /\ Head(image) \in Hosts THEN Tail(image) ELSE image

stripRegistry_Always(image) ==
    IF Len(image) >= 2 THEN Tail(image) ELSE image

stripRegistry(image) ==
    IF Len(image) >= 2 /\ Head(image) \in Hosts THEN Tail(image) ELSE image

RegistryImage_NoStrip(image) == <<Internal>> \o image

RegistryImage(image) == <<Internal>> \o stripRegistry(image)

(* The two references of pushPreparedImage. *)
HostImage(name)    == <<Address>> \o stripRegistry(name)
ClusterImage(name) == RegistryImage(stripRegistry(name))

(* A registry serves what follows its address. *)
Repository(ref) == Tail(ref)
Resolves(ref, source) ==
    /\ Repository(ref) \in DOMAIN registry
    /\ registry[Repository(ref)] = source

NoPush == [ok |-> FALSE]

Init == registry = << >> /\ last = NoPush /\ pushes = 0

Pushed(name, source) ==
    LET repo == Repository(HostImage(name))
    IN  [r \in DOMAIN registry \cup {repo} |->
            IF r = repo THEN source ELSE registry[r]]

Push(source, name) ==
    /\ registry' = Pushed(name, source)
    /\ last' = [ok |-> TRUE, source |-> source, name |-> name,
                cluster |-> ClusterImage(name)]

(* A push that fails may have stored the image. *)
PushFails(source, name) ==
    /\ registry' \in {registry, Pushed(name, source)}
    /\ last' = NoPush

Next ==
    /\ pushes < MaxPushes /\ pushes' = pushes + 1
    /\ \E source \in Sources, name \in Names :
          Push(source, name) \/ PushFails(source, name)

Spec == Init /\ [][Next]_vars

-----------------------------------------------------------------------------
(* The name of an image, used with RegistryImage as the README shows         *)
(* (kubernetes/README.md:137), pulls the image last pushed under that name.  *)
NamePulls == last.ok => Resolves(RegistryImage(last.name), last.source)

(* The reference a push returns pulls the image it pushed, for every name    *)
(* whose repository does not itself begin with what looks like a host.       *)
ReturnedPulls ==
    last.ok /\ (Len(stripRegistry(last.name)) > 1
                  => Head(stripRegistry(last.name)) \notin Hosts)
        => /\ Resolves(last.cluster, last.source)
           /\ last.cluster = RegistryImage(last.name)

(* "ClusterImage is the image reference Kubernetes manifests should use"     *)
(* (registry.go:33): it pulls the image that was pushed, whatever its name.  *)
ClusterImagePulls == last.ok => Resolves(last.cluster, last.source)

(* RegistryImage of a reference it returned is that reference, so that a     *)
(* manifest patched twice still names the same image.                        *)
RegistryImageStable ==
    last.ok => /\ RegistryImage(last.cluster) = last.cluster
               /\ RegistryImage(RegistryImage(last.name)) = RegistryImage(last.name)
=============================================================================
