----------------------------- MODULE ArgoStack -----------------------------
(***************************************************************************)
(* argocd.Stack and workflows.Stack: the same program with another install *)
(* manifest and other CRDs.  Create brings up a kubernetes.Cluster, notes  *)
(* which of the CRDs are already on it, installs Argo and applies the      *)
(* user's manifests; Cleanup undoes this and removes only the CRDs that    *)
(* were not there before.                                                  *)
(*                                                                         *)
(* The Cluster is one step per call, with the outcomes ClusterContract     *)
(* allows.  Its k3s keeps its objects in the container, or in a datastore  *)
(* that outlives it (WithK3sArgs); its own manifests may bring CRDs, too.  *)
(* Each CRD on the cluster is tagged with where it came from.              *)
(***************************************************************************)
EXTENDS Integers

CONSTANTS
    CRDs,         \* length of crdNames
    Manifests,    \* registered user manifests
    CleanupCRDs,  \* WithOwnedCRDCleanup was given
    ClearCRDs,    \* ... with beforeInstall
    MaxCreates    \* bound: calls of Create

ASSUME ArgoAssumption ==
    /\ {CRDs, Manifests, MaxCreates} \subseteq Nat
    /\ {CleanupCRDs, ClearCRDs} \subseteq BOOLEAN
    /\ ClearCRDs => CleanupCRDs

Names   == 1..CRDs
Origins == {"absent", "user", "leftover", "run"}

VARIABLES
    up,          \* the k3s container exists
    persistent,  \* its datastore outlives it
    brought,     \* CRDs among the cluster's own manifests
    store,       \* CRD -> where the one on the cluster came from
    applied      \* user manifests on the cluster

VARIABLES
    preexisting, \* s.preexisting
    op,          \* the last call: "new", "create" or "cleanup"
    pc,          \* "idle", or where the call stands
    err,         \* the call has met an error
    cancelled,   \* the caller's context is cancelled
    i            \* loop index of the call

VARIABLES
    recorded,    \* history: preexisting was filled for the cluster that is up
    misread,     \* history: CRDs that were there when their "get" failed
    undeleted,   \* history: CRDs of this run whose "delete" failed
    refused,     \* history: the k3s container could not be removed
    creates      \* Creates begun

world   == <<up, persistent, brought, store, applied>>
call    == <<op, pc, err, cancelled, i>>
history == <<recorded, misread, undeleted, refused, creates>>
vars    == <<world, preexisting, call, history>>

None == [c \in Names |-> "absent"]

Init ==
    /\ up = FALSE /\ persistent \in BOOLEAN /\ brought \in SUBSET Names
    /\ store \in IF persistent
                 THEN [Names -> {"absent", "user", "leftover"}] ELSE {None}
    /\ applied = {}
    /\ preexisting = [c \in Names |-> FALSE]
    /\ op = "new" /\ pc = "idle" /\ err = FALSE /\ cancelled = FALSE /\ i = 1
    /\ recorded = FALSE /\ misread = {} /\ undeleted = {} /\ refused = FALSE
    /\ creates = 0

-----------------------------------------------------------------------------
Running   == pc = "idle" /\ op = "create" /\ ~err
Reachable == up /\ ~cancelled   \* a kubectl call can succeed

(* What the last Create installed is a leftover to the next one. *)
BeginCreate ==
    /\ pc = "idle" /\ ~Running /\ creates < MaxCreates
    /\ op' = "create" /\ pc' = "cluster" /\ err' = FALSE /\ cancelled' = FALSE
    /\ store' = [c \in Names |-> IF store[c] = "run" THEN "leftover" ELSE store[c]]
    /\ undeleted' = {} /\ refused' = FALSE /\ creates' = creates + 1
    /\ UNCHANGED <<up, persistent, brought, applied, preexisting, i, recorded,
                   misread>>

BeginCleanup ==
    /\ pc = "idle" /\ op # "new"
    /\ op' = "cleanup" /\ pc' = "delete" /\ err' = FALSE /\ cancelled' = FALSE
    /\ i' = Manifests /\ refused' = FALSE
    /\ UNCHANGED <<world, preexisting, recorded, misread, undeleted, creates>>

Cancel ==
    /\ pc # "idle" /\ ~cancelled
    /\ cancelled' = TRUE
    /\ UNCHANGED <<world, preexisting, op, pc, err, i, history>>

-----------------------------------------------------------------------------
Goto(p) == pc' = p /\ UNCHANGED err

(* An error after the cluster is up goes to cluster.Cleanup. *)
Abort == pc' = "remove" /\ err' = TRUE

(* The cluster with its own manifests applied; and without its k3s. *)
Brought == [c \in Names |-> IF c \in brought THEN "user" ELSE store[c]]
Lost    == IF persistent THEN store ELSE None

(* cluster.Create.  When it fails it has released k3s or was refused; a k3s  *)
(* that an earlier Cleanup could not remove makes it fail.                   *)
CreateCluster ==
    /\ pc = "cluster"
    /\ i' = 1
    /\ \/ /\ ~up /\ ~cancelled
          /\ up' = TRUE /\ store' = Brought
          /\ Goto("record")
          /\ UNCHANGED <<applied, refused, recorded>>
       \/ /\ pc' = "idle" /\ err' = TRUE
          /\ up' \in BOOLEAN
          /\ store' \in IF up /\ up' THEN {store}
                        ELSE IF up' \/ persistent THEN {store, Brought}
                        ELSE {None}
          /\ applied' = IF up' \/ persistent THEN applied ELSE {}
          /\ recorded' = (recorded /\ up /\ up')
          /\ refused' = up'
    /\ UNCHANGED <<persistent, brought, preexisting, op, cancelled, misread,
                   undeleted, creates>>

(* "get crd" answers with an error both for a CRD that is not there and when *)
(* the call itself fails; either way the loop goes on.                       *)
Found_Cautious(found) == found \in BOOLEAN
Found(found) == found => Reachable /\ store[i] # "absent"

AfterRecord == IF CleanupCRDs /\ ClearCRDs THEN "clear" ELSE "install"

RecordCRDs ==
    /\ pc = "record"
    /\ \/ /\ i <= CRDs
          /\ \E found \in BOOLEAN :
                /\ Found(found)
                /\ preexisting' = [preexisting EXCEPT ![i] = found]
                /\ misread' = IF found \/ store[i] = "absent"
                              THEN misread \ {i} ELSE misread \cup {i}
          /\ i' = i + 1 /\ Goto(pc) /\ UNCHANGED recorded
       \/ /\ i > CRDs
          /\ i' = 1 /\ recorded' = TRUE /\ Goto(AfterRecord)
          /\ UNCHANGED <<preexisting, misread>>
    /\ UNCHANGED <<world, op, cancelled, undeleted, refused, creates>>

(* deleteOwnedCRDs, before the install and in Cleanup.  With a CRD go the    *)
(* objects of its kind; an error is dropped.                                 *)
Owned_All == TRUE
Owned     == ~preexisting[i]

DeleteOwnedCRD_StopsAtError(next) ==
    /\ \/ /\ i <= CRDs /\ (Owned => Reachable)
          /\ store' = IF Owned THEN [store EXCEPT ![i] = "absent"] ELSE store
          /\ undeleted' = undeleted \ {i}
          /\ i' = i + 1 /\ Goto(pc)
       \/ /\ i <= CRDs /\ Owned
          /\ undeleted' = undeleted \cup {i}
          /\ i' = 1 /\ Goto(next) /\ UNCHANGED store
       \/ /\ i > CRDs
          /\ i' = 1 /\ Goto(next) /\ UNCHANGED <<store, undeleted>>
    /\ UNCHANGED <<up, persistent, brought, preexisting, applied, op, cancelled,
                   recorded, misread, refused, creates>>

DeleteOwnedCRD(next) ==
    /\ \/ /\ i <= CRDs /\ Owned /\ Reachable
          /\ store' = [store EXCEPT ![i] = "absent"]
          /\ applied' \in SUBSET applied
          /\ undeleted' = undeleted \ {i}
          /\ i' = i + 1 /\ Goto(pc)
       \/ /\ i <= CRDs
          /\ undeleted' = IF Owned THEN undeleted \cup {i} ELSE undeleted \ {i}
          /\ i' = i + 1 /\ Goto(pc) /\ UNCHANGED <<store, applied>>
       \/ /\ i > CRDs
          /\ i' = 1 /\ Goto(next) /\ UNCHANGED <<store, applied, undeleted>>
    /\ UNCHANGED <<up, persistent, brought, preexisting, op, cancelled,
                   recorded, misread, refused, creates>>

ClearOwnedCRDs == pc = "clear" /\ DeleteOwnedCRD("install")

(* One "kubectl apply" of many objects, which may fail half-way. *)
Install ==
    /\ pc = "install"
    /\ \E done \in SUBSET Names :
          /\ done # {} => Reachable
          /\ store' = [c \in Names |->
                         IF c \in done /\ store[c] = "absent" THEN "run" ELSE store[c]]
          /\ \/ done = Names /\ Reachable /\ Goto("established")
             \/ Abort
    /\ UNCHANGED <<up, persistent, brought, applied, preexisting, op, cancelled,
                   i, history>>

WaitForCRDs ==
    /\ pc = "established"
    /\ \/ Reachable /\ (\A c \in Names : store[c] # "absent") /\ Goto("rollouts")
       \/ Abort
    /\ UNCHANGED <<world, preexisting, op, cancelled, i, history>>

(* A rollout list that fails, even for a cancelled context, ends this wait   *)
(* with nil (kubectl.go:121).                                                *)
WaitForRollouts ==
    /\ pc = "rollouts"
    /\ Goto("manifests") \/ Abort
    /\ UNCHANGED <<world, preexisting, op, cancelled, i, history>>

(* A manifest is a file, a URL or a directory of files: it may fail after    *)
(* some of it was applied.                                                   *)
More_OffByOne == i <= Manifests + 1
More          == i <= Manifests

ApplyUserManifest_IgnoresError ==
    /\ pc = "manifests"
    /\ \/ /\ More
          /\ applied' = applied \/ (Reachable /\ applied' = applied \cup {i})
          /\ i' = i + 1 /\ Goto(pc)
       \/ ~More /\ Goto("idle") /\ UNCHANGED <<applied, i>>
    /\ UNCHANGED <<up, persistent, brought, store, preexisting, op, cancelled,
                   history>>

ApplyUserManifest_Retries ==
    /\ pc = "manifests"
    /\ \/ /\ More /\ Reachable
          /\ applied' = applied \cup {i} /\ i' = i + 1 /\ Goto(pc)
       \/ More /\ Reachable /\ Goto(pc) /\ i' = 1 /\ UNCHANGED applied
       \/ More /\ Abort /\ UNCHANGED <<applied, i>>
       \/ ~More /\ Goto("idle") /\ UNCHANGED <<applied, i>>
    /\ UNCHANGED <<up, persistent, brought, store, preexisting, op, cancelled,
                   history>>

ApplyUserManifest ==
    /\ pc = "manifests"
    /\ \/ /\ More /\ Reachable
          /\ applied' = applied \cup {i} /\ i' = i + 1 /\ Goto(pc)
       \/ /\ More
          /\ applied' = applied \/ (Reachable /\ applied' = applied \cup {i})
          /\ Abort /\ UNCHANGED i
       \/ ~More /\ Goto("idle") /\ UNCHANGED <<applied, i>>
    /\ UNCHANGED <<up, persistent, brought, store, preexisting, op, cancelled,
                   history>>

-----------------------------------------------------------------------------
(* Cleanup.  Only the last step, cluster.Cleanup, can make it fail. *)

DeleteUserManifest ==
    /\ pc = "delete"
    /\ \/ /\ i > 0 /\ i' = i - 1 /\ Goto(pc)
          /\ \/ Reachable /\ applied' = applied \ {i}
             \/ UNCHANGED applied
       \/ /\ i = 0 /\ i' = 1 /\ UNCHANGED applied
          /\ Goto(IF CleanupCRDs THEN "deleteCRDs" ELSE "remove")
    /\ UNCHANGED <<up, persistent, brought, store, preexisting, op, cancelled,
                   history>>

DeleteOwnedCRDs == pc = "deleteCRDs" /\ DeleteOwnedCRD("remove")

(* cluster.Cleanup: nil means that k3s is gone; after an error it may be.    *)
(* The one that follows a failed Create runs under WithoutCancel and its     *)
(* error is dropped, Create returning the error that led to it.              *)
RemoveCluster_Caller ==
    /\ pc = "remove"
    /\ \/ ~cancelled /\ up' = FALSE /\ UNCHANGED <<err, refused>>
       \/ /\ err' = TRUE /\ up' \in {up, FALSE}
          /\ refused' = (refused \/ (up' /\ ~cancelled))
    /\ IF up' THEN UNCHANGED <<store, applied>>
              ELSE store' = Lost /\ applied' = IF persistent THEN applied ELSE {}
    /\ pc' = "idle"
    /\ UNCHANGED <<persistent, brought, preexisting, op, cancelled, i, recorded,
                   misread, undeleted, creates>>

RemoveCluster ==
    /\ pc = "remove"
    /\ \/ /\ op = "cleanup" => ~cancelled
          /\ up' = FALSE /\ UNCHANGED <<err, refused>>
       \/ /\ err' = TRUE /\ up' \in {up, FALSE}
          /\ refused' = (refused \/ up')
    /\ IF up' THEN UNCHANGED <<store, applied>>
              ELSE store' = Lost /\ applied' = IF persistent THEN applied ELSE {}
    /\ pc' = "idle"
    /\ UNCHANGED <<persistent, brought, preexisting, op, cancelled, i, recorded,
                   misread, undeleted, creates>>

-----------------------------------------------------------------------------
Create  == CreateCluster \/ RecordCRDs \/ ClearOwnedCRDs \/ Install
             \/ WaitForCRDs \/ WaitForRollouts \/ ApplyUserManifest
Cleanup == DeleteUserManifest \/ DeleteOwnedCRDs \/ RemoveCluster
Caller  == BeginCreate \/ BeginCleanup \/ Cancel
Next    == Create \/ Cleanup \/ Caller

Spec == Init /\ [][Next]_vars

(* A call runs on its own goroutine and each kubectl call it makes ends.     *)
FairSpec == Spec /\ WF_vars(Create \/ Cleanup)

-----------------------------------------------------------------------------
FlagsOK ==
    /\ {up, persistent, err, cancelled, recorded, refused} \subseteq BOOLEAN
    /\ op \in {"new", "create", "cleanup"}
    /\ pc \in {"idle", "cluster", "record", "clear", "install", "established",
               "rollouts", "manifests", "delete", "deleteCRDs", "remove"}

ObjectsOK ==
    /\ brought \subseteq Names /\ store \in [Names -> Origins]
    /\ preexisting \in [Names -> BOOLEAN]
    /\ misread \subseteq Names /\ undeleted \subseteq Names
    /\ applied \subseteq 1..Manifests

(* The values of the variables. *)
TypeOK == FlagsOK /\ ObjectsOK /\ i \in Nat /\ creates \in 0..MaxCreates

(* A CRD this run installed is never taken for one that was there before:    *)
(* the record is made before the install and outlives whatever happens       *)
(* between, so Cleanup still knows what it owns.                             *)
RecordTellsOwn ==
    \A c \in Names : store[c] = "run" => ~preexisting[c]

(* When Cleanup returns nil, no CRD of this run is left on a datastore that  *)
(* survives, unless its own delete failed: "Cleanup only removes CRDs that   *)
(* were created by this run" (argocd/README.md:31), and removes all of them. *)
OwnCRDsGone ==
    CleanupCRDs /\ pc = "idle" /\ op = "cleanup" /\ ~err
        => \A c \in Names : store[c] = "run" => c \in undeleted

(* A nil Create means every CRD is there, every user manifest was applied to *)
(* the very cluster that is up, and the record is that cluster's.            *)
ReadyMeansInstalled ==
    Running => /\ up /\ recorded
               /\ \A c \in Names : store[c] # "absent"
               /\ applied = 1..Manifests

(* A CRD that is the user's goes only with its cluster: the stack removes    *)
(* CRDs "only if they did not exist before" it started (argocd.go:121).  The *)
(* exceptions are those it does not know: the "get" of the CRD failed, which *)
(* reads as "not there" (argocd.go:275), or the Create that started this     *)
(* cluster failed before recordCRDs.                                         *)
UserCRDsKept ==
    [][ \A c \in Names :
          store[c] = "user" /\ store'[c] # "user"
             => c \in misread \/ ~recorded \/ ~(up' \/ persistent) ]_vars

(* "Those owned CRDs are also cleared before install to remove leftovers     *)
(* from previous failed runs" (argocd.go:122): when the install begins, a    *)
(* leftover is there only if its delete failed.                              *)
LeftoversCleared ==
    pc = "install" /\ ClearCRDs
        => \A c \in Names : store[c] = "leftover" => c \in undeleted

(* Every call returns. *)
CallsReturn == pc # "idle" ~> pc = "idle"
=============================================================================
