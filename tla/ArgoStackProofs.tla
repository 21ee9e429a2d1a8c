-------------------------- MODULE ArgoStackProofs --------------------------
(***************************************************************************)
(* What TLAPS proves of the Argo stacks, for every number of CRDs,         *)
(* manifests and calls, with and without the cleanup of owned CRDs, on     *)
(* clusters whose datastore outlives them and on those where it does not.  *)
(*                                                                         *)
(* Whether a CRD is the run's own is decided before the install and used   *)
(* at the other end of the object's life, maybe after another Create has   *)
(* decided it again.  Noted says what the record means at every point      *)
(* between, also half-way through the loop that makes it.                  *)
(***************************************************************************)
EXTENDS MCArgoStack, TLAPS

BeforeInstall == {"cluster", "record", "clear", "install"}
AfterRecords  == {"clear", "install", "established", "rollouts", "manifests"}
UpPoints      == {"record"} \cup AfterRecords
CreatePoints  == {"cluster"} \cup UpPoints

(* What the program counter says of the call. *)
CallShape ==
    /\ op = "new" => pc = "idle" /\ ~up
    /\ pc \in CreatePoints => op = "create" /\ ~err
    /\ pc \in {"delete", "deleteCRDs"} => op = "cleanup"
    /\ pc = "remove" /\ op = "create" => err
    /\ pc \in UpPoints \cup {"deleteCRDs"} => i >= 1

(* Where k3s is up, and where only a refused removal explains it. *)
Standing ==
    /\ pc \in UpPoints \/ Running => up
    /\ pc = "idle" /\ op = "create" /\ err => (up => refused)
    /\ pc = "idle" /\ op = "cleanup" /\ ~err => ~up

(* A CRD that was found is there until the install, and until then there is  *)
(* none of this run.                                                         *)
Present(c) == preexisting[c] => store[c] # "absent"

FoundKept ==
    /\ pc \in BeforeInstall => \A c \in Names : store[c] # "run"
    /\ pc = "record" => \A c \in Names : c < i => Present(c)
    /\ pc \in {"clear", "install"} => \A c \in Names : Present(c)

(* A CRD of the user's is in the record, or is known to have been misread.   *)
Known(c) == c \in brought \/ store[c] = "user" => preexisting[c] \/ c \in misread

Noted ==
    /\ pc = "record" => \A c \in Names : (c \in brought => store[c] = "user")
                                           /\ (c < i => Known(c))
    /\ recorded => \A c \in Names : Known(c)
    /\ pc \in AfterRecords \/ Running => recorded

(* How far deleteOwnedCRDs of a Cleanup has come. *)
Deleted(c) == store[c] = "run" => c \in undeleted

Undone ==
    CleanupCRDs
        => /\ pc = "deleteCRDs" => \A c \in Names : c < i => Deleted(c)
           /\ op = "cleanup" /\ pc \in {"remove", "idle"} => \A c \in Names : Deleted(c)

(* What the second half of Create has put on the cluster. *)
Installed ==
    /\ pc \in {"rollouts", "manifests"} \/ Running
         => \A c \in Names : store[c] # "absent"
    /\ pc \in {"install", "established", "rollouts"} => i = 1
    /\ pc = "manifests" => \A m \in 1..Manifests : m < i => m \in applied
    /\ Running => \A m \in 1..Manifests : m \in applied

(* The inductive invariant. *)
Safe ==
    /\ CallShape /\ Standing /\ FoundKept /\ Noted /\ Undone /\ Installed
    /\ RecordTellsOwn

IInv == TypeOK /\ Safe

-----------------------------------------------------------------------------
(* TypeOK in two parts: what a call is, and what is on the cluster. *)
ShapeOK ==
    /\ up \in BOOLEAN /\ persistent \in BOOLEAN /\ err \in BOOLEAN
    /\ cancelled \in BOOLEAN /\ recorded \in BOOLEAN /\ refused \in BOOLEAN
    /\ op \in {"new", "create", "cleanup"}
    /\ pc \in {"idle", "cluster", "record", "clear", "install", "established",
               "rollouts", "manifests", "delete", "deleteCRDs", "remove"}
    /\ i \in Nat /\ creates \in 0..MaxCreates

LEMMA TypeParts == TypeOK <=> ShapeOK /\ ObjectsOK
BY DEF TypeOK, ShapeOK, FlagsOK

LEMMA ParametersOK ==
    /\ CRDs \in Nat /\ Manifests \in Nat /\ MaxCreates \in Nat
    /\ CleanupCRDs \in BOOLEAN /\ ClearCRDs \in BOOLEAN
BY ArgoAssumption DEF ArgoAssumption

-----------------------------------------------------------------------------
(* The initial state satisfies the invariant. *)
LEMMA InitIInv == Init => IInv
<1> SUFFICES ASSUME Init PROVE IInv
    OBVIOUS
<1> USE ParametersOK DEF Init, Running, BeforeInstall, AfterRecords, UpPoints, CreatePoints
<1>1. store \in [Names -> Origins]
    BY DEF None, Origins
<1>2. TypeOK
  <2>1. ShapeOK
    <3>1. creates \in 0..MaxCreates /\ i \in Nat
      OBVIOUS
    <3>2. QED
      BY <3>1 DEF ShapeOK
  <2>2. ObjectsOK
    BY <1>1 DEF ObjectsOK
  <2>3. QED
    BY <2>1, <2>2, TypeParts
<1>3. \A c \in Names : store[c] # "run" /\ ~preexisting[c]
    BY DEF None
<1>4. QED
    BY <1>2, <1>3
    DEF IInv, Safe, CallShape, Standing, FoundKept, Noted, Undone, Installed,
       RecordTellsOwn

(* The invariant is preserved by a step of Create. *)
LEMMA CreateStep == IInv /\ Create => IInv'
<1> SUFFICES ASSUME IInv, Create PROVE IInv'
    OBVIOUS
<1> USE ParametersOK
    DEF BeforeInstall, AfterRecords, UpPoints, CreatePoints, Running, Names, Goto, Abort,
        world, history
<1>a. /\ CallShape /\ Standing /\ FoundKept /\ Noted /\ Undone /\ Installed
      /\ RecordTellsOwn
    BY DEF IInv, Safe
<1>b. ShapeOK /\ ObjectsOK
    BY TypeParts DEF IInv
<1>1. CASE CreateCluster
  <2>1. ShapeOK'
    BY <1>a, <1>b, <1>1 DEF CreateCluster, Brought, None, ShapeOK
  <2>2. ObjectsOK'
    BY <1>a, <1>b, <1>1
    DEF CreateCluster, Brought, None, ShapeOK, ObjectsOK, CallShape, Origins
  <2>3. CallShape' /\ Standing'
    BY <1>a, <1>b, <1>1
    DEF CreateCluster, Brought, None, ShapeOK, ObjectsOK, CallShape, Standing
  <2>4. FoundKept'
    BY <1>a, <1>b, <1>1
    DEF CreateCluster, Brought, None, ShapeOK, ObjectsOK, CallShape, FoundKept,
        Present, RecordTellsOwn
  <2>5. Noted'
    BY <1>a, <1>b, <1>1
    DEF CreateCluster, Brought, None, ShapeOK, ObjectsOK, CallShape, Noted, Known
  <2>6. Undone'
    BY <1>a, <1>b, <1>1
    DEF CreateCluster, Brought, None, ShapeOK, ObjectsOK, CallShape, Undone,
        Deleted, RecordTellsOwn
  <2>7. Installed'
    BY <1>a, <1>b, <1>1
    DEF CreateCluster, Brought, None, ShapeOK, ObjectsOK, CallShape, Installed,
        Standing
  <2>8. RecordTellsOwn'
    BY <1>a, <1>b, <1>1
    DEF CreateCluster, Brought, None, ShapeOK, ObjectsOK, CallShape, FoundKept,
        Present, RecordTellsOwn
  <2>9. QED
    BY <2>1, <2>2, <2>3, <2>4, <2>5, <2>6, <2>7, <2>8
    DEF IInv, Safe, TypeOK, ShapeOK, FlagsOK
<1>2. CASE RecordCRDs
  <2>1. ShapeOK'
    <3>1. UNCHANGED <<up, persistent, err, cancelled, refused, op, creates>>
      BY <1>2 DEF RecordCRDs
    <3>2. (i' = i + 1 \/ i' = 1) /\ (recorded' = recorded \/ recorded' = TRUE)
      BY <1>2 DEF RecordCRDs
    <3>3. pc' \in {"record", "clear", "install"}
      BY <1>2 DEF RecordCRDs, AfterRecord
    <3>4. i' \in Nat
      BY <1>b, <3>2 DEF ShapeOK
    <3>5. recorded' \in BOOLEAN
      BY <1>b, <3>2, Zenon DEF ShapeOK
    <3>6. QED
      BY <1>b, <3>1, <3>3, <3>4, <3>5 DEF ShapeOK
  <2>2. ObjectsOK'
    <3>1. CASE i <= CRDs
      <4>1. i \in Names
        BY <1>a, <1>b, <1>2, <3>1 DEF RecordCRDs, ShapeOK, CallShape
      <4>2. preexisting' \in [Names -> BOOLEAN] /\ misread' \subseteq Names
        BY <1>b, <1>2, <3>1, <4>1 DEF RecordCRDs, ObjectsOK
      <4>3. QED
        BY <1>b, <1>2, <4>2 DEF RecordCRDs, ObjectsOK
    <3>2. CASE ~(i <= CRDs)
      BY <1>b, <1>2, <3>2 DEF RecordCRDs, ObjectsOK
    <3>3. QED
      BY <3>1, <3>2
  <2>3. CallShape' /\ Standing'
    BY <1>a, <1>b, <1>2
    DEF RecordCRDs, Reachable, Found, AfterRecord, ShapeOK, ObjectsOK, CallShape,
        Standing
  <2>4. FoundKept'
    BY <1>a, <1>b, <1>2
    DEF RecordCRDs, Reachable, Found, AfterRecord, ShapeOK, ObjectsOK, CallShape,
        FoundKept, Present, RecordTellsOwn
  <2>5. Noted'
    BY <1>a, <1>b, <1>2
    DEF RecordCRDs, Reachable, Found, AfterRecord, ShapeOK, ObjectsOK, CallShape,
        Noted, Known
  <2>6. Undone'
    BY <1>a, <1>b, <1>2
    DEF RecordCRDs, Reachable, Found, AfterRecord, ShapeOK, ObjectsOK, CallShape,
        Undone, Deleted, RecordTellsOwn
  <2>7. Installed'
    BY <1>a, <1>b, <1>2
    DEF RecordCRDs, Reachable, Found, AfterRecord, ShapeOK, ObjectsOK, CallShape,
        Installed, Standing
  <2>8. RecordTellsOwn'
    BY <1>a, <1>b, <1>2
    DEF RecordCRDs, Reachable, Found, AfterRecord, ShapeOK, ObjectsOK, CallShape,
        FoundKept, Present, RecordTellsOwn
  <2>9. QED
    BY <2>1, <2>2, <2>3, <2>4, <2>5, <2>6, <2>7, <2>8
    DEF IInv, Safe, TypeOK, ShapeOK, FlagsOK
<1>3. CASE ClearOwnedCRDs
  <2>1. ShapeOK'
    BY <1>a, <1>b, <1>3 DEF ClearOwnedCRDs, DeleteOwnedCRD, Owned, Reachable, ShapeOK
  <2>2. ObjectsOK'
    <3>1. /\ store' = store \/ (i \in Names /\ store' = [store EXCEPT ![i] = "absent"])
          /\ applied' \subseteq applied
          /\ undeleted' = undeleted \/ undeleted' = undeleted \ {i}
               \/ (i \in Names /\ undeleted' = undeleted \cup {i})
          /\ UNCHANGED <<brought, preexisting, misread>>
      BY <1>a, <1>b, <1>3 DEF ClearOwnedCRDs, DeleteOwnedCRD, ShapeOK, CallShape
    <3>2. store' \in [Names -> Origins]
      BY <1>b, <3>1 DEF ObjectsOK, Origins
    <3>3. QED
      BY <1>b, <3>1, <3>2 DEF ObjectsOK
  <2>3. CallShape' /\ Standing'
    BY <1>a, <1>b, <1>3
    DEF ClearOwnedCRDs, DeleteOwnedCRD, Owned, Reachable, ShapeOK, ObjectsOK,
        CallShape, Standing
  <2>4. FoundKept'
    BY <1>a, <1>b, <1>3
    DEF ClearOwnedCRDs, DeleteOwnedCRD, Owned, Reachable, ShapeOK, ObjectsOK,
        CallShape, FoundKept, Present, RecordTellsOwn
  <2>5. Noted'
    BY <1>a, <1>b, <1>3
    DEF ClearOwnedCRDs, DeleteOwnedCRD, Owned, Reachable, ShapeOK, ObjectsOK,
        CallShape, Noted, Known
  <2>6. Undone'
    BY <1>a, <1>b, <1>3
    DEF ClearOwnedCRDs, DeleteOwnedCRD, Owned, Reachable, ShapeOK, ObjectsOK,
        CallShape, Undone, Deleted, RecordTellsOwn
  <2>7. Installed'
    BY <1>a, <1>b, <1>3
    DEF ClearOwnedCRDs, DeleteOwnedCRD, Owned, Reachable, ShapeOK, ObjectsOK,
        CallShape, Installed, Standing
  <2>8. RecordTellsOwn'
    BY <1>a, <1>b, <1>3
    DEF ClearOwnedCRDs, DeleteOwnedCRD, Owned, Reachable, ShapeOK, ObjectsOK,
        CallShape, FoundKept, Present, RecordTellsOwn
  <2>9. QED
    BY <2>1, <2>2, <2>3, <2>4, <2>5, <2>6, <2>7, <2>8
    DEF IInv, Safe, TypeOK, ShapeOK, FlagsOK
<1>4. CASE Install
  <2>1. ShapeOK'
    BY <1>a, <1>b, <1>4 DEF Install, Reachable, ShapeOK
  <2>2. ObjectsOK'
    BY <1>a, <1>b, <1>4 DEF Install, Reachable, ShapeOK, ObjectsOK, CallShape, Origins
  <2>3. CallShape' /\ Standing'
    BY <1>a, <1>b, <1>4 DEF Install, Reachable, ShapeOK, ObjectsOK, CallShape, Standing
  <2>4. FoundKept'
    BY <1>a, <1>b, <1>4
    DEF Install, Reachable, ShapeOK, ObjectsOK, CallShape, FoundKept, Present,
        RecordTellsOwn
  <2>5. Noted'
    BY <1>a, <1>b, <1>4
    DEF Install, Reachable, ShapeOK, ObjectsOK, CallShape, Noted, Known
  <2>6. Undone'
    BY <1>a, <1>b, <1>4
    DEF Install, Reachable, ShapeOK, ObjectsOK, CallShape, Undone, Deleted,
        RecordTellsOwn
  <2>7. Installed'
    BY <1>a, <1>b, <1>4
    DEF Install, Reachable, ShapeOK, ObjectsOK, CallShape, Installed, Standing
  <2>8. RecordTellsOwn'
    BY <1>a, <1>b, <1>4
    DEF Install, Reachable, ShapeOK, ObjectsOK, CallShape, FoundKept, Present,
        RecordTellsOwn
  <2>9. QED
    BY <2>1, <2>2, <2>3, <2>4, <2>5, <2>6, <2>7, <2>8
    DEF IInv, Safe, TypeOK, ShapeOK, FlagsOK
<1>5. CASE WaitForCRDs
  <2>1. ShapeOK'
    BY <1>a, <1>b, <1>5 DEF WaitForCRDs, Reachable, ShapeOK
  <2>2. ObjectsOK'
    BY <1>a, <1>b, <1>5
    DEF WaitForCRDs, Reachable, ShapeOK, ObjectsOK, CallShape, Origins
  <2>3. CallShape' /\ Standing'
    BY <1>a, <1>b, <1>5
    DEF WaitForCRDs, Reachable, ShapeOK, ObjectsOK, CallShape, Standing
  <2>4. FoundKept'
    BY <1>a, <1>b, <1>5
    DEF WaitForCRDs, Reachable, ShapeOK, ObjectsOK, CallShape, FoundKept, Present,
        RecordTellsOwn
  <2>5. Noted'
    BY <1>a, <1>b, <1>5
    DEF WaitForCRDs, Reachable, ShapeOK, ObjectsOK, CallShape, Noted, Known
  <2>6. Undone'
    BY <1>a, <1>b, <1>5
    DEF WaitForCRDs, Reachable, ShapeOK, ObjectsOK, CallShape, Undone, Deleted,
        RecordTellsOwn
  <2>7. Installed'
    BY <1>a, <1>b, <1>5
    DEF WaitForCRDs, Reachable, ShapeOK, ObjectsOK, CallShape, Installed, Standing
  <2>8. RecordTellsOwn'
    BY <1>a, <1>b, <1>5
    DEF WaitForCRDs, Reachable, ShapeOK, ObjectsOK, CallShape, FoundKept, Present,
        RecordTellsOwn
  <2>9. QED
    BY <2>1, <2>2, <2>3, <2>4, <2>5, <2>6, <2>7, <2>8
    DEF IInv, Safe, TypeOK, ShapeOK, FlagsOK
<1>6. CASE WaitForRollouts
  <2>1. ShapeOK'
    BY <1>a, <1>b, <1>6 DEF WaitForRollouts, ShapeOK
  <2>2. ObjectsOK'
    BY <1>a, <1>b, <1>6 DEF WaitForRollouts, ShapeOK, ObjectsOK, CallShape, Origins
  <2>3. CallShape' /\ Standing'
    BY <1>a, <1>b, <1>6 DEF WaitForRollouts, ShapeOK, ObjectsOK, CallShape, Standing
  <2>4. FoundKept'
    BY <1>a, <1>b, <1>6
    DEF WaitForRollouts, ShapeOK, ObjectsOK, CallShape, FoundKept, Present,
        RecordTellsOwn
  <2>5. Noted'
    BY <1>a, <1>b, <1>6 DEF WaitForRollouts, ShapeOK, ObjectsOK, CallShape, Noted, Known
  <2>6. Undone'
    BY <1>a, <1>b, <1>6
    DEF WaitForRollouts, ShapeOK, ObjectsOK, CallShape, Undone, Deleted,
        RecordTellsOwn
  <2>7. Installed'
    BY <1>a, <1>b, <1>6
    DEF WaitForRollouts, ShapeOK, ObjectsOK, CallShape, Installed, Standing
  <2>8. RecordTellsOwn'
    BY <1>a, <1>b, <1>6
    DEF WaitForRollouts, ShapeOK, ObjectsOK, CallShape, FoundKept, Present,
        RecordTellsOwn
  <2>9. QED
    BY <2>1, <2>2, <2>3, <2>4, <2>5, <2>6, <2>7, <2>8
    DEF IInv, Safe, TypeOK, ShapeOK, FlagsOK
<1>7. CASE ApplyUserManifest
  <2>1. ShapeOK'
    <3>1. UNCHANGED <<up, persistent, cancelled, recorded, refused, op, creates>>
      BY <1>7 DEF ApplyUserManifest
    <3>2. i' = i + 1 \/ i' = i
      BY <1>7 DEF ApplyUserManifest
    <3>3. (err' = err \/ err' = TRUE) /\ pc' \in {"manifests", "remove", "idle"}
      BY <1>7 DEF ApplyUserManifest
    <3>4. i' \in Nat
      BY <1>b, <3>2 DEF ShapeOK
    <3>5. err' \in BOOLEAN
      BY <1>b, <3>3, Zenon DEF ShapeOK
    <3>6. QED
      BY <1>b, <3>1, <3>3, <3>4, <3>5 DEF ShapeOK
  <2>2. ObjectsOK'
    <3>1. applied' = applied \/ (i \in 1..Manifests /\ applied' = applied \cup {i})
      BY <1>a, <1>b, <1>7 DEF ApplyUserManifest, More, ShapeOK, CallShape
    <3>2. UNCHANGED <<brought, store, preexisting, misread, undeleted>>
      BY <1>7 DEF ApplyUserManifest
    <3>3. QED
      BY <1>b, <3>1, <3>2 DEF ObjectsOK
  <2>3. CallShape' /\ Standing'
    BY <1>a, <1>b, <1>7
    DEF ApplyUserManifest, Reachable, More, ShapeOK, ObjectsOK, CallShape, Standing
  <2>4. FoundKept'
    BY <1>a, <1>b, <1>7
    DEF ApplyUserManifest, Reachable, More, ShapeOK, ObjectsOK, CallShape,
        FoundKept, Present, RecordTellsOwn
  <2>5. Noted'
    BY <1>a, <1>b, <1>7
    DEF ApplyUserManifest, Reachable, More, ShapeOK, ObjectsOK, CallShape, Noted,
        Known
  <2>6. Undone'
    BY <1>a, <1>b, <1>7
    DEF ApplyUserManifest, Reachable, More, ShapeOK, ObjectsOK, CallShape, Undone,
        Deleted, RecordTellsOwn
  <2>7. Installed'
    BY <1>a, <1>b, <1>7
    DEF ApplyUserManifest, Reachable, More, ShapeOK, ObjectsOK, CallShape,
        Installed, Standing
  <2>8. RecordTellsOwn'
    BY <1>a, <1>b, <1>7
    DEF ApplyUserManifest, Reachable, More, ShapeOK, ObjectsOK, CallShape,
        FoundKept, Present, RecordTellsOwn
  <2>9. QED
    BY <2>1, <2>2, <2>3, <2>4, <2>5, <2>6, <2>7, <2>8
    DEF IInv, Safe, TypeOK, ShapeOK, FlagsOK
<1>8. QED
    BY <1>1, <1>2, <1>3, <1>4, <1>5, <1>6, <1>7 DEF Create

(* The invariant is preserved by a step of Cleanup, or the release after a failed Create. *)
LEMMA CleanupStep == IInv /\ Cleanup => IInv'
<1> SUFFICES ASSUME IInv, Cleanup PROVE IInv'
    OBVIOUS
<1> USE ParametersOK
    DEF BeforeInstall, AfterRecords, UpPoints, CreatePoints, Running, Names, Goto, Abort,
        world, history
<1>a. /\ CallShape /\ Standing /\ FoundKept /\ Noted /\ Undone /\ Installed
      /\ RecordTellsOwn
    BY DEF IInv, Safe
<1>b. ShapeOK /\ ObjectsOK
    BY TypeParts DEF IInv
<1>1. CASE DeleteUserManifest
  <2>1. ShapeOK'
    BY <1>a, <1>b, <1>1 DEF DeleteUserManifest, Reachable, ShapeOK
  <2>2. ObjectsOK'
    BY <1>a, <1>b, <1>1
    DEF DeleteUserManifest, Reachable, ShapeOK, ObjectsOK, CallShape, Origins
  <2>3. CallShape' /\ Standing'
    BY <1>a, <1>b, <1>1
    DEF DeleteUserManifest, Reachable, ShapeOK, ObjectsOK, CallShape, Standing
  <2>4. FoundKept'
    BY <1>a, <1>b, <1>1
    DEF DeleteUserManifest, Reachable, ShapeOK, ObjectsOK, CallShape, FoundKept,
        Present, RecordTellsOwn
  <2>5. Noted'
    BY <1>a, <1>b, <1>1
    DEF DeleteUserManifest, Reachable, ShapeOK, ObjectsOK, CallShape, Noted, Known
  <2>6. Undone'
    BY <1>a, <1>b, <1>1
    DEF DeleteUserManifest, Reachable, ShapeOK, ObjectsOK, CallShape, Undone,
        Deleted, RecordTellsOwn
  <2>7. Installed'
    BY <1>a, <1>b, <1>1
    DEF DeleteUserManifest, Reachable, ShapeOK, ObjectsOK, CallShape, Installed,
        Standing
  <2>8. RecordTellsOwn'
    BY <1>a, <1>b, <1>1
    DEF DeleteUserManifest, Reachable, ShapeOK, ObjectsOK, CallShape, FoundKept,
        Present, RecordTellsOwn
  <2>9. QED
    BY <2>1, <2>2, <2>3, <2>4, <2>5, <2>6, <2>7, <2>8
    DEF IInv, Safe, TypeOK, ShapeOK, FlagsOK
<1>2. CASE DeleteOwnedCRDs
  <2>1. ShapeOK'
    BY <1>a, <1>b, <1>2 DEF DeleteOwnedCRDs, DeleteOwnedCRD, Owned, Reachable, ShapeOK
  <2>2. ObjectsOK'
    <3>1. /\ store' = store \/ (i \in Names /\ store' = [store EXCEPT ![i] = "absent"])
          /\ applied' \subseteq applied
          /\ undeleted' = undeleted \/ undeleted' = undeleted \ {i}
               \/ (i \in Names /\ undeleted' = undeleted \cup {i})
          /\ UNCHANGED <<brought, preexisting, misread>>
      BY <1>a, <1>b, <1>2 DEF DeleteOwnedCRDs, DeleteOwnedCRD, ShapeOK, CallShape
    <3>2. store' \in [Names -> Origins]
      BY <1>b, <3>1 DEF ObjectsOK, Origins
    <3>3. QED
      BY <1>b, <3>1, <3>2 DEF ObjectsOK
  <2>3. CallShape' /\ Standing'
    BY <1>a, <1>b, <1>2
    DEF DeleteOwnedCRDs, DeleteOwnedCRD, Owned, Reachable, ShapeOK, ObjectsOK,
        CallShape, Standing
  <2>4. FoundKept'
    BY <1>a, <1>b, <1>2
    DEF DeleteOwnedCRDs, DeleteOwnedCRD, Owned, Reachable, ShapeOK, ObjectsOK,
        CallShape, FoundKept, Present, RecordTellsOwn
  <2>5. Noted'
    BY <1>a, <1>b, <1>2
    DEF DeleteOwnedCRDs, DeleteOwnedCRD, Owned, Reachable, ShapeOK, ObjectsOK,
        CallShape, Noted, Known
  <2>6. Undone'
    BY <1>a, <1>b, <1>2
    DEF DeleteOwnedCRDs, DeleteOwnedCRD, Owned, Reachable, ShapeOK, ObjectsOK,
        CallShape, Undone, Deleted, RecordTellsOwn
  <2>7. Installed'
    BY <1>a, <1>b, <1>2
    DEF DeleteOwnedCRDs, DeleteOwnedCRD, Owned, Reachable, ShapeOK, ObjectsOK,
        CallShape, Installed, Standing
  <2>8. RecordTellsOwn'
    BY <1>a, <1>b, <1>2
    DEF DeleteOwnedCRDs, DeleteOwnedCRD, Owned, Reachable, ShapeOK, ObjectsOK,
        CallShape, FoundKept, Present, RecordTellsOwn
  <2>9. QED
    BY <2>1, <2>2, <2>3, <2>4, <2>5, <2>6, <2>7, <2>8
    DEF IInv, Safe, TypeOK, ShapeOK, FlagsOK
<1>3. CASE RemoveCluster
  <2>1. ShapeOK'
    BY <1>a, <1>b, <1>3 DEF RemoveCluster, Lost, None, ShapeOK
  <2>2. ObjectsOK'
    BY <1>a, <1>b, <1>3
    DEF RemoveCluster, Lost, None, ShapeOK, ObjectsOK, CallShape, Origins
  <2>3. CallShape' /\ Standing'
    <3>1. /\ pc' = "idle" /\ op' = op /\ pc = "remove"
          /\ err' \/ (~up' /\ err' = err)
          /\ up' => refused'
      BY <1>b, <1>3 DEF RemoveCluster, ShapeOK
    <3>2. op # "new" /\ (op = "create" => err')
      BY <1>a, <1>b, <1>3, <3>1 DEF RemoveCluster, CallShape
    <3>3. QED
      BY <3>1, <3>2 DEF CallShape, Standing
  <2>4. FoundKept'
    BY <1>a, <1>b, <1>3
    DEF RemoveCluster, Lost, None, ShapeOK, ObjectsOK, CallShape, FoundKept,
        Present, RecordTellsOwn
  <2>5. Noted'
    <3>1. UNCHANGED <<recorded, brought, preexisting, misread>> /\ pc' = "idle"
          /\ op' = op /\ (err' = err \/ err' = TRUE) /\ pc = "remove"
      BY <1>3 DEF RemoveCluster
    <3>2. \A c \in Names : store'[c] = "user" => store[c] = "user"
      BY <1>3 DEF RemoveCluster, Lost, None
    <3>3. ~Running'
      BY <1>a, <3>1 DEF CallShape
    <3>4. QED
      BY <1>a, <3>1, <3>2, <3>3 DEF Noted, Known
  <2>6. Undone'
    BY <1>a, <1>b, <1>3
    DEF RemoveCluster, Lost, None, ShapeOK, ObjectsOK, CallShape, Undone, Deleted,
        RecordTellsOwn
  <2>7. Installed'
    <3>1. pc = "remove" /\ pc' = "idle" /\ op' = op /\ (err' = err \/ err' = TRUE)
      BY <1>3 DEF RemoveCluster
    <3>2. ~Running'
      BY <1>a, <3>1 DEF CallShape
    <3>3. QED
      BY <3>1, <3>2 DEF Installed
  <2>8. RecordTellsOwn'
    BY <1>a, <1>b, <1>3
    DEF RemoveCluster, Lost, None, ShapeOK, ObjectsOK, CallShape, FoundKept,
        Present, RecordTellsOwn
  <2>9. QED
    BY <2>1, <2>2, <2>3, <2>4, <2>5, <2>6, <2>7, <2>8
    DEF IInv, Safe, TypeOK, ShapeOK, FlagsOK
<1>4. QED
    BY <1>1, <1>2, <1>3 DEF Cleanup

(* The invariant is preserved by a step of the caller. *)
LEMMA CallerStep == IInv /\ Caller => IInv'
<1> SUFFICES ASSUME IInv, Caller PROVE IInv'
    OBVIOUS
<1> USE ParametersOK
    DEF BeforeInstall, AfterRecords, UpPoints, CreatePoints, Running, Names, Goto, Abort,
        world, history
<1>a. /\ CallShape /\ Standing /\ FoundKept /\ Noted /\ Undone /\ Installed
      /\ RecordTellsOwn
    BY DEF IInv, Safe
<1>b. ShapeOK /\ ObjectsOK
    BY TypeParts DEF IInv
<1>1. CASE BeginCreate
  <2>1. ShapeOK'
    <3>1. creates' \in 0..MaxCreates
      BY <1>b, <1>1 DEF BeginCreate, ShapeOK
    <3>2. QED
      BY <1>b, <1>1, <3>1 DEF BeginCreate, ShapeOK
  <2>2. ObjectsOK'
    BY <1>a, <1>b, <1>1 DEF BeginCreate, ShapeOK, ObjectsOK, CallShape, Origins
  <2>3. CallShape' /\ Standing'
    BY <1>a, <1>b, <1>1 DEF BeginCreate, ShapeOK, ObjectsOK, CallShape, Standing
  <2>4. FoundKept'
    BY <1>a, <1>b, <1>1
    DEF BeginCreate, ShapeOK, ObjectsOK, CallShape, FoundKept, Present,
        RecordTellsOwn
  <2>5. Noted'
    BY <1>a, <1>b, <1>1 DEF BeginCreate, ShapeOK, ObjectsOK, CallShape, Noted, Known
  <2>6. Undone'
    BY <1>a, <1>b, <1>1
    DEF BeginCreate, ShapeOK, ObjectsOK, CallShape, Undone, Deleted, RecordTellsOwn
  <2>7. Installed'
    BY <1>a, <1>b, <1>1
    DEF BeginCreate, ShapeOK, ObjectsOK, CallShape, Installed, Standing
  <2>8. RecordTellsOwn'
    BY <1>a, <1>b, <1>1
    DEF BeginCreate, ShapeOK, ObjectsOK, CallShape, FoundKept, Present,
        RecordTellsOwn
  <2>9. QED
    BY <2>1, <2>2, <2>3, <2>4, <2>5, <2>6, <2>7, <2>8
    DEF IInv, Safe, TypeOK, ShapeOK, FlagsOK
<1>2. CASE BeginCleanup
  <2>1. ShapeOK'
    BY <1>a, <1>b, <1>2 DEF BeginCleanup, ShapeOK
  <2>2. ObjectsOK'
    BY <1>a, <1>b, <1>2 DEF BeginCleanup, ShapeOK, ObjectsOK, CallShape, Origins
  <2>3. CallShape' /\ Standing'
    BY <1>a, <1>b, <1>2 DEF BeginCleanup, ShapeOK, ObjectsOK, CallShape, Standing
  <2>4. FoundKept'
    BY <1>a, <1>b, <1>2
    DEF BeginCleanup, ShapeOK, ObjectsOK, CallShape, FoundKept, Present,
        RecordTellsOwn
  <2>5. Noted'
    BY <1>a, <1>b, <1>2 DEF BeginCleanup, ShapeOK, ObjectsOK, CallShape, Noted, Known
  <2>6. Undone'
    BY <1>a, <1>b, <1>2
    DEF BeginCleanup, ShapeOK, ObjectsOK, CallShape, Undone, Deleted, RecordTellsOwn
  <2>7. Installed'
    BY <1>a, <1>b, <1>2
    DEF BeginCleanup, ShapeOK, ObjectsOK, CallShape, Installed, Standing
  <2>8. RecordTellsOwn'
    BY <1>a, <1>b, <1>2
    DEF BeginCleanup, ShapeOK, ObjectsOK, CallShape, FoundKept, Present,
        RecordTellsOwn
  <2>9. QED
    BY <2>1, <2>2, <2>3, <2>4, <2>5, <2>6, <2>7, <2>8
    DEF IInv, Safe, TypeOK, ShapeOK, FlagsOK
<1>3. CASE Cancel
  <2>1. ShapeOK'
    BY <1>a, <1>b, <1>3 DEF Cancel, ShapeOK
  <2>2. ObjectsOK'
    BY <1>a, <1>b, <1>3 DEF Cancel, ShapeOK, ObjectsOK, CallShape, Origins
  <2>3. CallShape' /\ Standing'
    BY <1>a, <1>b, <1>3 DEF Cancel, ShapeOK, ObjectsOK, CallShape, Standing
  <2>4. FoundKept'
    BY <1>a, <1>b, <1>3
    DEF Cancel, ShapeOK, ObjectsOK, CallShape, FoundKept, Present, RecordTellsOwn
  <2>5. Noted'
    BY <1>a, <1>b, <1>3 DEF Cancel, ShapeOK, ObjectsOK, CallShape, Noted, Known
  <2>6. Undone'
    BY <1>a, <1>b, <1>3
    DEF Cancel, ShapeOK, ObjectsOK, CallShape, Undone, Deleted, RecordTellsOwn
  <2>7. Installed'
    BY <1>a, <1>b, <1>3 DEF Cancel, ShapeOK, ObjectsOK, CallShape, Installed, Standing
  <2>8. RecordTellsOwn'
    BY <1>a, <1>b, <1>3
    DEF Cancel, ShapeOK, ObjectsOK, CallShape, FoundKept, Present, RecordTellsOwn
  <2>9. QED
    BY <2>1, <2>2, <2>3, <2>4, <2>5, <2>6, <2>7, <2>8
    DEF IInv, Safe, TypeOK, ShapeOK, FlagsOK
<1>4. QED
    BY <1>1, <1>2, <1>3 DEF Caller

(* IInv is an invariant of the specification. *)
THEOREM Inductive == Spec => []IInv
<1>1. IInv /\ UNCHANGED vars => IInv'
    BY
    DEF IInv, Safe, TypeOK, FlagsOK, ObjectsOK, CallShape, Standing, FoundKept,
        Present,
           Noted, Known, Undone, Deleted, Installed, RecordTellsOwn, Running, vars, world,
           call, history
<1>2. IInv /\ [Next]_vars => IInv'
    BY <1>1, CreateStep, CleanupStep, CallerStep DEF Next
<1>3. QED
    BY InitIInv, <1>2, PTL DEF Spec

(* The variables keep their types. *)
THEOREM TypeCorrect == Spec => []TypeOK
<1>1. IInv => TypeOK
    BY DEF IInv
<1>2. QED
    BY Inductive, <1>1, PTL

(* A CRD this run installed is never taken for one that was there before.    *)
THEOREM RecordIsRight == Spec => []RecordTellsOwn
<1>1. IInv => RecordTellsOwn
    BY DEF IInv, Safe
<1>2. QED
    BY Inductive, <1>1, PTL

(* A nil Cleanup leaves no CRD of the run's but those whose delete failed.   *)
THEOREM OwnCRDsAreGone == Spec => []OwnCRDsGone
<1>1. IInv => OwnCRDsGone
    BY DEF IInv, Safe, Undone, Deleted, OwnCRDsGone
<1>2. QED
    BY Inductive, <1>1, PTL

(* A nil Create means that every CRD is there, that every manifest was       *)
(* applied, and that the record is that of the cluster that is up.           *)
THEOREM ReadyIsInstalled == Spec => []ReadyMeansInstalled
<1>1. IInv => ReadyMeansInstalled
  <2> SUFFICES ASSUME IInv, Running PROVE ReadyMeansInstalled
      BY DEF ReadyMeansInstalled
  <2>1. applied \subseteq 1..Manifests /\ \A m \in 1..Manifests : m \in applied
      BY DEF IInv, Safe, Installed, TypeOK, ObjectsOK
  <2>2. QED
      BY <2>1 DEF ReadyMeansInstalled, IInv, Safe, Standing, Noted, Installed
<1>2. QED
    BY Inductive, <1>1, PTL

(* A CRD of the user's goes only with its cluster, or where the record could *)
(* not be made.                                                              *)
THEOREM UserCRDsAreKept == Spec => UserCRDsKept
<1> DEFINE Keeps == \A c \in Names :
                      store[c] = "user" /\ store'[c] # "user"
                        => c \in misread \/ ~recorded \/ ~(up' \/ persistent)
<1>1. IInv /\ [Next]_vars => [Keeps]_vars
  <2> SUFFICES ASSUME IInv, Next, NEW c \in Names,
                      store[c] = "user", store'[c] # "user"
               PROVE  c \in misread \/ ~recorded \/ ~(up' \/ persistent)
      OBVIOUS
  <2>1. CASE CreateCluster
      BY <2>1 DEF CreateCluster, Brought
  <2>2. CASE ClearOwnedCRDs \/ DeleteOwnedCRDs
    <3>1. store' = [store EXCEPT ![i] = "absent"] /\ ~preexisting[i]
        BY <2>2 DEF ClearOwnedCRDs, DeleteOwnedCRDs, DeleteOwnedCRD, Owned
    <3>2. c = i
        BY <3>1 DEF IInv, TypeOK, ObjectsOK
    <3>3. QED
        BY <3>1, <3>2 DEF IInv, Safe, Noted, Known
  <2>3. CASE RemoveCluster
      BY <2>3 DEF RemoveCluster, Lost
  <2>4. CASE Install
      BY <2>4 DEF Install
  <2>5. CASE BeginCreate
      BY <2>5 DEF BeginCreate
  <2>6. CASE RecordCRDs \/ WaitForCRDs \/ WaitForRollouts \/ ApplyUserManifest
               \/ DeleteUserManifest \/ BeginCleanup \/ Cancel
      BY <2>6 DEF RecordCRDs, WaitForCRDs, WaitForRollouts, ApplyUserManifest,
                  DeleteUserManifest, BeginCleanup, Cancel, world
  <2>7. QED
      BY <2>1, <2>2, <2>3, <2>4, <2>5, <2>6 DEF Next, Create, Cleanup, Caller
<1>2. QED
    BY Inductive, <1>1, PTL DEF Spec, UserCRDsKept

-----------------------------------------------------------------------------
(* The clearing before the install finds nothing to clear: what it takes off *)
(* the cluster are CRDs whose "get" had failed (argocd.go:275), and no       *)
(* leftover that was seen, whatever the user asked for with beforeInstall    *)
(* (argocd.go:122).  This is the extent of what LeftoversCleared shows once. *)
NothingToClear ==
    [][ ClearOwnedCRDs
          => \A c \in Names : store'[c] # store[c] => c \in misread ]_vars

(* A CRD that is there before the install is in the record, or was misread.  *)
SeenOrMisread(c) == store[c] # "absent" => preexisting[c] \/ c \in misread

Seen ==
    /\ pc = "record" => \A c \in Names : c < i => SeenOrMisread(c)
    /\ pc = "clear"  => \A c \in Names : SeenOrMisread(c)

LEMMA SeenStep == IInv /\ Seen /\ [Next]_vars => Seen'
<1> SUFFICES ASSUME IInv, Seen, [Next]_vars PROVE Seen'
    OBVIOUS
<1>a. i \in Nat /\ ObjectsOK /\ Names = 1..CRDs /\ CRDs \in Nat
    BY ParametersOK DEF IInv, TypeOK, Names
<1>1. CASE UNCHANGED vars
    BY <1>1 DEF vars, world, call, history, Seen, SeenOrMisread
<1>2. CASE CreateCluster
    BY <1>2, <1>a DEF CreateCluster, Goto, Seen
<1>3. CASE RecordCRDs
  <2>1. CASE i <= CRDs /\ pc' = "record" /\ i' = i + 1
    <3>1. PICK found \in BOOLEAN :
            /\ preexisting' = [preexisting EXCEPT ![i] = found]
            /\ misread' = IF found \/ store[i] = "absent"
                          THEN misread \ {i} ELSE misread \cup {i}
        BY <1>3, <1>a, <2>1 DEF RecordCRDs
    <3>2. UNCHANGED store /\ pc = "record"
        BY <1>3 DEF RecordCRDs, world
    <3>3. \A c \in Names : /\ preexisting'[c] = IF c = i THEN found ELSE preexisting[c]
                           /\ c # i => (c \in misread' <=> c \in misread)
        BY <1>a, <3>1 DEF ObjectsOK
    <3>4. \A c \in Names : (c < i => c # i) /\ (c < i + 1 => c < i \/ c = i)
        BY <1>a
    <3>5. \A c \in Names : c < i => (SeenOrMisread(c))'
        BY <3>2, <3>3, <3>4 DEF Seen, SeenOrMisread
    <3>6. \A c \in Names : c = i => (SeenOrMisread(c))'
        BY <3>1, <3>2, <3>3 DEF SeenOrMisread
    <3>7. QED
        BY <2>1, <3>4, <3>5, <3>6 DEF Seen, SeenOrMisread
  <2>2. CASE i > CRDs /\ pc' # "record" /\ UNCHANGED <<preexisting, misread, store>>
      BY <1>3, <1>a, <2>2 DEF RecordCRDs, Seen, SeenOrMisread
  <2>3. QED
      BY <1>3, <2>1, <2>2 DEF RecordCRDs, Goto, AfterRecord, world
<1>4. CASE ClearOwnedCRDs
  <2>1. UNCHANGED <<preexisting, misread>> /\ pc = "clear" /\ pc' # "record"
      BY <1>4 DEF ClearOwnedCRDs, DeleteOwnedCRD, Goto
  <2>2. \A c \in Names : store'[c] # "absent" => store[c] # "absent"
      BY <1>4, <1>a DEF ClearOwnedCRDs, DeleteOwnedCRD, ObjectsOK
  <2>3. QED
      BY <2>1, <2>2 DEF Seen, SeenOrMisread
<1>5. CASE \/ Install \/ WaitForCRDs \/ WaitForRollouts \/ ApplyUserManifest
           \/ Cleanup \/ BeginCreate \/ BeginCleanup
  <2>1. pc' \notin {"record", "clear"}
      BY <1>5 DEF Install, WaitForCRDs, WaitForRollouts, ApplyUserManifest, Cleanup,
                  DeleteUserManifest, DeleteOwnedCRDs, DeleteOwnedCRD, RemoveCluster,
                  BeginCreate, BeginCleanup, Goto, Abort
  <2>2. QED
      BY <2>1 DEF Seen
<1>6. CASE Cancel
    BY <1>6 DEF Cancel, world, history, Seen, SeenOrMisread
<1>7. QED
    BY <1>1, <1>2, <1>3, <1>4, <1>5, <1>6 DEF Next, Create, Caller

(* The clearing before the install removes no CRD that it was meant for.     *)
THEOREM NothingIsCleared == Spec => NothingToClear
<1> DEFINE Spares == ClearOwnedCRDs
                       => \A c \in Names : store'[c] # store[c] => c \in misread
<1>1. Init => Seen
    BY DEF Init, Seen
<1>2. IInv /\ Seen /\ [Next]_vars => [Spares]_vars
  <2> SUFFICES ASSUME IInv, Seen, ClearOwnedCRDs, NEW c \in Names, store'[c] # store[c]
               PROVE  c \in misread
      OBVIOUS
  <2>1. store' = [store EXCEPT ![i] = "absent"] /\ ~preexisting[i] /\ pc = "clear"
      BY DEF ClearOwnedCRDs, DeleteOwnedCRD, Owned
  <2>2. c = i /\ store[c] # "absent"
      BY <2>1 DEF IInv, TypeOK, ObjectsOK
  <2>3. QED
      BY <2>1, <2>2 DEF Seen, SeenOrMisread
<1>3. QED
    BY Inductive, <1>1, <1>2, SeenStep, PTL DEF Spec, NothingToClear

-----------------------------------------------------------------------------
(* Every step of a stack is a step of the contract or a stutter.             *)
LEMMA ContractStep == IInv /\ IInv' /\ [Next]_vars => [Contract!Next]_(Contract!vars)
<1> SUFFICES ASSUME IInv, IInv', [Next]_vars PROVE [Contract!Next]_(Contract!vars)
    OBVIOUS
<1>a. /\ op \in {"new", "create", "cleanup"} /\ op' \in {"new", "create", "cleanup"}
      /\ err \in BOOLEAN /\ err' \in BOOLEAN /\ up' \in BOOLEAN /\ refused' \in BOOLEAN
    BY DEF IInv, TypeOK, FlagsOK
<1>1. CASE UNCHANGED vars
    BY <1>1 DEF vars, world, call, history, Contract!vars, Phase
<1>2. CASE pc # "idle" /\ op' = op /\ op # "new"
  <2>1. CASE pc' # "idle"
    <3>1. Phase' = Phase /\ Phase \in {"creating", "cleaning"}
      BY <1>2, <1>a, <2>1 DEF Phase
    <3>2. QED
      BY <1>a, <3>1 DEF Contract!Next, Contract!Work
  <2>2. CASE pc' = "idle"
    <3>1. Phase = IF op = "create" THEN "creating" ELSE "cleaning"
      BY <1>2, <1>a DEF Phase
    <3>2. CASE op = "create" /\ err'
      <4>1. Phase' = "failed" /\ (up' => refused')
        BY <1>2, <2>2, <3>2 DEF Phase, IInv, Safe, Standing
      <4>2. QED
        BY <1>a, <3>1, <3>2, <4>1
        DEF Contract!Next, Contract!ReturnError, Contract!Released
    <3>3. CASE op = "create" /\ ~err'
      <4>1. Phase' = "ready" /\ up'
        BY <1>2, <2>2, <3>3 DEF Phase, IInv, Safe, Standing, Running
      <4>2. QED
        BY <1>a, <3>1, <3>3, <4>1 DEF Contract!Next, Contract!ReturnReady
    <3>4. CASE op = "cleanup" /\ ~err'
      <4>1. Phase' = "clean" /\ ~up'
        BY <1>2, <2>2, <3>4 DEF Phase, IInv, Safe, Standing
      <4>2. QED
        BY <1>a, <3>1, <3>4, <4>1
        DEF Contract!Next, Contract!ReturnClean, Contract!Released
    <3>5. CASE op = "cleanup" /\ err'
      <4>1. Phase' = "dirty"
        BY <1>2, <2>2, <3>5 DEF Phase
      <4>2. QED
        BY <1>a, <3>1, <3>5, <4>1 DEF Contract!Next, Contract!ReturnDirty
    <3>6. QED
      BY <1>a, <1>2, <3>2, <3>3, <3>4, <3>5
  <2>3. QED
    BY <2>1, <2>2
<1>3. CASE BeginCreate
  <2>1. Phase \in {"new", "failed", "clean", "dirty"} /\ Phase' = "creating"
    BY <1>3, <1>a DEF BeginCreate, Running, Phase
  <2>2. up' = up
    BY <1>3 DEF BeginCreate
  <2>3. QED
    BY <1>a, <2>1, <2>2 DEF Contract!Next, Contract!StartCreate, Contract!Call
<1>4. CASE BeginCleanup
  <2>1. Phase \in {"ready", "failed", "clean", "dirty"} /\ Phase' = "cleaning"
    BY <1>4, <1>a DEF BeginCleanup, Phase
  <2>2. up' = up
    BY <1>4 DEF BeginCleanup, world
  <2>3. QED
    BY <1>a, <2>1, <2>2 DEF Contract!Next, Contract!StartCleanup, Contract!Call
<1>5. CASE Create \/ Cleanup \/ Cancel
  <2>1. pc # "idle" /\ op' = op
    BY <1>5
    DEF Create, CreateCluster, RecordCRDs, ClearOwnedCRDs, DeleteOwnedCRD, Install,
                WaitForCRDs, WaitForRollouts, ApplyUserManifest, Cleanup,
                DeleteUserManifest, DeleteOwnedCRDs, RemoveCluster, Cancel
  <2>2. op # "new"
    BY <2>1 DEF IInv, Safe, CallShape
  <2>3. QED
    BY <1>2, <2>1, <2>2
<1>6. QED
    BY <1>1, <1>3, <1>4, <1>5 DEF Next, Caller

(* argocd.Stack and workflows.Stack implement the service contract, with no  *)
(* excuse but a refused removal of k3s.                                      *)
THEOREM ImplementsContract == Spec => KeepsContract
<1>1. Init => Contract!Init
    BY DEF Init, Contract!Init, Phase
<1>2. QED
    BY Inductive, <1>1, ContractStep, PTL DEF Spec, KeepsContract, Contract!Spec

-----------------------------------------------------------------------------
(* A call ends.  What it has left to do, at most, counted in its steps: the  *)
(* loops over the CRDs, up to two of them, and over the manifests included.  *)
StepsLeft ==
    CASE pc = "cluster"     -> 8 + Manifests + CRDs + CRDs
      [] pc = "record"      -> 8 + Manifests + CRDs + (CRDs - i)
      [] pc = "clear"       -> 7 + Manifests + (CRDs - i)
      [] pc = "install"     -> 5 + Manifests
      [] pc = "established" -> 4 + Manifests
      [] pc = "rollouts"    -> 3 + Manifests
      [] pc = "manifests"   -> 3 + (Manifests - i)
      [] pc = "delete"      -> 3 + CRDs + i
      [] pc = "deleteCRDs"  -> 3 + (CRDs - i)
      [] pc = "remove"      -> 1
      [] pc = "idle"        -> 0

(* Nothing in a call goes round in circles: each step of it leaves fewer to  *)
(* be taken, and a cancelled context adds none.                              *)
CallsAdvance ==
    [][ /\ BeginCreate => StepsLeft' = 8 + Manifests + CRDs + CRDs
        /\ BeginCleanup => StepsLeft' = 3 + CRDs + Manifests
        /\ Create \/ Cleanup => StepsLeft' < StepsLeft
        /\ Cancel => StepsLeft' = StepsLeft ]_vars

(* The number of steps left is a natural number, and none are left only      *)
(* between calls.                                                            *)
StepsCounted == StepsLeft \in Nat /\ (StepsLeft = 0 <=> pc = "idle")

(* No loop runs past its end. *)
LoopsBounded ==
    /\ pc \in {"record", "clear", "deleteCRDs"} => i <= CRDs + 1
    /\ pc = "manifests" => i <= Manifests + 1

LEMMA LoopStep == IInv /\ LoopsBounded /\ [Next]_vars => LoopsBounded'
<1> SUFFICES ASSUME IInv, LoopsBounded, [Next]_vars PROVE LoopsBounded'
    OBVIOUS
<1>a. ShapeOK /\ CallShape /\ Installed
    BY TypeParts DEF IInv, Safe
<1> USE ParametersOK, <1>a
    DEF LoopsBounded, ShapeOK, CallShape, Installed, UpPoints, AfterRecords, Goto, Abort
<1>1. CASE CreateCluster
  BY <1>1 DEF CreateCluster
<1>2. CASE RecordCRDs
  BY <1>2 DEF RecordCRDs, AfterRecord
<1>3. CASE ClearOwnedCRDs
  BY <1>3 DEF ClearOwnedCRDs, DeleteOwnedCRD
<1>4. CASE Install
  BY <1>4 DEF Install, history
<1>5. CASE WaitForCRDs
  BY <1>5 DEF WaitForCRDs
<1>6. CASE WaitForRollouts
  BY <1>6 DEF WaitForRollouts, history
<1>7. CASE ApplyUserManifest
  BY <1>7 DEF ApplyUserManifest, More
<1>8. CASE DeleteUserManifest
  BY <1>8 DEF DeleteUserManifest
<1>9. CASE DeleteOwnedCRDs
  BY <1>9 DEF DeleteOwnedCRDs, DeleteOwnedCRD
<1>10. CASE RemoveCluster
  BY <1>10 DEF RemoveCluster
<1>11. CASE BeginCreate
  BY <1>11 DEF BeginCreate
<1>12. CASE BeginCleanup
  BY <1>12 DEF BeginCleanup
<1>13. CASE Cancel
  BY <1>13 DEF Cancel
<1>14. CASE UNCHANGED vars
  BY <1>14 DEF vars, call
<1>15. QED
  BY <1>1, <1>2, <1>3, <1>4, <1>5, <1>6, <1>7, <1>8, <1>9, <1>10, <1>11,
      <1>12, <1>13, <1>14 DEF Next, Create, Cleanup, Caller

(* The number is a natural one, and 0 only between calls. *)
LEMMA InvCounted == IInv /\ LoopsBounded => StepsCounted
<1> SUFFICES ASSUME IInv, LoopsBounded PROVE StepsCounted
    OBVIOUS
<1>1. ShapeOK
    BY TypeParts DEF IInv
<1>2. QED
    BY <1>1, ParametersOK DEF StepsCounted, StepsLeft, ShapeOK, LoopsBounded

(* Each step of a call lowers it. *)
LEMMA StepLowers ==
    IInv /\ LoopsBounded /\ (Create \/ Cleanup) => StepsLeft' < StepsLeft
<1> SUFFICES ASSUME IInv, LoopsBounded, Create \/ Cleanup PROVE StepsLeft' < StepsLeft
    OBVIOUS
<1>a. ShapeOK /\ CallShape /\ Installed
    BY TypeParts DEF IInv, Safe
<1> USE ParametersOK, <1>a
    DEF StepsLeft, LoopsBounded, ShapeOK, CallShape, Installed, UpPoints, AfterRecords,
        Goto, Abort
<1>1. CASE CreateCluster
  BY <1>1 DEF CreateCluster
<1>2. CASE RecordCRDs
  BY <1>2 DEF RecordCRDs, AfterRecord
<1>3. CASE ClearOwnedCRDs
  BY <1>3 DEF ClearOwnedCRDs, DeleteOwnedCRD
<1>4. CASE Install
  BY <1>4 DEF Install, history
<1>5. CASE WaitForCRDs
  BY <1>5 DEF WaitForCRDs
<1>6. CASE WaitForRollouts
  BY <1>6 DEF WaitForRollouts, history
<1>7. CASE ApplyUserManifest
  BY <1>7 DEF ApplyUserManifest, More
<1>8. CASE DeleteUserManifest
  BY <1>8 DEF DeleteUserManifest
<1>9. CASE DeleteOwnedCRDs
  BY <1>9 DEF DeleteOwnedCRDs, DeleteOwnedCRD
<1>10. CASE RemoveCluster
  BY <1>10 DEF RemoveCluster
<1>11. QED
  BY <1>1, <1>2, <1>3, <1>4, <1>5, <1>6, <1>7, <1>8, <1>9, <1>10
      DEF Create, Cleanup

(* Every call ends, as far as steps can say: what is left is that a call     *)
(* that can take a step takes one.                                           *)
THEOREM CallsEnd == Spec => []StepsCounted /\ CallsAdvance
<1> DEFINE Advance ==
      /\ BeginCreate => StepsLeft' = 8 + Manifests + CRDs + CRDs
      /\ BeginCleanup => StepsLeft' = 3 + CRDs + Manifests
      /\ Create \/ Cleanup => StepsLeft' < StepsLeft
      /\ Cancel => StepsLeft' = StepsLeft
<1>1. Init => LoopsBounded
    BY DEF Init, LoopsBounded
<1>2. IInv /\ LoopsBounded /\ [Next]_vars => [Advance]_vars
  <2> SUFFICES ASSUME IInv, LoopsBounded, Next PROVE Advance
      OBVIOUS
  <2>1. BeginCreate => StepsLeft' = 8 + Manifests + CRDs + CRDs
      BY DEF BeginCreate, StepsLeft
  <2>2. BeginCleanup => StepsLeft' = 3 + CRDs + Manifests
      BY DEF BeginCleanup, StepsLeft
  <2>3. Create \/ Cleanup => StepsLeft' < StepsLeft
      BY StepLowers
  <2>4. Cancel => StepsLeft' = StepsLeft
      BY DEF Cancel, StepsLeft
  <2>5. QED
      BY <2>1, <2>2, <2>3, <2>4
<1>3. QED
    BY Inductive, <1>1, LoopStep, InvCounted, <1>2, PTL DEF Spec, CallsAdvance
=============================================================================
