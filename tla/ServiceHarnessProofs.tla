------------------------ MODULE ServiceHarnessProofs ------------------------
(***************************************************************************)
(* What TLAPS proves of the one-container services, for every set of       *)
(* profiles, every number of preloads, polls, clients and calls.           *)
(*                                                                         *)
(* The counters of a preload are the heart of it: which preloads took      *)
(* effect how often is settled at the last of them, after retries and lost *)
(* replies, so Counted compares them before, at and after the current one. *)
(***************************************************************************)
EXTENDS MCServiceHarness, TLAPS

UpPoints     == {"ready", "client", "preload"}
CreatePoints == {"start"} \cup UpPoints

(* What the program counter says of the call. *)
CallShape ==
    /\ creates = 0 => op = "new"
    /\ op = "new" => pc = "idle" /\ creates = 0 /\ ~up /\ open = {}
    /\ pc \in CreatePoints => op = "create" /\ ~err
    /\ pc \in {"close", "dir"} => op = "cleanup"
    /\ pc = "close" => ~err
    /\ pc = "remove" => (op = "create" /\ err) \/ (op = "cleanup" /\ ~err)
    /\ pc \in {"start", "ready", "client"} => i = 1

(* Where the container is up, and where only a refused removal explains it.  *)
Standing ==
    /\ pc \in UpPoints \/ Running => up
    /\ up /\ (pc \in {"start", "dir"} \/ (pc = "idle" /\ ~Running)) => refused

(* Trino's directory is there throughout the first Create, and bound.        *)
CatalogKept ==
    service.catalog
        => /\ op = "new" \/ (op = "create" /\ creates = 1) => dir
           /\ creates = 1 /\ (pc \in UpPoints \/ Running) => bound

(* What the steps of a Cleanup have undone. *)
Undone ==
    op = "cleanup"
        => /\ service.closes /\ pc # "close" => open = {}
           /\ pc \in {"dir", "idle"} /\ ~err => ~up
           /\ pc = "idle" /\ ~err => ~dir

(* Preloads before the current one have taken effect, and more often than    *)
(* those that are still to come; nothing took effect more often than    *)
(* there were tries.                                                         *)
Before(k) == effects[k] >= 1 /\ effects[k] <= tries + 1
After(k)  == effects[k] <= tries

Counted ==
    /\ pc \in {"ready", "client"} => effects = NoEffects
    /\ pc = "preload"
         => /\ \A k \in 1..n : IF k < i THEN Before(k) ELSE After(k)
            /\ \A j, k \in 1..n : j < i /\ i <= k => effects[j] > effects[k]
            /\ service.retries \/ tries = 0
    /\ Running
         => \A k \in 1..n : effects[k] >= 1 /\ (~service.retries => effects[k] = 1)

(* The inductive invariant. *)
Safe ==
    /\ CallShape /\ Standing /\ CatalogKept /\ Undone /\ Counted
    /\ ClientsReachable /\ PreloadOrder

IInv == TypeOK /\ Safe

-----------------------------------------------------------------------------
(* TypeOK in three parts: what a call is, the clients, and the numbers. *)
ShapeOK ==
    /\ service \in Profile /\ n \in 0..MaxPreloads
    /\ up \in BOOLEAN /\ bound \in BOOLEAN /\ dir \in BOOLEAN
    /\ err \in BOOLEAN /\ cancelled \in BOOLEAN /\ refused \in BOOLEAN
    /\ op \in {"new", "create", "cleanup"}
    /\ pc \in {"idle", "start", "ready", "client", "preload", "close",
               "remove", "dir"}

ClientsOK == open \subseteq Clients /\ handle \in {0} \cup Clients

NumbersOK ==
    /\ effects \in [1..n -> 0..MaxTries + 1]
    /\ i \in 1..n + 1 /\ tries \in 0..MaxTries /\ creates \in 0..MaxCreates

LEMMA TypeParts == TypeOK <=> ShapeOK /\ ClientsOK /\ NumbersOK
BY DEF TypeOK, ShapeOK, ClientsOK, NumbersOK

LEMMA BoundsAreNat ==
    MaxPreloads \in Nat /\ MaxClients \in Nat /\ MaxTries \in Nat /\ MaxCreates \in Nat
BY HarnessAssumption DEF HarnessAssumption

(* A fresh container has no effects. *)
LEMMA NoEffectsOK == NoEffects \in [1..n -> 0..MaxTries + 1]
<1>1. 0 \in 0..MaxTries + 1
    BY BoundsAreNat
<1>2. QED
    BY <1>1 DEF NoEffects

(* A preload counts itself once, and within the bound. *)
LEMMA EffectCounts ==
    ASSUME NumbersOK, ShapeOK, Counted, pc = "preload", i <= n
    PROVE  /\ Effect \in [1..n -> 0..MaxTries + 1]
           /\ Effect[i] = effects[i] + 1
           /\ \A k \in 1..n : k # i => Effect[k] = effects[k]
<1>1. i \in 1..n /\ n \in Nat /\ tries <= MaxTries
    BY BoundsAreNat DEF NumbersOK, ShapeOK
<1>2. effects[i] <= tries /\ effects[i] \in 0..MaxTries + 1 /\ tries \in Nat
    BY <1>1, BoundsAreNat DEF Counted, After, NumbersOK
<1>3. effects[i] + 1 \in 0..MaxTries + 1
    BY <1>1, <1>2, BoundsAreNat
<1>4. QED
    BY <1>1, <1>3 DEF Effect, NumbersOK

-----------------------------------------------------------------------------
(* The initial state satisfies the invariant. *)
LEMMA InitIInv == Init => IInv
<1> SUFFICES ASSUME Init PROVE IInv
    OBVIOUS
<1> USE HarnessAssumption DEF Init, NoEffects, CreatePoints, UpPoints, Running
<1>1. service \in Profile /\ n \in 0 .. MaxPreloads
    OBVIOUS
<1>2. TypeOK
  <2>1. ShapeOK
    BY <1>1 DEF ShapeOK, Profile
  <2>2. ClientsOK /\ NumbersOK
    BY <1>1, BoundsAreNat, NoEffectsOK DEF ClientsOK, NumbersOK
  <2>3. QED
    BY <2>1, <2>2, TypeParts
<1>3. CallShape /\ Standing /\ CatalogKept /\ Undone
    BY DEF CallShape, Standing, CatalogKept, Undone
<1>4. Counted /\ ClientsReachable /\ PreloadOrder
    BY DEF Counted, ClientsReachable, PreloadOrder
<1>5. QED
    BY <1>2, <1>3, <1>4 DEF IInv, Safe

(* The invariant is preserved by a step of Create. *)
LEMMA CreateStep == IInv /\ Create => IInv'
<1> SUFFICES ASSUME IInv, Create PROVE IInv'
    OBVIOUS
<1> USE HarnessAssumption
    DEF CreatePoints, UpPoints, Running, resources, fixed, Goto, Abort, Begin, Clients
<1>a. TypeOK /\ CallShape /\ Standing /\ CatalogKept /\ Undone /\ Counted
      /\ ClientsReachable /\ PreloadOrder
    BY DEF IInv, Safe
<1>b. ShapeOK /\ ClientsOK /\ NumbersOK
    BY <1>a, TypeParts
<1>1. CASE Start
  <2>1. ShapeOK'
    BY <1>a, <1>b, <1>1 DEF Start, ShapeOK
  <2>2. ClientsOK'
    BY <1>a, <1>b, <1>1 DEF Start, ClientsOK
  <2>3. NumbersOK'
    BY <1>a, <1>b, <1>1, BoundsAreNat, NoEffectsOK DEF Start, ShapeOK, NumbersOK
  <2>4. CallShape' /\ Standing'
    BY <1>a, <1>b, <1>1 DEF Start, ShapeOK, NumbersOK, CallShape, Standing, Undone
  <2>5. CatalogKept' /\ Undone' /\ ClientsReachable'
    BY <1>a, <1>b, <1>1
    DEF Start, ShapeOK, CallShape, CatalogKept, Undone, ClientsReachable
  <2>6. Counted' /\ PreloadOrder'
    <3>1. pc' \in {"ready", "idle"} /\ (pc' = "ready" => effects' = NoEffects)
          /\ (pc' = "idle" => err') /\ UNCHANGED n
          /\ (effects' = effects \/ effects' = NoEffects)
      BY <1>1 DEF Start
    <3>2. Counted'
      BY <3>1 DEF Counted, NoEffects
    <3>3. PreloadOrder'
      <4>1. CASE effects' = effects
        BY <1>a, <3>1, <4>1 DEF PreloadOrder
      <4>2. CASE effects' = NoEffects
        <5>1. \A k \in 1..n : effects'[k] = 0
          BY <4>2 DEF NoEffects
        <5>2. QED
          BY <3>1, <5>1 DEF PreloadOrder
      <4>3. QED
        BY <3>1, <4>1, <4>2
    <3>4. QED
      BY <3>2, <3>3
  <2>7. QED
    BY <2>1, <2>2, <2>3, <2>4, <2>5, <2>6
    DEF IInv, Safe, TypeOK, ShapeOK, ClientsOK, NumbersOK
<1>2. CASE AwaitReady
  <2>1. ShapeOK'
    BY <1>a, <1>b, <1>2 DEF AwaitReady, Dial, ShapeOK
  <2>2. ClientsOK'
    BY <1>a, <1>b, <1>2 DEF AwaitReady, Dial, ClientsOK
  <2>3. NumbersOK'
    BY <1>a, <1>b, <1>2, BoundsAreNat DEF AwaitReady, Dial, ShapeOK, NumbersOK
  <2>4. CallShape' /\ Standing'
    BY <1>a, <1>b, <1>2
    DEF AwaitReady, Dial, ShapeOK, NumbersOK, CallShape, Standing, Undone
  <2>5. CatalogKept' /\ Undone' /\ ClientsReachable'
    BY <1>a, <1>b, <1>2
    DEF AwaitReady, Dial, ShapeOK, CallShape, CatalogKept, Undone, ClientsReachable
  <2>6. Counted' /\ PreloadOrder'
    <3>1. UNCHANGED <<effects, n, service>>
      BY <1>2 DEF AwaitReady
    <3>2. Counted'
      BY <1>a, <1>b, <1>2, <3>1
      DEF AwaitReady, Dial, ShapeOK, CallShape, Counted, Before, After,
         NoEffects
    <3>3. PreloadOrder'
      BY <1>a, <3>1 DEF PreloadOrder
    <3>4. QED
      BY <3>2, <3>3
  <2>7. QED
    BY <2>1, <2>2, <2>3, <2>4, <2>5, <2>6
    DEF IInv, Safe, TypeOK, ShapeOK, ClientsOK, NumbersOK
<1>3. CASE Redial
  <2>1. ShapeOK'
    BY <1>a, <1>b, <1>3 DEF Redial, Dial, ShapeOK
  <2>2. ClientsOK'
    BY <1>a, <1>b, <1>3 DEF Redial, Dial, ClientsOK
  <2>3. NumbersOK'
    BY <1>a, <1>b, <1>3, BoundsAreNat DEF Redial, Dial, ShapeOK, NumbersOK
  <2>4. CallShape' /\ Standing'
    BY <1>a, <1>b, <1>3
    DEF Redial, Dial, ShapeOK, NumbersOK, CallShape, Standing, Undone
  <2>5. CatalogKept' /\ Undone' /\ ClientsReachable'
    BY <1>a, <1>b, <1>3
    DEF Redial, Dial, ShapeOK, CallShape, CatalogKept, Undone, ClientsReachable
  <2>6. Counted' /\ PreloadOrder'
    <3>1. UNCHANGED <<effects, n, i>> /\ pc = "client" /\ pc' \in {"preload", "remove"}
          /\ tries' = 0
      BY <1>3 DEF Redial
    <3>2. i = 1 /\ n \in Nat /\ \A k \in 1..n : effects[k] = 0
      BY <1>a, <1>b, <3>1, BoundsAreNat DEF ShapeOK, CallShape, Counted, NoEffects
    <3>3. Counted'
      BY <3>1, <3>2 DEF Counted, Before, After
    <3>4. PreloadOrder'
      BY <1>a, <3>1 DEF PreloadOrder
    <3>5. QED
      BY <3>3, <3>4
  <2>7. QED
    BY <2>1, <2>2, <2>3, <2>4, <2>5, <2>6
    DEF IInv, Safe, TypeOK, ShapeOK, ClientsOK, NumbersOK
<1>4. CASE Preload
  <2> DEFINE Done   == /\ GoesOn /\ effects' = Effect /\ i' = i + 1
                       /\ tries' = tries /\ pc' = pc
             Again  == /\ service.retries /\ effects' \in {effects, Effect} /\ i' = 1
                       /\ tries' = tries + 1 /\ tries < MaxTries /\ pc' = pc
             Failed == /\ effects' \in {effects, Effect} /\ UNCHANGED <<i, tries>>
                       /\ pc' = "remove" /\ err'
  <2>1. /\ pc = "preload" /\ i <= n
        /\ Done \/ Again \/ Failed
        /\ UNCHANGED <<service, n, op, cancelled, creates, up, bound, dir, refused>>
        /\ err' = err \/ Failed
    BY <1>4 DEF Preload, More
  <2>2. UNCHANGED <<open, handle>> \/ Dial
    BY <1>4 DEF Preload, Attempt
  <2>3. ShapeOK'
    BY <1>b, <2>1, <1>4 DEF Preload, ShapeOK
  <2>4. ClientsOK' /\ ClientsReachable'
    BY <1>a, <1>b, <2>1, <2>2 DEF Dial, ClientsOK, ClientsReachable
  <2>5. i \in 1..n /\ n \in Nat /\ i \in Nat /\ tries \in Nat
    BY <1>b, <2>1, BoundsAreNat DEF ShapeOK, NumbersOK
  <2>6. /\ Effect \in [1..n -> 0..MaxTries + 1]
        /\ Effect[i] = effects[i] + 1
        /\ \A k \in 1..n : k # i => Effect[k] = effects[k]
    BY <1>a, <1>b, <2>1, EffectCounts
  <2>7. NumbersOK'
    <3>1. effects \in [1..n -> 0..MaxTries + 1] /\ tries \in 0..MaxTries
          /\ creates \in 0..MaxCreates
      BY <1>b DEF NumbersOK
    <3>2. effects' \in [1..n -> 0..MaxTries + 1] /\ n' = n /\ creates' = creates
      BY <2>1, <2>6, <3>1
    <3>3. i' \in 1..n + 1 /\ tries' \in 0..MaxTries
      BY <2>1, <2>5, <3>1, BoundsAreNat
    <3>4. QED
      BY <3>1, <3>2, <3>3 DEF NumbersOK
  <2>8. CallShape' /\ Standing'
    BY <1>a, <2>1, <1>4 DEF Preload, CallShape, Standing
  <2>9. CatalogKept' /\ Undone'
    BY <1>a, <2>1 DEF CallShape, CatalogKept, Undone
  <2>10. \A k \in 1..n : effects[k] \in Nat
    BY <1>b, BoundsAreNat DEF NumbersOK
  <2>11. /\ \A j, k \in 1..n : j < k => effects[j] >= effects[k]
         /\ \A j, k \in 1..n : j < i /\ i <= k => effects[j] > effects[k]
         /\ \A k \in 1..n : k < i => effects[k] >= 1 /\ effects[k] <= tries + 1
         /\ \A k \in 1..n : ~(k < i) => effects[k] <= tries
         /\ service.retries \/ tries = 0
    BY <1>a, <2>1 DEF PreloadOrder, Counted, Before, After
  <2>12. PreloadOrder'
    <3>1. SUFFICES ASSUME NEW j \in 1..n, NEW k \in 1..n, j < k
                   PROVE  effects'[j] >= effects'[k]
      BY <2>1 DEF PreloadOrder
    <3>2. CASE effects' = effects
      BY <2>11, <3>1, <3>2
    <3>3. CASE effects' = Effect
      <4>1. effects[j] \in Nat /\ effects[k] \in Nat /\ effects[j] >= effects[k]
        BY <2>10, <2>11, <3>1
      <4>2. CASE k = i
        <5>1. effects[j] > effects[k]
          BY <2>5, <2>11, <3>1, <4>2
        <5>2. QED
          BY <2>5, <2>6, <3>1, <3>3, <4>1, <4>2, <5>1
      <4>3. CASE k # i
        BY <2>5, <2>6, <3>1, <3>3, <4>1, <4>3
      <4>4. QED
        BY <4>2, <4>3
    <3>4. QED
      BY <2>1, <3>2, <3>3
  <2>13. Counted'
    <3>1. CASE Done
      <4>1. ASSUME NEW k \in 1..n, k < i + 1
            PROVE  Effect[k] >= 1 /\ Effect[k] <= tries + 1
        <5>1. CASE k = i
          <6>1. effects[k] <= tries /\ effects[k] \in Nat /\ Effect[k] = effects[k] + 1
            BY <2>5, <2>6, <2>10, <2>11, <5>1
          <6>2. QED
            BY <2>5, <6>1
        <5>2. CASE k # i
          <6>1. k < i
            BY <2>5, <4>1, <5>2
          <6>2. QED
            BY <2>6, <2>11, <5>2, <6>1
        <5>3. QED
          BY <5>1, <5>2
      <4>2. ASSUME NEW k \in 1..n, ~(k < i + 1)
            PROVE  Effect[k] <= tries
        <5>1. k # i /\ ~(k < i)
          BY <2>5, <4>2
        <5>2. QED
          BY <2>6, <2>11, <5>1
      <4>3. \A j, k \in 1..n : j < i + 1 /\ i + 1 <= k => Effect[j] > Effect[k]
        <5>1. SUFFICES ASSUME NEW j \in 1..n, NEW k \in 1..n, j < i + 1, i + 1 <= k
                       PROVE  Effect[j] > Effect[k]
          OBVIOUS
        <5>2. Effect[k] = effects[k] /\ effects[k] \in Nat /\ effects[j] \in Nat
          BY <2>5, <2>6, <2>10, <5>1
        <5>3. CASE j = i
          BY <2>5, <2>6, <2>11, <5>1, <5>2, <5>3
        <5>4. CASE j # i
          BY <2>5, <2>6, <2>11, <5>1, <5>2, <5>4
        <5>5. QED
          BY <5>3, <5>4
      <4>4. effects' = Effect /\ i' = i + 1 /\ tries' = tries /\ pc' = "preload" /\ n' = n
            /\ service' = service
        BY <2>1, <3>1
      <4>5. QED
        BY <2>11, <4>1, <4>2, <4>3, <4>4 DEF Counted, Before, After
    <3>2. CASE Again
      <4>1. ASSUME NEW k \in 1..n PROVE effects'[k] <= tries + 1
        <5>1. effects[k] \in Nat /\ effects[k] <= tries + 1
          BY <2>5, <2>10, <2>11
        <5>2. k = i => effects[k] <= tries /\ Effect[k] = effects[k] + 1
          BY <2>5, <2>6, <2>11
        <5>3. k # i => Effect[k] = effects[k]
          BY <2>6
        <5>4. effects'[k] = effects[k] \/ effects'[k] = Effect[k]
          BY <3>2
        <5>5. QED
          BY <2>5, <5>1, <5>2, <5>3, <5>4
      <4>2. \A j \in 1..n : ~(j < 1)
        BY <2>5
      <4>3. service' = service /\ n' = n /\ pc' = "preload"
        BY <2>1, <3>2
      <4>4. QED
        BY <3>2, <4>1, <4>2, <4>3 DEF Counted, Before, After
    <3>3. CASE Failed
      BY <2>1, <3>3 DEF Counted
    <3>4. QED
      BY <2>1, <3>1, <3>2, <3>3
  <2>14. QED
    BY <2>3, <2>4, <2>7, <2>8, <2>9, <2>12, <2>13
    DEF IInv, Safe, TypeOK, ShapeOK, ClientsOK, NumbersOK
<1>5. CASE Preloaded
  <2>1. ShapeOK'
    BY <1>a, <1>b, <1>5 DEF Preloaded, More, ShapeOK
  <2>2. ClientsOK'
    BY <1>a, <1>b, <1>5 DEF Preloaded, More, ClientsOK
  <2>3. NumbersOK'
    BY <1>a, <1>b, <1>5, BoundsAreNat DEF Preloaded, More, ShapeOK, NumbersOK
  <2>4. CallShape' /\ Standing'
    BY <1>a, <1>b, <1>5
    DEF Preloaded, More, ShapeOK, NumbersOK, CallShape, Standing, Undone
  <2>5. CatalogKept' /\ Undone' /\ ClientsReachable'
    BY <1>a, <1>b, <1>5
    DEF Preloaded, More, ShapeOK, CallShape, CatalogKept, Undone, ClientsReachable
  <2>6. Counted' /\ PreloadOrder'
    <3>1. pc = "preload" /\ pc' = "idle" /\ UNCHANGED <<n, effects, service>> /\ ~(i <= n)
      BY <1>5 DEF Preloaded, More
    <3>2. i \in Nat /\ n \in Nat /\ i = n + 1
      BY <1>b, <3>1, BoundsAreNat DEF ShapeOK, NumbersOK
    <3>3. ASSUME NEW k \in 1..n
          PROVE  effects[k] >= 1 /\ (~service.retries => effects[k] = 1)
      <4>1. k < i /\ effects[k] \in Nat
        BY <1>b, <3>2, BoundsAreNat DEF NumbersOK
      <4>2. effects[k] >= 1 /\ effects[k] <= tries + 1 /\ (service.retries \/ tries = 0)
        BY <1>a, <3>1, <4>1 DEF Counted, Before
      <4>3. QED
        BY <4>1, <4>2
    <3>4. Counted'
      BY <3>1, <3>3 DEF Counted
    <3>5. QED
      BY <1>a, <3>1, <3>4 DEF PreloadOrder
  <2>7. QED
    BY <2>1, <2>2, <2>3, <2>4, <2>5, <2>6
    DEF IInv, Safe, TypeOK, ShapeOK, ClientsOK, NumbersOK
<1>6. QED
    BY <1>1, <1>2, <1>3, <1>4, <1>5 DEF Create

(* The invariant is preserved by a step of Cleanup, or the release after a failed Create. *)
LEMMA CleanupStep == IInv /\ Cleanup => IInv'
<1> SUFFICES ASSUME IInv, Cleanup PROVE IInv'
    OBVIOUS
<1> USE HarnessAssumption
    DEF CreatePoints, UpPoints, Running, resources, fixed, Goto, Abort, Begin, Clients
<1>a. TypeOK /\ CallShape /\ Standing /\ CatalogKept /\ Undone /\ Counted
      /\ ClientsReachable /\ PreloadOrder
    BY DEF IInv, Safe
<1>b. ShapeOK /\ ClientsOK /\ NumbersOK
    BY <1>a, TypeParts
<1>1. CASE CloseClient
  <2>1. ShapeOK'
    BY <1>a, <1>b, <1>1 DEF CloseClient, ShapeOK
  <2>2. ClientsOK'
    BY <1>a, <1>b, <1>1 DEF CloseClient, ClientsOK
  <2>3. NumbersOK'
    BY <1>a, <1>b, <1>1, BoundsAreNat DEF CloseClient, ShapeOK, NumbersOK
  <2>4. CallShape' /\ Standing'
    BY <1>a, <1>b, <1>1 DEF CloseClient, ShapeOK, NumbersOK, CallShape, Standing, Undone
  <2>5. CatalogKept' /\ Undone' /\ ClientsReachable'
    BY <1>a, <1>b, <1>1
    DEF CloseClient, ShapeOK, CallShape, CatalogKept, Undone, ClientsReachable
  <2>6. Counted' /\ PreloadOrder'
    <3>1. UNCHANGED <<effects, n, service>>
      BY <1>1 DEF CloseClient
    <3>2. Counted'
      BY <1>a, <1>b, <1>1, <3>1
      DEF CloseClient, ShapeOK, CallShape, Counted, Before, After,
         NoEffects
    <3>3. PreloadOrder'
      BY <1>a, <3>1 DEF PreloadOrder
    <3>4. QED
      BY <3>2, <3>3
  <2>7. QED
    BY <2>1, <2>2, <2>3, <2>4, <2>5, <2>6
    DEF IInv, Safe, TypeOK, ShapeOK, ClientsOK, NumbersOK
<1>2. CASE RemoveContainer
  <2>1. ShapeOK'
    BY <1>a, <1>b, <1>2 DEF RemoveContainer, Reachable, ShapeOK
  <2>2. ClientsOK'
    BY <1>a, <1>b, <1>2 DEF RemoveContainer, Reachable, ClientsOK
  <2>3. NumbersOK'
    BY <1>a, <1>b, <1>2, BoundsAreNat, NoEffectsOK
    DEF RemoveContainer, Reachable, ShapeOK, NumbersOK
  <2>4. CallShape' /\ Standing'
    BY <1>a, <1>b, <1>2
    DEF RemoveContainer, Reachable, ShapeOK, NumbersOK, CallShape, Standing, Undone
  <2>5. CatalogKept' /\ Undone' /\ ClientsReachable'
    BY <1>a, <1>b, <1>2
    DEF RemoveContainer, Reachable, ShapeOK, CallShape, CatalogKept, Undone,
        ClientsReachable
  <2>6. Counted' /\ PreloadOrder'
    <3>1. pc = "remove" /\ pc' \in {"dir", "idle"} /\ UNCHANGED <<n, op>>
          /\ (effects' = effects \/ effects' = NoEffects) /\ (err => err')
      BY <1>2 DEF RemoveContainer
    <3>2. ~Running'
      BY <1>a, <3>1 DEF CallShape
    <3>3. Counted'
      BY <3>1, <3>2 DEF Counted
    <3>4. PreloadOrder'
      <4>1. CASE effects' = effects
        BY <1>a, <3>1, <4>1 DEF PreloadOrder
      <4>2. CASE effects' = NoEffects
        <5>1. \A k \in 1..n : effects'[k] = 0
          BY <4>2 DEF NoEffects
        <5>2. QED
          BY <3>1, <5>1 DEF PreloadOrder
      <4>3. QED
        BY <3>1, <4>1, <4>2
    <3>5. QED
      BY <3>3, <3>4
  <2>7. QED
    BY <2>1, <2>2, <2>3, <2>4, <2>5, <2>6
    DEF IInv, Safe, TypeOK, ShapeOK, ClientsOK, NumbersOK
<1>3. CASE RemoveDir
  <2>1. ShapeOK'
    BY <1>a, <1>b, <1>3 DEF RemoveDir, ShapeOK
  <2>2. ClientsOK'
    BY <1>a, <1>b, <1>3 DEF RemoveDir, ClientsOK
  <2>3. NumbersOK'
    BY <1>a, <1>b, <1>3, BoundsAreNat DEF RemoveDir, ShapeOK, NumbersOK
  <2>4. CallShape' /\ Standing'
    BY <1>a, <1>b, <1>3 DEF RemoveDir, ShapeOK, NumbersOK, CallShape, Standing, Undone
  <2>5. CatalogKept' /\ Undone' /\ ClientsReachable'
    BY <1>a, <1>b, <1>3
    DEF RemoveDir, ShapeOK, CallShape, CatalogKept, Undone, ClientsReachable
  <2>6. Counted' /\ PreloadOrder'
    <3>1. UNCHANGED <<effects, n, service>>
      BY <1>3 DEF RemoveDir
    <3>2. Counted'
      BY <1>a, <1>b, <1>3, <3>1
      DEF RemoveDir, ShapeOK, CallShape, Counted, Before, After,
         NoEffects
    <3>3. PreloadOrder'
      BY <1>a, <3>1 DEF PreloadOrder
    <3>4. QED
      BY <3>2, <3>3
  <2>7. QED
    BY <2>1, <2>2, <2>3, <2>4, <2>5, <2>6
    DEF IInv, Safe, TypeOK, ShapeOK, ClientsOK, NumbersOK
<1>4. QED
    BY <1>1, <1>2, <1>3 DEF Cleanup

(* The invariant is preserved by a step of the caller. *)
LEMMA CallerStep == IInv /\ Caller => IInv'
<1> SUFFICES ASSUME IInv, Caller PROVE IInv'
    OBVIOUS
<1> USE HarnessAssumption
    DEF CreatePoints, UpPoints, Running, resources, fixed, Goto, Abort, Begin, Clients
<1>a. TypeOK /\ CallShape /\ Standing /\ CatalogKept /\ Undone /\ Counted
      /\ ClientsReachable /\ PreloadOrder
    BY DEF IInv, Safe
<1>b. ShapeOK /\ ClientsOK /\ NumbersOK
    BY <1>a, TypeParts
<1>1. CASE BeginCreate
  <2>1. ShapeOK'
    BY <1>a, <1>b, <1>1 DEF BeginCreate, ShapeOK
  <2>2. ClientsOK'
    BY <1>a, <1>b, <1>1 DEF BeginCreate, ClientsOK
  <2>3. NumbersOK'
    BY <1>a, <1>b, <1>1, BoundsAreNat DEF BeginCreate, ShapeOK, NumbersOK
  <2>4. CallShape' /\ Standing'
    BY <1>a, <1>b, <1>1 DEF BeginCreate, ShapeOK, NumbersOK, CallShape, Standing, Undone
  <2>5. CatalogKept' /\ Undone' /\ ClientsReachable'
    BY <1>a, <1>b, <1>1, BoundsAreNat
    DEF BeginCreate, ShapeOK, CallShape, CatalogKept, Undone, ClientsReachable,
        NumbersOK
  <2>6. Counted' /\ PreloadOrder'
    <3>1. UNCHANGED <<effects, n, service>>
      BY <1>1 DEF BeginCreate
    <3>2. Counted'
      BY <1>a, <1>b, <1>1, <3>1
      DEF BeginCreate, ShapeOK, CallShape, Counted, Before, After,
         NoEffects
    <3>3. PreloadOrder'
      BY <1>a, <3>1 DEF PreloadOrder
    <3>4. QED
      BY <3>2, <3>3
  <2>7. QED
    BY <2>1, <2>2, <2>3, <2>4, <2>5, <2>6
    DEF IInv, Safe, TypeOK, ShapeOK, ClientsOK, NumbersOK
<1>2. CASE BeginCleanup
  <2>1. ShapeOK'
    BY <1>a, <1>b, <1>2 DEF BeginCleanup, ShapeOK
  <2>2. ClientsOK'
    BY <1>a, <1>b, <1>2 DEF BeginCleanup, ClientsOK
  <2>3. NumbersOK'
    BY <1>a, <1>b, <1>2, BoundsAreNat DEF BeginCleanup, ShapeOK, NumbersOK
  <2>4. CallShape' /\ Standing'
    BY <1>a, <1>b, <1>2
    DEF BeginCleanup, ShapeOK, NumbersOK, CallShape, Standing, Undone
  <2>5. CatalogKept' /\ Undone' /\ ClientsReachable'
    BY <1>a, <1>b, <1>2
    DEF BeginCleanup, ShapeOK, CallShape, CatalogKept, Undone, ClientsReachable
  <2>6. Counted' /\ PreloadOrder'
    <3>1. UNCHANGED <<effects, n, service>>
      BY <1>2 DEF BeginCleanup
    <3>2. Counted'
      BY <1>a, <1>b, <1>2, <3>1
      DEF BeginCleanup, ShapeOK, CallShape, Counted, Before, After,
         NoEffects
    <3>3. PreloadOrder'
      BY <1>a, <3>1 DEF PreloadOrder
    <3>4. QED
      BY <3>2, <3>3
  <2>7. QED
    BY <2>1, <2>2, <2>3, <2>4, <2>5, <2>6
    DEF IInv, Safe, TypeOK, ShapeOK, ClientsOK, NumbersOK
<1>3. CASE Cancel
  <2>1. ShapeOK'
    BY <1>a, <1>b, <1>3 DEF Cancel, ShapeOK
  <2>2. ClientsOK'
    BY <1>a, <1>b, <1>3 DEF Cancel, ClientsOK
  <2>3. NumbersOK'
    BY <1>a, <1>b, <1>3, BoundsAreNat DEF Cancel, ShapeOK, NumbersOK
  <2>4. CallShape' /\ Standing'
    BY <1>a, <1>b, <1>3 DEF Cancel, ShapeOK, NumbersOK, CallShape, Standing, Undone
  <2>5. CatalogKept' /\ Undone' /\ ClientsReachable'
    BY <1>a, <1>b, <1>3
    DEF Cancel, ShapeOK, CallShape, CatalogKept, Undone, ClientsReachable
  <2>6. Counted' /\ PreloadOrder'
    <3>1. UNCHANGED <<effects, n, service>>
      BY <1>3 DEF Cancel
    <3>2. Counted'
      BY <1>a, <1>b, <1>3, <3>1 DEF Cancel, ShapeOK, CallShape, Counted, Before, After,
         NoEffects
    <3>3. PreloadOrder'
      BY <1>a, <3>1 DEF PreloadOrder
    <3>4. QED
      BY <3>2, <3>3
  <2>7. QED
    BY <2>1, <2>2, <2>3, <2>4, <2>5, <2>6
    DEF IInv, Safe, TypeOK, ShapeOK, ClientsOK, NumbersOK
<1>4. CASE Connect
  <2>1. ShapeOK'
    BY <1>a, <1>b, <1>4 DEF Connect, Dial, ShapeOK
  <2>2. ClientsOK'
    BY <1>a, <1>b, <1>4 DEF Connect, Dial, ClientsOK
  <2>3. NumbersOK'
    BY <1>a, <1>b, <1>4, BoundsAreNat DEF Connect, Dial, ShapeOK, NumbersOK
  <2>4. CallShape' /\ Standing'
    BY <1>a, <1>b, <1>4
    DEF Connect, Dial, ShapeOK, NumbersOK, CallShape, Standing, Undone
  <2>5. CatalogKept' /\ Undone' /\ ClientsReachable'
    BY <1>a, <1>b, <1>4
    DEF Connect, Dial, ShapeOK, CallShape, CatalogKept, Undone, ClientsReachable
  <2>6. Counted' /\ PreloadOrder'
    <3>1. UNCHANGED <<effects, n, service>>
      BY <1>4 DEF Connect
    <3>2. Counted'
      BY <1>a, <1>b, <1>4, <3>1
      DEF Connect, Dial, ShapeOK, CallShape, Counted, Before, After,
         NoEffects
    <3>3. PreloadOrder'
      BY <1>a, <3>1 DEF PreloadOrder
    <3>4. QED
      BY <3>2, <3>3
  <2>7. QED
    BY <2>1, <2>2, <2>3, <2>4, <2>5, <2>6
    DEF IInv, Safe, TypeOK, ShapeOK, ClientsOK, NumbersOK
<1>5. QED
    BY <1>1, <1>2, <1>3, <1>4 DEF Caller

(* IInv is an invariant of the specification. *)
THEOREM Inductive == Spec => []IInv
<1>1. IInv /\ UNCHANGED vars => IInv'
    BY
    DEF IInv, Safe, TypeOK, CallShape, Standing, CatalogKept, Undone, Counted,
        Before,
           After, ClientsReachable, PreloadOrder, NoEffects, Running, vars, resources
<1>2. IInv /\ [Next]_vars => IInv'
    BY <1>1, CreateStep, CleanupStep, CallerStep DEF Next
<1>3. QED
    BY InitIInv, <1>2, PTL DEF Spec

(* The variables keep their types: no preload counts more often than there   *)
(* are tries.                                                                *)
THEOREM TypeCorrect == Spec => []TypeOK
<1>1. IInv => TypeOK
    BY DEF IInv
<1>2. QED
    BY Inductive, <1>1, PTL

(* Every open client is the one the object remembers.                        *)
THEOREM ClientsAreReachable == Spec => []ClientsReachable
<1>1. IInv => ClientsReachable
    BY DEF IInv, Safe
<1>2. QED
    BY Inductive, <1>1, PTL

(* A nil Cleanup leaves no container, no catalog directory and no client.    *)
THEOREM CleanupIsClean == Spec => []CleanupNilMeansClean
<1>1. IInv => CleanupNilMeansClean
    BY DEF IInv, Safe, Undone, CleanupNilMeansClean
<1>2. QED
    BY Inductive, <1>1, PTL

(* A failed Create leaves a container only where its removal was refused.    *)
THEOREM FailedCreateIsClean == Spec => []FailedCreateReleases
<1>1. IInv => FailedCreateReleases
    BY DEF IInv, Safe, Standing, Running, FailedCreateReleases
<1>2. QED
    BY Inductive, <1>1, PTL

(* A client without a container is what a failed Create leaves, alone.       *)
THEOREM OrphansExplained == Spec => []OrphanClient
<1>1. IInv => OrphanClient
  <2> SUFFICES ASSUME IInv, service.closes, pc = "idle", ~up, open # {}
               PROVE  op = "create" /\ err /\ open = {handle}
      BY DEF OrphanClient
  <2>1. op \in {"new", "create", "cleanup"} /\ open \subseteq {handle}
      BY DEF IInv, Safe, TypeOK, ClientsReachable
  <2>2. op # "new" /\ op # "cleanup"
      BY DEF IInv, Safe, CallShape, Undone
  <2>3. ~Running
      BY DEF IInv, Safe, Standing
  <2>4. QED
      BY <2>1, <2>2, <2>3 DEF Running
<1>2. QED
    BY Inductive, <1>1, PTL

(* While the container is up, it has the catalogs if their directory exists. *)
Followed == pc \in UpPoints \/ Running => (bound <=> dir)

LEMMA FollowedStep == IInv /\ Followed /\ [Next]_vars => Followed'
<1> SUFFICES ASSUME IInv, Followed, [Next]_vars PROVE Followed'
    OBVIOUS
<1>a. CallShape /\ ShapeOK
    BY TypeParts DEF IInv, Safe
<1> USE DEF Followed, Running, UpPoints
<1>1. CASE Start
    BY <1>1, <1>a DEF Start, Goto, CallShape, CreatePoints
<1>2. CASE AwaitReady \/ Redial \/ Preload \/ Preloaded
  <2>1. UNCHANGED <<bound, dir>> /\ pc \in UpPoints
      BY <1>2 DEF AwaitReady, Redial, Preload, Preloaded, resources
  <2>2. QED
      BY <2>1
<1>3. CASE Cleanup
  <2>1. pc' \in {"remove", "dir", "idle"} /\ (pc' = "idle" => op' = "cleanup" \/ err')
      BY <1>3, <1>a
      DEF Cleanup, CloseClient, RemoveContainer, RemoveDir, Goto, fixed, CallShape
  <2>2. QED
      BY <2>1
<1>4. CASE Caller \/ UNCHANGED vars
    BY <1>4 DEF Caller, BeginCreate, BeginCleanup, Begin, Cancel, Connect, vars, resources
<1>5. QED
    BY <1>1, <1>2, <1>3, <1>4 DEF Next, Create

(* A nil Create means that every preload took effect on this container, once *)
(* unless the service repeats them, and that Trino's catalogs are bound if,  *)
(* and only if, their directory is still there (trino.go:204), as it is for  *)
(* the first Create.                                                         *)
THEOREM ReadyIsPreloaded == Spec => []ReadyMeansPreloaded
<1>1. Init => Followed
    BY DEF Init, Followed, Running, UpPoints
<1>2. IInv /\ Followed => ReadyMeansPreloaded
    BY DEF IInv, Safe, Counted, CatalogKept, Followed, ReadyMeansPreloaded
<1>3. QED
    BY Inductive, FollowedStep, <1>1, <1>2, PTL DEF Spec

(* Preloads take effect in the order they were registered, retries included. *)
THEOREM PreloadsInOrder == Spec => []PreloadOrder
<1>1. IInv => PreloadOrder
    BY DEF IInv, Safe
<1>2. QED
    BY Inductive, <1>1, PTL

-----------------------------------------------------------------------------
(* The extent of two exceptions the properties make.                         *)

(* The directory never comes back, since only NewTrino writes it: after one  *)
(* nil Cleanup, every further Create that returns nil runs without catalogs. *)
RecreatedUnbound ==
    [](pc = "idle" /\ op = "cleanup" /\ ~err => [](Running => ~bound))

(* A client the object has lost is not closed by any later call, nor is it   *)
(* found again: what Memcached's Connect drops (memcached.go:116) stays open *)
(* as long as the process.                                                   *)
Lost == open \ {handle}
LostStaysLost == [][ Lost \subseteq Lost' ]_vars

(* No step writes the directory again, and a nil Cleanup has removed it.     *)
THEOREM CatalogsAreLost == Spec => RecreatedUnbound
<1>1. CleanupNilMeansClean => (pc = "idle" /\ op = "cleanup" /\ ~err => ~dir)
    BY DEF CleanupNilMeansClean
<1>2. ~dir /\ [Next]_vars => ~dir'
    BY DEF Next, Create, Cleanup, Caller, Start, AwaitReady, Redial, Preload, Preloaded,
       CloseClient, RemoveContainer, RemoveDir, BeginCreate, BeginCleanup, Begin, Cancel,
       Connect, resources, vars
<1>3. ReadyMeansPreloaded /\ ~dir => (Running => ~bound)
    BY DEF ReadyMeansPreloaded
<1>4. QED
    BY CleanupIsClean, ReadyIsPreloaded, <1>1, <1>2, <1>3, PTL DEF Spec, RecreatedUnbound

(* A lost client stays lost.                                                 *)
THEOREM LostClientsStay == Spec => LostStaysLost
<1>1. IInv /\ [Next]_vars => [Lost \subseteq Lost']_vars
  <2> SUFFICES ASSUME IInv, Next PROVE Lost \subseteq Lost'
      OBVIOUS
  <2>1. open \subseteq Clients /\ 0 \notin Clients
      BY DEF IInv, TypeOK, Clients
  <2>2. CASE Dial
      BY <2>1, <2>2 DEF Dial, Lost
  <2>3. CASE UNCHANGED <<open, handle>>
      BY <2>3 DEF Lost
  <2>4. CASE CloseClient
      BY <2>1, <2>4 DEF CloseClient, Lost
  <2>5. Dial \/ UNCHANGED <<open, handle>> \/ CloseClient
      BY DEF Next, Create, Cleanup, Caller, Start, AwaitReady, Redial, Preload, Attempt,
         Preloaded, RemoveContainer, RemoveDir, BeginCreate, BeginCleanup, Begin, Cancel,
         Connect, resources
  <2>6. QED
      BY <2>2, <2>3, <2>4, <2>5
<1>2. QED
    BY Inductive, <1>1, PTL DEF Spec, LostStaysLost

-----------------------------------------------------------------------------
(* Every step of a harness is a step of the contract or a stutter.           *)
LEMMA ContractStep == IInv /\ IInv' /\ [Next]_vars => [Contract!Next]_(Contract!vars)
<1> SUFFICES ASSUME IInv, IInv', [Next]_vars PROVE [Contract!Next]_(Contract!vars)
    OBVIOUS
<1>a. /\ op \in {"new", "create", "cleanup"} /\ op' \in {"new", "create", "cleanup"}
      /\ err \in BOOLEAN /\ err' \in BOOLEAN /\ up' \in BOOLEAN /\ refused' \in BOOLEAN
    BY DEF IInv, TypeOK
<1>1. CASE UNCHANGED vars
    BY <1>1 DEF vars, resources, Contract!vars, Phase
<1>2. CASE pc # "idle" /\ op' = op /\ op # "new"
  <2>1. CASE pc' # "idle"
    <3>1. Phase' = Phase /\ Phase \in {"creating", "cleaning"}
      BY <1>2, <1>a, <2>1 DEF Phase
    <3>2. QED
      BY <1>a, <3>1 DEF Contract!Next, Contract!Work
  <2>2. CASE pc' = "idle"
    <3>1. Phase = IF op = "create" THEN "creating" ELSE "cleaning"
      BY <1>2, <1>a DEF Phase
    <3>2. CASE op = "create" /\ err'
      <4>1. Phase' = "failed" /\ (up' => refused')
        BY <1>2, <2>2, <3>2 DEF Phase, IInv, Safe, Standing, Running
      <4>2. QED
        BY <1>a, <3>1, <3>2, <4>1
        DEF Contract!Next, Contract!ReturnError, Contract!Released
    <3>3. CASE op = "create" /\ ~err'
      <4>1. Phase' = "ready" /\ up'
        BY <1>2, <2>2, <3>3 DEF Phase, IInv, Safe, Standing, Running
      <4>2. QED
        BY <1>a, <3>1, <3>3, <4>1 DEF Contract!Next, Contract!ReturnReady
    <3>4. CASE op = "cleanup" /\ ~err'
      <4>1. Phase' = "clean" /\ ~up'
        BY <1>2, <2>2, <3>4 DEF Phase, IInv, Safe, Undone
      <4>2. QED
        BY <1>a, <3>1, <3>4, <4>1
        DEF Contract!Next, Contract!ReturnClean, Contract!Released
    <3>5. CASE op = "cleanup" /\ err'
      <4>1. Phase' = "dirty"
        BY <1>2, <2>2, <3>5 DEF Phase
      <4>2. QED
        BY <1>a, <3>1, <3>5, <4>1 DEF Contract!Next, Contract!ReturnDirty
    <3>6. QED
      BY <1>a, <1>2, <3>2, <3>3, <3>4, <3>5
  <2>3. QED
    BY <2>1, <2>2
<1>3. CASE BeginCreate
  <2>1. Phase \in {"new", "failed", "clean", "dirty"} /\ Phase' = "creating"
    BY <1>3, <1>a DEF BeginCreate, Begin, Running, Phase
  <2>2. QED
    BY <1>3, <1>a, <2>1 DEF BeginCreate, Begin, resources,
       Contract!Next, Contract!StartCreate, Contract!Call
<1>4. CASE BeginCleanup
  <2>1. Phase \in {"ready", "failed", "clean", "dirty"} /\ Phase' = "cleaning"
    BY <1>4, <1>a DEF BeginCleanup, Begin, Phase
  <2>2. QED
    BY <1>4, <1>a, <2>1 DEF BeginCleanup, Begin, resources,
       Contract!Next, Contract!StartCleanup, Contract!Call
<1>5. CASE Connect
  <2>1. Phase' = Phase /\ Phase = "ready"
    BY <1>5 DEF Connect, Running, Phase
  <2>2. QED
    BY <1>5, <1>a, <2>1 DEF Connect, Contract!Next, Contract!Rest
<1>6. CASE Create \/ Cleanup \/ Cancel
  <2>1. pc # "idle" /\ op' = op
    BY <1>6 DEF Create, Start, AwaitReady, Redial, Preload, Preloaded, Cleanup,
                CloseClient, RemoveContainer, RemoveDir, Cancel, fixed
  <2>2. op # "new"
    BY <2>1 DEF IInv, Safe, CallShape
  <2>3. QED
    BY <1>2, <2>1, <2>2
<1>7. QED
    BY <1>1, <1>3, <1>4, <1>5, <1>6 DEF Next, Caller

(* Every one-container service implements the service contract, whatever its *)
(* profile, with no excuse but a refused removal.                            *)
THEOREM ImplementsContract == Spec => KeepsContract
<1>1. Init => Contract!Init
    BY DEF Init, Contract!Init, Phase
<1>2. QED
    BY Inductive, <1>1, ContractStep, PTL DEF Spec, KeepsContract, Contract!Spec

-----------------------------------------------------------------------------
(* A call ends.  What repeated preloads and polls may still cost after t     *)
(* tries, and what a call has left to do, at most, counted in its steps.     *)
Repeats(s, k, t) == IF s.retries THEN (MaxTries - t) * (k + 1) ELSE 0
Polls(s, t)      == IF s.probe = "ping" THEN MaxTries - t ELSE 0

StepsLeft ==
    CASE pc = "start"   -> 6 + n + Repeats(service, n, 0) + Polls(service, tries)
      [] pc = "ready"   -> 5 + n + Repeats(service, n, 0) + Polls(service, tries)
      [] pc = "client"  -> 4 + n + Repeats(service, n, 0)
      [] pc = "preload" -> 3 + (n + 1 - i) + Repeats(service, n, tries)
      [] pc = "close"   -> 3
      [] pc = "remove"  -> 2
      [] pc = "dir"     -> 1
      [] pc = "idle"    -> 0

(* Nothing in a call goes round in circles, retries included: each step of   *)
(* it leaves fewer to be taken, and nobody else's step adds any.             *)
CallsAdvance ==
    [][ /\ BeginCreate => StepsLeft' = 6 + n + Repeats(service, n, 0) + Polls(service, 0)
        /\ BeginCleanup => StepsLeft' = 3
        /\ Create \/ Cleanup => StepsLeft' < StepsLeft
        /\ Connect \/ Cancel => StepsLeft' = StepsLeft ]_vars

(* The number of steps left is a natural number, and none are left only      *)
(* between calls.                                                            *)
StepsCounted == StepsLeft \in Nat /\ (StepsLeft = 0 <=> pc = "idle")

(* What a try costs is one run of the preloads, or one poll. *)
LEMMA RepeatFacts ==
    ASSUME NEW s, NEW k \in Nat, NEW t \in 0..MaxTries
    PROVE  /\ Repeats(s, k, t) \in Nat /\ Polls(s, t) \in Nat
           /\ t < MaxTries /\ s.retries
                 => Repeats(s, k, t) = Repeats(s, k, t + 1) + (k + 1)
           /\ t < MaxTries /\ s.probe = "ping" => Polls(s, t) = Polls(s, t + 1) + 1
<1>1. MaxTries \in Nat /\ MaxTries - t \in Nat
    BY BoundsAreNat
<1>2. \A m \in Nat : /\ m * (k + 1) \in Nat
                     /\ (m + 1) * (k + 1) = m * (k + 1) + (k + 1)
    OBVIOUS
<1>3. Repeats(s, k, t) \in Nat /\ Polls(s, t) \in Nat
    BY <1>1, <1>2 DEF Repeats, Polls
<1>4. ASSUME t < MaxTries
      PROVE  (MaxTries - t) * (k + 1) = (MaxTries - (t + 1)) * (k + 1) + (k + 1)
  <2>1. MaxTries - (t + 1) \in Nat /\ MaxTries - t = (MaxTries - (t + 1)) + 1
      BY <1>1, <1>4
  <2>2. QED
      BY <1>2, <2>1
<1>5. t < MaxTries => MaxTries - t = (MaxTries - (t + 1)) + 1
    BY <1>1
<1>6. QED
    BY <1>3, <1>4, <1>5 DEF Repeats, Polls

(* The running wait, and the run of the preloads after this one. *)
Tries ==
    /\ n \in Nat /\ tries \in 0..MaxTries /\ MaxTries \in Nat /\ i \in 1..n + 1
    /\ Repeats(service, n, 0) \in Nat /\ Repeats(service, n, tries) \in Nat
    /\ Polls(service, tries) \in Nat
    /\ tries < MaxTries => /\ Repeats(service, n, tries + 1) \in Nat
                           /\ Polls(service, tries + 1) \in Nat
    /\ tries < MaxTries /\ service.retries
         => Repeats(service, n, tries) = Repeats(service, n, tries + 1) + (n + 1)
    /\ tries < MaxTries /\ service.probe = "ping"
         => Polls(service, tries) = Polls(service, tries + 1) + 1

LEMMA TryFacts == IInv => Tries
<1> SUFFICES ASSUME IInv PROVE Tries
    OBVIOUS
<1>1. n \in Nat /\ tries \in 0..MaxTries /\ 0 \in 0..MaxTries /\ MaxTries \in Nat
      /\ i \in 1..n + 1
    BY TypeParts, BoundsAreNat DEF IInv, ShapeOK, NumbersOK
<1>2. tries < MaxTries => tries + 1 \in 0..MaxTries
    BY <1>1
<1>3. Repeats(service, n, 0) \in Nat
    BY <1>1, RepeatFacts
<1>4. Repeats(service, n, tries) \in Nat /\ Polls(service, tries) \in Nat
    BY <1>1, RepeatFacts
<1>5. tries < MaxTries => /\ Repeats(service, n, tries + 1) \in Nat
                          /\ Polls(service, tries + 1) \in Nat
    BY <1>1, <1>2, RepeatFacts
<1>6. /\ tries < MaxTries /\ service.retries
            => Repeats(service, n, tries) = Repeats(service, n, tries + 1) + (n + 1)
      /\ tries < MaxTries /\ service.probe = "ping"
            => Polls(service, tries) = Polls(service, tries + 1) + 1
    BY <1>1, RepeatFacts
<1>7. QED
    BY <1>1, <1>3, <1>4, <1>5, <1>6 DEF Tries

(* StepsLeft, point by point. *)
StepsByPoint ==
    /\ pc = "start" => StepsLeft = 6 + n + Repeats(service, n, 0) + Polls(service, tries)
    /\ pc = "ready" => StepsLeft = 5 + n + Repeats(service, n, 0) + Polls(service, tries)
    /\ pc = "client" => StepsLeft = 4 + n + Repeats(service, n, 0)
    /\ pc = "preload" => StepsLeft = 3 + (n + 1 - i) + Repeats(service, n, tries)
    /\ pc = "close" => StepsLeft = 3
    /\ pc = "remove" => StepsLeft = 2
    /\ pc = "dir" => StepsLeft = 1
    /\ pc = "idle" => StepsLeft = 0

LEMMA PointFacts == StepsByPoint
BY DEF StepsByPoint, StepsLeft

(* The number is a natural one, and 0 only between calls. *)
LEMMA InvCounted == IInv => StepsCounted
<1> SUFFICES ASSUME IInv PROVE StepsCounted
    OBVIOUS
<1>1. pc \in {"idle", "start", "ready", "client", "preload", "close", "remove", "dir"}
    BY TypeParts DEF IInv, ShapeOK
<1>2. Tries
    BY TryFacts
<1>3. QED
    BY <1>1, <1>2, PointFacts DEF StepsCounted, StepsByPoint, Tries

(* Each step of a call lowers it. *)
LEMMA StepLowers == IInv /\ (Create \/ Cleanup) => StepsLeft' < StepsLeft
<1> SUFFICES ASSUME IInv, Create \/ Cleanup PROVE StepsLeft' < StepsLeft
    OBVIOUS
<1>a. Tries
    BY TryFacts
<1>b. StepsByPoint /\ StepsByPoint'
    BY PointFacts, PTL
<1> USE <1>a, <1>b DEF Tries, StepsByPoint, fixed, Goto, Abort
<1>1. CASE Start
  BY <1>1 DEF Start
<1>2. CASE AwaitReady
  BY <1>2 DEF AwaitReady
<1>3. CASE Redial
  BY <1>3 DEF Redial
<1>4. CASE Preload
  BY <1>4 DEF Preload, More
<1>5. CASE Preloaded
  BY <1>5 DEF Preloaded, More
<1>6. CASE CloseClient
  BY <1>6 DEF CloseClient
<1>7. CASE RemoveContainer
  BY <1>7 DEF RemoveContainer
<1>8. CASE RemoveDir
  BY <1>8 DEF RemoveDir
<1>9. QED
  BY <1>1, <1>2, <1>3, <1>4, <1>5, <1>6, <1>7, <1>8 DEF Create, Cleanup

(* Every call ends, as far as steps can say: what is left is that a call     *)
(* that can take a step takes one.                                           *)
THEOREM CallsEnd == Spec => []StepsCounted /\ CallsAdvance
<1> DEFINE Advance ==
      /\ BeginCreate => StepsLeft' = 6 + n + Repeats(service, n, 0) + Polls(service, 0)
      /\ BeginCleanup => StepsLeft' = 3
      /\ Create \/ Cleanup => StepsLeft' < StepsLeft
      /\ Connect \/ Cancel => StepsLeft' = StepsLeft
<1>1. IInv /\ [Next]_vars => [Advance]_vars
  <2> SUFFICES ASSUME IInv, Next PROVE Advance
      OBVIOUS
  <2>1. BeginCreate => StepsLeft' = 6 + n + Repeats(service, n, 0) + Polls(service, 0)
      BY DEF BeginCreate, Begin, StepsLeft, Repeats, Polls
  <2>2. BeginCleanup => StepsLeft' = 3
      BY DEF BeginCleanup, Begin, StepsLeft
  <2>3. Create \/ Cleanup => StepsLeft' < StepsLeft
      BY StepLowers
  <2>4. Connect \/ Cancel => StepsLeft' = StepsLeft
      BY DEF Connect, Cancel, StepsLeft, Repeats, Polls
  <2>5. QED
      BY <2>1, <2>2, <2>3, <2>4
<1>2. QED
    BY Inductive, InvCounted, <1>1, PTL DEF Spec, CallsAdvance
=============================================================================
