--------------------------- MODULE AwsReadyProofs ---------------------------
(***************************************************************************)
(* What TLAPS proves of a Create of AwsStack that succeeds, for every      *)
(* configuration, any number of images and resources and any number of     *)
(* calls.                                                                  *)
(*                                                                         *)
(* A nil Create ends a loop over kinds of loops over resources, on a       *)
(* MiniStack that forgot those of an earlier Create and an object that did *)
(* not.  Built says what is there at each point of it.                     *)
(***************************************************************************)
EXTENDS AwsStackProofs

AfterStart == {"health", "resources"}
AfterPush  == {"ministack"} \cup AfterStart
Addressed  == {"sqs", "sns"}

(* The loops start at their beginning, and the containers Create has passed  *)
(* are this Create's, at the addresses the object publishes.                 *)
Placed ==
    /\ pc \in {"network", "registry", "registryUp"} => i = 1
    /\ pc \in CreatePoints \ {"resources"} => stage = 1
    /\ ~conf.registry => registryPort = 0
    /\ conf.registry /\ (pc \in {"registryUp", "images"} \cup AfterPush \/ Running)
         => run["registry"] = creates /\ registryPort = creates
    /\ pc \in AfterStart \/ Running => run["ministack"] = creates /\ port = creates

(* How far the loop over images has come. *)
Preloaded ==
    \A j \in DOMAIN conf.images :
       (pc = "images" /\ j < i) \/ pc \in AfterPush \/ Running => conf.images[j] \in pushed

(* What a step of createResources leaves behind. *)
Returns(k, step)  == [kind |-> k, name |-> step.name, run |-> creates]
Provided(k, step) ==
    /\ k \notin {"cluster", "task"} => <<k, step.name>> \in made
    /\ k = "cluster" /\ Trim(step.name) # "" => <<k, Trim(step.name)>> \in made
    /\ k \in {"service", "task"} => step.image \in pushed \cup {""}
    /\ k \in Addressed => Returns(k, step) \in ids

(* How far createResources has come. *)
Past(s, j) == \/ pc = "resources" /\ (s < stage \/ (s = stage /\ j < i))
              \/ Running

Filled ==
    \A s \in DOMAIN Order : \A j \in DOMAIN conf.wanted[Order[s]] :
       Past(s, j) => Provided(Order[s], conf.wanted[Order[s]][j])

(* The object keeps one address for a name, and none but of names that were  *)
(* asked for.                                                                *)
Remembered ==
    /\ \A x \in ids : /\ x.kind \in Addressed
                      /\ \E j \in DOMAIN conf.wanted[x.kind] :
                            x.name = conf.wanted[x.kind][j].name
    /\ \A x, y \in ids : x.kind = y.kind /\ x.name = y.name => x = y

(* No cluster has blanks around its name. *)
ClustersTrimmed == \A name \in DOMAIN Trimmed : <<"cluster", name>> \notin made

(* The invariant, relative to IInv. *)
Built == Placed /\ Preloaded /\ Filled /\ Remembered /\ ClustersTrimmed

-----------------------------------------------------------------------------
(* Initially nothing is built. *)
LEMMA InitBuilt == Init => Built
<1> SUFFICES ASSUME Init PROVE Built
    OBVIOUS
<1>1. ~Running /\ pc = "idle" /\ ids = {}
    BY DEF Init, Running
<1>2. Placed /\ Preloaded /\ Remembered
    BY <1>1, Zenon
    DEF Init, Placed, Preloaded, Remembered, AfterPush, AfterStart, CreatePoints
<1>3. Filled
    BY <1>1 DEF Filled, Past
<1>4. ClustersTrimmed
    BY DEF Init, ClustersTrimmed
<1>5. QED
    BY <1>2, <1>3, <1>4 DEF Built

(* The containers are this Create's, whatever the step. *)
LEMMA PlacedStep == IInv /\ Placed /\ [Next]_vars => Placed'
<1> SUFFICES ASSUME IInv, Placed, [Next]_vars PROVE Placed'
    OBVIOUS
<1> USE DEF Placed, AfterPush, AfterStart, CreatePoints, ReleasePoints, world, network,
            object, call, history, fixed, kept, Goto, Fail, Abort, Begin, Await,
            Release, Record, Ask, Done, Running
<1>a. /\ CallShape /\ WorldOK /\ CallOK /\ ContainersKnown
      /\ conf.registry = TRUE \/ conf.registry = FALSE
    BY AwsAssumption DEF IInv, Safe, TypeOK, ObjectOK, Configuration
<1> USE <1>a DEF CallShape
<1>1. CASE CreateNetwork
    BY <1>1 DEF CreateNetwork
<1>2. CASE StartRegistry
    BY <1>2 DEF StartRegistry, WorldOK, Containers, CanStart, Up
<1>3. CASE AwaitRegistry
    BY <1>3 DEF AwaitRegistry
<1>4. CASE PreloadImage
    BY <1>4 DEF PreloadImage
<1>5. CASE StartMiniStack
    BY <1>5 DEF StartMiniStack, WorldOK, Containers, CanStart, Up
<1>6. CASE AwaitMiniStack
    BY <1>6 DEF AwaitMiniStack
<1>7. CASE CreateResource
    BY <1>7 DEF CreateResource, AtStep
<1>8. CASE CreateECSCluster
    BY <1>8 DEF CreateECSCluster, AtStep
<1>9. CASE CreateECSService
    BY <1>9 DEF CreateECSService, AtStep
<1>10. CASE RunECSTask
    BY <1>10 DEF RunECSTask, AtStep
<1>11. CASE NextKind
    BY <1>11 DEF NextKind
<1>12. CASE NoClient
    BY <1>12 DEF NoClient
<1>13. CASE DeleteServices
    BY <1>13 DEF DeleteServices
<1>14. CASE StopTasks
    BY <1>14 DEF StopTasks
<1>15. CASE DeleteClusters
    BY <1>15 DEF DeleteClusters
<1>16. CASE CleanupMiniStack
    BY <1>16 DEF CleanupMiniStack, WorldOK, Containers
<1>17. CASE CleanupRegistry
    BY <1>17 DEF CleanupRegistry, WorldOK, Containers
<1>18. CASE RemoveNetwork
    BY <1>18 DEF RemoveNetwork
<1>19. CASE SetNetwork
    BY <1>19 DEF SetNetwork, Containers, Up, ContainersKnown
<1>20. CASE BeginCreate
    BY <1>20 DEF BeginCreate
<1>21. CASE BeginCleanup
    BY <1>21 DEF BeginCleanup
<1>22. CASE Cancel
    BY <1>22 DEF Cancel
<1>23. CASE TaskExits
    BY <1>23 DEF TaskExits
<1>24. CASE OtherCreates
    BY <1>24 DEF OtherCreates
<1>25. CASE OtherRemoves
    BY <1>25 DEF OtherRemoves
<1>26. CASE UNCHANGED vars
    BY <1>26 DEF vars
<1>27. QED
    BY <1>1, <1>2, <1>3, <1>4, <1>5, <1>6, <1>7, <1>8, <1>9, <1>10, <1>11, <1>12, <1>13,
    <1>14, <1>15, <1>16, <1>17, <1>18, <1>19, <1>20, <1>21, <1>22, <1>23, <1>24, <1>25,
    <1>26
    DEF Next, Create, CreateResources, Cleanup, Caller, Outside

(* The images Create has passed are in the registry, whatever the step. *)
LEMMA PreloadedStep == IInv /\ Placed /\ Preloaded /\ [Next]_vars => Preloaded'
<1> SUFFICES ASSUME IInv, Placed, Preloaded, [Next]_vars PROVE Preloaded'
    OBVIOUS
<1> USE DEF Preloaded, AfterPush, AfterStart, CreatePoints, ReleasePoints, world, network,
            object, call, history, fixed, kept, Goto, Fail, Abort, Begin, Await,
            Release, Record, Ask, Done, Running
<1>a. /\ CallShape /\ CallOK /\ i \in Nat \ {0}
      /\ conf.images \in Seq(STRING)
    BY AwsAssumption DEF IInv, Safe, TypeOK, ObjectOK, LoopOK, Configuration
<1> USE <1>a DEF CallShape
<1>1. CASE CreateNetwork
    BY <1>1 DEF CreateNetwork
<1>2. CASE StartRegistry
  <2>1. /\ pc' \in {"images", "registryUp", "services"} /\ conf' = conf
        /\ pc' = "images" => i' = 1
    BY <1>2 DEF StartRegistry, Placed
  <2>2. QED
    BY <2>1
<1>3. CASE AwaitRegistry
    BY <1>3 DEF AwaitRegistry, Placed
<1>4. CASE PreloadImage
  <2>1. CASE /\ i <= Len(conf.images) /\ Stored(conf.images[i])
            /\ i' = i + 1 /\ UNCHANGED <<pc, conf>>
    BY <1>4, <2>1 DEF PreloadImage, Stored
  <2>2. CASE pc' = "services"
    BY <2>2
  <2>3. CASE i > Len(conf.images) /\ pc' = "ministack" /\ UNCHANGED <<pushed, conf>>
    BY <1>4, <2>3 DEF PreloadImage
  <2>4. QED
    BY <1>4, <2>1, <2>2, <2>3 DEF PreloadImage
<1>5. CASE StartMiniStack
    BY <1>5 DEF StartMiniStack
<1>6. CASE AwaitMiniStack
    BY <1>6 DEF AwaitMiniStack
<1>7. CASE CreateResource
    BY <1>7 DEF CreateResource, AtStep
<1>8. CASE CreateECSCluster
    BY <1>8 DEF CreateECSCluster, AtStep
<1>9. CASE CreateECSService
  <2>1. pushed \subseteq pushed' \/ pc' = "services"
    BY <1>9 DEF CreateECSService, Register, Stored
  <2>2. pc = "resources" /\ pc' \in {"resources", "services"} /\ conf' = conf
    BY <1>9 DEF CreateECSService, AtStep
  <2>3. QED
    BY <2>1, <2>2
<1>10. CASE RunECSTask
  <2>1. pushed \subseteq pushed' \/ pc' = "services"
    BY <1>10 DEF RunECSTask, Register, Stored
  <2>2. pc = "resources" /\ pc' \in {"resources", "services"} /\ conf' = conf
    BY <1>10 DEF RunECSTask, AtStep
  <2>3. QED
    BY <2>1, <2>2
<1>11. CASE NextKind
    BY <1>11 DEF NextKind
<1>12. CASE NoClient
    BY <1>12 DEF NoClient
<1>13. CASE DeleteServices
    BY <1>13 DEF DeleteServices
<1>14. CASE StopTasks
    BY <1>14 DEF StopTasks
<1>15. CASE DeleteClusters
    BY <1>15 DEF DeleteClusters
<1>16. CASE CleanupMiniStack
    BY <1>16 DEF CleanupMiniStack
<1>17. CASE CleanupRegistry
    BY <1>17 DEF CleanupRegistry
<1>18. CASE RemoveNetwork
    BY <1>18 DEF RemoveNetwork
<1>19. CASE SetNetwork
    BY <1>19 DEF SetNetwork
<1>20. CASE BeginCreate
    BY <1>20 DEF BeginCreate
<1>21. CASE BeginCleanup
    BY <1>21 DEF BeginCleanup
<1>22. CASE Cancel
    BY <1>22 DEF Cancel
<1>23. CASE TaskExits
    BY <1>23 DEF TaskExits
<1>24. CASE OtherCreates
    BY <1>24 DEF OtherCreates
<1>25. CASE OtherRemoves
    BY <1>25 DEF OtherRemoves
<1>26. CASE UNCHANGED vars
    BY <1>26 DEF vars
<1>27. QED
    BY <1>1, <1>2, <1>3, <1>4, <1>5, <1>6, <1>7, <1>8, <1>9, <1>10, <1>11, <1>12, <1>13,
    <1>14, <1>15, <1>16, <1>17, <1>18, <1>19, <1>20, <1>21, <1>22, <1>23, <1>24, <1>25,
    <1>26
    DEF Next, Create, CreateResources, Cleanup, Caller, Outside

(* Clusters are made under trimmed names, and nothing else makes any. *)
LEMMA ClustersTrimmedStep == ClustersTrimmed /\ [Next]_vars => ClustersTrimmed'
<1> SUFFICES ASSUME ClustersTrimmed, [Next]_vars PROVE ClustersTrimmed'
    OBVIOUS
<1>1. made' \subseteq made => ClustersTrimmed'
    BY DEF ClustersTrimmed
<1>2. Make /\ Kind # "cluster" => ClustersTrimmed'
    BY DEF ClustersTrimmed, Make
<1>3. CASE CreateResource
  <2>1. Kind # "cluster" /\ (Make \/ UNCHANGED made)
    BY <1>3 DEF CreateResource, AtStep, ECS
  <2>2. QED
    BY <1>1, <1>2, <2>1
<1>4. CASE CreateECSService
  <2>1. Kind # "cluster" /\ (Make \/ UNCHANGED made)
    BY <1>4 DEF CreateECSService, AtStep
  <2>2. QED
    BY <1>1, <1>2, <2>1
<1>5. CASE CreateECSCluster
  <2>1. Trim(Now.name) \notin DOMAIN Trimmed
    BY TrimmedAssumption DEF Trim
  <2>2. CASE MakeCluster
    BY <2>1, <2>2 DEF MakeCluster, ClusterName, ClustersTrimmed
  <2>3. QED
    BY <1>1, <1>5, <2>2 DEF CreateECSCluster
<1>6. CASE ~(CreateResource \/ CreateECSService \/ CreateECSCluster)
  <2>1. made' \subseteq made
    BY <1>6
    DEF Next, Create, CreateResources, Cleanup, Caller, Outside, vars, world, Begin,
        Await, CreateNetwork, StartRegistry, AwaitRegistry, PreloadImage,
        StartMiniStack, AwaitMiniStack, RunECSTask, NextKind, NoClient, DeleteServices,
        StopTasks, DeleteClusters, CleanupMiniStack, CleanupRegistry, RemoveNetwork,
        SetNetwork, BeginCreate, BeginCleanup, Cancel, TaskExits, OtherCreates,
        OtherRemoves
  <2>2. QED
    BY <1>1, <2>1
<1>7. QED
    BY <1>3, <1>4, <1>5, <1>6

(* The object remembers one address for each name, whatever the step. *)
LEMMA RememberedStep == IInv /\ Remembered /\ [Next]_vars => Remembered'
<1> SUFFICES ASSUME IInv, Remembered, [Next]_vars PROVE Remembered'
    OBVIOUS
<1>1. UNCHANGED <<ids, conf>> => Remembered'
    BY DEF Remembered
<1>2. CASE CreateResource /\ Kind \in Addressed /\ i <= Len(Wanted) /\ ids' = Returned
  <2>1. conf' = conf /\ i \in DOMAIN Wanted
    BY <1>2, ConfFacts DEF CreateResource, kept, fixed, IInv, TypeOK, ObjectOK, LoopOK
  <2>2. ids' = {x \in ids : <<x.kind, x.name>> # <<Kind, Now.name>>}
                 \cup {Returns(Kind, Now)}
    BY <1>2 DEF Returned, Addressed, Returns
  <2>3. /\ Returns(Kind, Now).kind = Kind /\ Returns(Kind, Now).name = Now.name
        /\ Now = conf.wanted[Kind][i]
    BY DEF Returns, Now, Wanted
  <2>4. \A x \in ids' : /\ x.kind \in Addressed
                        /\ \E j \in DOMAIN conf.wanted[x.kind] :
                              x.name = conf.wanted[x.kind][j].name
    BY <1>2, <2>1, <2>2, <2>3 DEF Remembered, Wanted
  <2>5. \A x, y \in ids' : x.kind = y.kind /\ x.name = y.name => x = y
    BY <2>2, <2>3 DEF Remembered
  <2>6. QED
    BY <2>1, <2>4, <2>5 DEF Remembered
<1>3. CASE CreateResource
  <2>1. UNCHANGED ids \/ (Kind \in Addressed /\ ids' = Returned)
    BY <1>3 DEF CreateResource, Returned, Addressed
  <2>2. conf' = conf /\ i <= Len(Wanted)
    BY <1>3 DEF CreateResource, kept, fixed, AtStep
  <2>3. QED
    BY <1>1, <1>2, <1>3, <2>1, <2>2
<1>4. CASE [Next]_vars /\ ~CreateResource
  <2>1. UNCHANGED <<ids, conf>>
    BY <1>4
    DEF Next, Create, CreateResources, Cleanup, Caller, Outside, vars, world, network,
        object, call, history, fixed, kept, Begin, Await, Release, Record, Ask,
        CreateNetwork, StartRegistry, AwaitRegistry, PreloadImage, StartMiniStack,
        AwaitMiniStack, CreateECSCluster, CreateECSService, RunECSTask, NextKind,
        NoClient, DeleteServices, StopTasks, DeleteClusters, CleanupMiniStack,
        CleanupRegistry, RemoveNetwork, SetNetwork, BeginCreate, BeginCleanup, Cancel,
        TaskExits, OtherCreates, OtherRemoves
  <2>2. QED
    BY <1>1, <2>1
<1>5. QED
    BY <1>3, <1>4

-----------------------------------------------------------------------------
(* What was provided stays so while what is made, pushed and known grows. *)
Grows == /\ made \subseteq made' /\ pushed \subseteq pushed' /\ creates' = creates
         /\ \A k \in Addressed, step \in Step :
               Returns(k, step) \in ids => Returns(k, step) \in ids'

LEMMA ProvidedStays ==
    ASSUME Grows, NEW k \in Kinds, NEW step \in Step, Provided(k, step)
    PROVE  Provided(k, step)'
<1>1. Returns(k, step)' = Returns(k, step)
    BY DEF Returns, Grows
<1>2. k \in Addressed => Returns(k, step) \in ids'
    BY DEF Grows, Provided
<1>3. QED
    BY <1>1, <1>2 DEF Provided, Grows

(* One step of createResources: if what it stands at is provided, and the    *)
(* rest stays, the loop is filled one step further.                          *)
LEMMA OneFurther ==
    ASSUME IInv, Filled, pc = "resources", i <= Len(Wanted),
           UNCHANGED <<conf, stage>>, Done, Grows,
           \A k \in Kinds, step \in Step : k = Kind /\ step = Now => Provided(k, step)'
    PROVE  Filled'
<1>1. SUFFICES ASSUME NEW s \in DOMAIN Order, NEW j \in DOMAIN conf.wanted[Order[s]],
                      Past(s, j)'
               PROVE  Provided(Order[s], conf.wanted[Order[s]][j])'
    BY DEF Filled
<1> DEFINE k == Order[s]
           step == conf.wanted[k][j]
<1>2. conf.wanted \in [Kinds -> Seq(Step)] /\ k \in Kinds
    BY AwsAssumption, OrderFacts DEF IInv, TypeOK, ObjectOK, Configuration
<1>3. step \in Step /\ j \in Nat /\ s \in Nat /\ stage \in Nat /\ i \in Nat
  <2>1. conf.wanted[k] \in Seq(Step)
    BY <1>2
  <2>2. step \in Step /\ j \in Nat
    BY <2>1
  <2>3. s \in Nat /\ stage \in Nat /\ i \in Nat
    BY OrderFacts DEF IInv, TypeOK, LoopOK
  <2>4. QED
    BY <2>2, <2>3
<1>4. s < stage \/ (s = stage /\ j < i) \/ (s = stage /\ j = i)
    BY <1>1, <1>3 DEF Past, Done, Goto, Running
<1>5. UNCHANGED step
    OBVIOUS
<1>6. Provided(k, step)'
  <2>1. CASE s = stage /\ j = i
    BY <1>2, <1>3, <2>1 DEF Now, Wanted, Kind
  <2>2. CASE s < stage \/ (s = stage /\ j < i)
    <3>1. Provided(k, step)
      BY <2>2 DEF Filled, Past
    <3>2. PICK st \in Step : st = step
      BY <1>3
    <3>3. Provided(k, st)'
      BY <1>2, <3>1, <3>2, ProvidedStays
    <3>4. QED
      BY <1>5, <3>2, <3>3 DEF Provided, Returns
  <2>3. QED
    BY <1>4, <2>1, <2>2
<1>7. QED
    BY <1>6

(* createResources has provided what it has passed, whatever the step. *)
LEMMA FilledStep == IInv /\ Placed /\ Filled /\ [Next]_vars => Filled'
<1> SUFFICES ASSUME IInv, Placed, Filled, [Next]_vars PROVE Filled'
    OBVIOUS
<1>a. /\ CallShape /\ conf \in Confs
      /\ stage \in DOMAIN Order /\ i \in Nat \ {0} /\ Wanted \in Seq(Step)
  <2>1. CallShape /\ conf \in Confs /\ stage \in DOMAIN Order /\ i \in Nat \ {0}
    BY DEF IInv, Safe, TypeOK, ObjectOK, LoopOK
  <2>2. Wanted \in Seq(Step)
    BY <2>1, ConfFacts, Zenon
  <2>3. QED
    BY <2>1, <2>2
<1>b. pc' # "resources" /\ ~Running' => Filled'
    BY DEF Filled, Past
<1>c. UNCHANGED <<pc, op, err, stage, i, creates, conf, made, pushed, ids>> => Filled'
  <2>1. SUFFICES
          ASSUME UNCHANGED <<pc, op, err, stage, i, creates, conf, made, pushed, ids>>
          PROVE  Filled'
    OBVIOUS
  <2>2. \A s, j : Past(s, j)' <=> Past(s, j)
    BY <2>1 DEF Past, Running
  <2>3. \A k, step : Provided(k, step)' <=> Provided(k, step)
    BY <2>1 DEF Provided, Returns
  <2>4. QED
    BY <2>1, <2>2, <2>3 DEF Filled
<1>d. Abort => Filled'
    BY <1>b DEF Abort, Fail, Running
<1>1. CASE CreateResource
  <2>1. /\ AtStep(Kinds \ ECS) /\ UNCHANGED <<conf, creates, stage, pushed>>
        /\ Abort \/ (Accepted /\ Make /\ ids' = Returned /\ Done)
    BY <1>1 DEF CreateResource, kept, fixed
  <2>2. CASE Accepted /\ Make /\ ids' = Returned /\ Done
    <3>1. Kind \notin {"cluster", "service", "task"}
      BY <2>1 DEF AtStep, ECS
    <3>2. Kind \in Addressed => Returns(Kind, Now) \in ids'
      BY <2>2 DEF Returned, Returns, Addressed
    <3>3. Grows
      <4>1. ASSUME NEW k \in Addressed, NEW step \in Step, Returns(k, step) \in ids
            PROVE  Returns(k, step) \in ids'
        <5>1. CASE k = Kind /\ step.name = Now.name
          BY <3>2, <5>1 DEF Returns
        <5>2. CASE ~(k = Kind /\ step.name = Now.name)
          <6>1. <<Returns(k, step).kind, Returns(k, step).name>> # <<Kind, Now.name>>
            BY <5>2 DEF Returns
          <6>2. QED
            BY <2>2, <4>1, <6>1 DEF Returned
        <5>3. QED
          BY <5>1, <5>2
      <4>2. QED
        BY <2>1, <2>2, <4>1 DEF Grows, Make
    <3>4. ASSUME NEW k \in Kinds, NEW step \in Step, k = Kind, step = Now
          PROVE  Provided(k, step)'
      <4>1. Returns(k, step)' = Returns(Kind, Now)
        BY <2>1, <3>4 DEF Returns
      <4>2. <<k, step.name>> \in made'
        BY <2>2, <3>4 DEF Make
      <4>3. QED
        BY <3>1, <3>2, <3>4, <4>1, <4>2 DEF Provided
    <3>5. QED
      BY <2>1, <2>2, <3>3, <3>4, OneFurther DEF AtStep
  <2>3. QED
    BY <1>d, <2>1, <2>2
<1>2. CASE CreateECSCluster
  <2>1. /\ AtStep({"cluster"}) /\ UNCHANGED <<conf, creates, stage, pushed, ids>>
        /\ \/ Abort
           \/ Skipped /\ Done /\ UNCHANGED made
           \/ MakeCluster /\ Done
    BY <1>2 DEF CreateECSCluster, kept, fixed, object
  <2>2. CASE Done /\ (MakeCluster \/ (Skipped /\ UNCHANGED made))
    <3>1. Grows
      BY <2>1, <2>2 DEF Grows, MakeCluster
    <3>2. Trim(Now.name) # "" => <<"cluster", Trim(Now.name)>> \in made'
      <4>1. CASE MakeCluster
        BY <4>1 DEF MakeCluster, ClusterName
      <4>2. CASE Skipped /\ UNCHANGED made /\ Trim(Now.name) # ""
        <5>1. PICK j \in 1..(i - 1) : Trim(Wanted[j].name) = Trim(Now.name)
          BY <4>2 DEF Skipped, ClusterName
        <5>2. j \in DOMAIN Wanted /\ Past(stage, j) /\ Kind = "cluster"
          BY <1>a, <2>1, <5>1 DEF AtStep, Past
        <5>3. Provided(Kind, Wanted[j])
          BY <1>a, <5>2 DEF Filled, Wanted, Kind
        <5>4. QED
          BY <4>2, <5>1, <5>2, <5>3 DEF Provided
      <4>3. QED
        BY <2>2, <4>1, <4>2
    <3>3. ASSUME NEW k \in Kinds, NEW step \in Step, k = Kind, step = Now
          PROVE  Provided(k, step)'
      BY <2>1, <3>2, <3>3 DEF Provided, AtStep, Addressed
    <3>4. QED
      BY <2>1, <2>2, <3>1, <3>3, OneFurther DEF AtStep
  <2>3. QED
    BY <1>d, <2>1, <2>2
<1>3. CASE CreateECSService \/ RunECSTask
  <2>1. /\ AtStep({"service", "task"}) /\ UNCHANGED <<conf, creates, stage, ids>>
        /\ \/ Abort
           \/ /\ Register /\ Accepted /\ Done
              /\ Make \/ (Kind = "task" /\ UNCHANGED made)
    BY <1>3 DEF CreateECSService, RunECSTask, kept, fixed, object, AtStep
  <2>2. CASE Register /\ Accepted /\ Done /\ (Make \/ (Kind = "task" /\ UNCHANGED made))
    <3>1. pushed \subseteq pushed' /\ Now.image \in pushed' \cup {""}
      BY <2>2 DEF Register, Accepted, Pushes, Stored
    <3>2. Grows
      BY <2>1, <2>2, <3>1 DEF Grows, Make
    <3>3. ASSUME NEW k \in Kinds, NEW step \in Step, k = Kind, step = Now
          PROVE  Provided(k, step)'
      BY <2>1, <2>2, <3>1, <3>3 DEF Provided, AtStep, Addressed, Make
    <3>4. QED
      BY <2>1, <2>2, <3>2, <3>3, OneFurther DEF AtStep
  <2>3. QED
    BY <1>d, <2>1, <2>2
<1>4. CASE NextKind
  <2>1. /\ pc = "resources" /\ i > Len(Wanted) /\ i' = 1
        /\ UNCHANGED <<conf, creates, made, pushed, ids>>
        /\ \/ stage = Len(Order) /\ pc' = "idle"
           \/ stage' = stage + 1 /\ pc' = "resources"
    BY <1>4 DEF NextKind, kept, fixed, world, object, Goto
  <2>2. SUFFICES ASSUME NEW s \in DOMAIN Order, NEW j \in DOMAIN conf.wanted[Order[s]],
                        Past(s, j)'
                 PROVE  Past(s, j)
    BY <2>1 DEF Filled, Provided, Returns
  <2>3. conf.wanted[Order[s]] \in Seq(Step) /\ s \in 1..11 /\ stage \in 1..11
        /\ Len(Order) = 11
    BY <1>a, OrderFacts, AwsAssumption DEF Configuration
  <2>4. j \in 1..Len(conf.wanted[Order[s]])
    BY <2>3
  <2>5. s = stage => j < i
    BY <1>a, <2>1, <2>4 DEF Wanted, Kind
  <2>6. s <= stage
    BY <2>1, <2>2, <2>3, <2>4 DEF Past, Running
  <2>7. QED
    BY <2>1, <2>3, <2>5, <2>6 DEF Past
<1>5. CASE AwaitMiniStack
  <2>1. Abort \/ (pc' = "resources" /\ UNCHANGED <<stage, i>>)
    BY <1>5 DEF AwaitMiniStack, Await, Goto
  <2>2. CASE pc' = "resources" /\ UNCHANGED <<stage, i>>
    <3>1. stage' = 1 /\ i' = 1 /\ conf' = conf
      BY <1>a, <1>5, <2>2
      DEF AwaitMiniStack, Await, Placed, CallShape, CreatePoints, kept, fixed
    <3>2. SUFFICES ASSUME NEW s \in DOMAIN Order, NEW j \in DOMAIN conf.wanted[Order[s]]
                   PROVE  ~Past(s, j)'
      BY <3>1 DEF Filled
    <3>3. conf.wanted[Order[s]] \in Seq(Step) /\ s \in 1..11
      BY <1>a, OrderFacts, AwsAssumption DEF Configuration
    <3>4. j \in 1..Len(conf.wanted[Order[s]])
      BY <3>3
    <3>5. QED
      BY <2>2, <3>1, <3>3, <3>4 DEF Past, Running
  <2>3. QED
    BY <1>d, <2>1, <2>2
<1>6. CASE NoClient
  BY <1>d, <1>6 DEF NoClient
<1>7. CASE CreateNetwork \/ StartRegistry \/ AwaitRegistry \/ PreloadImage
           \/ StartMiniStack
  <2>1. pc' # "resources" /\ (pc' = "idle" => err')
    BY <1>7
    DEF CreateNetwork, StartRegistry, AwaitRegistry, PreloadImage, StartMiniStack,
        Await, Abort, Fail, Goto
  <2>2. QED
    BY <1>b, <2>1 DEF Running
<1>8. CASE Cleanup
  <2>1. pc' # "resources" /\ (pc' = "idle" => op' = "cleanup" \/ err')
    BY <1>a, <1>8
    DEF Cleanup, DeleteServices, StopTasks, DeleteClusters, CleanupMiniStack,
        CleanupRegistry, RemoveNetwork, Ask, Release, Record, CallShape, ReleasePoints
  <2>2. QED
    BY <1>b, <2>1 DEF Running
<1>9. CASE Caller \/ Outside \/ UNCHANGED vars
  <2>1. \/ pc' # "resources" /\ ~Running'
        \/ UNCHANGED <<pc, op, err, stage, i, creates, conf, made, pushed, ids>>
    BY <1>9
    DEF Caller, Outside, vars, SetNetwork, BeginCreate, BeginCleanup, Cancel, Begin,
        TaskExits, OtherCreates, OtherRemoves, world, network, object, call, history,
        Running
  <2>2. QED
    BY <1>b, <1>c, <2>1
<1>10. QED
    BY <1>1, <1>2, <1>3, <1>4, <1>5, <1>6, <1>7, <1>8, <1>9
    DEF Next, Create, CreateResources

-----------------------------------------------------------------------------
(* Built holds throughout: Create has put in place what it has passed. *)
THEOREM BuiltKept == Spec => []Built
<1>1. IInv /\ Built /\ [Next]_vars => Built'
    BY PlacedStep, PreloadedStep, FilledStep, RememberedStep, ClustersTrimmedStep
       DEF Built
<1>2. QED
    BY InitBuilt, Inductive, <1>1, PTL DEF Spec

(* The addresses the object publishes are those of the resources asked for,  *)
(* on the MiniStack that is up.                                              *)
LEMMA PublishedAddresses ==
    ASSUME IInv, Built, Running
    PROVE  HostEnv = UNION {{[kind |-> k, name |-> conf.wanted[k][j].name, run |-> port] :
                               j \in DOMAIN conf.wanted[k]} : k \in {"sqs", "sns"}}
<1>1. port = creates /\ ids \subseteq [kind : Kinds, name : STRING, run : Runs]
    BY DEF Built, Placed, IInv, TypeOK, ObjectOK
<1>2. ASSUME NEW k \in Addressed, NEW j \in DOMAIN conf.wanted[k]
      PROVE  Returns(k, conf.wanted[k][j]) \in ids
  <2>1. PICK s \in DOMAIN Order : k = Order[s]
    BY <1>2, OrderFacts DEF Order, Addressed
  <2>2. Provided(k, conf.wanted[k][j])
    BY <1>2, <2>1 DEF Built, Filled, Past
  <2>3. QED
    BY <1>2, <2>2 DEF Provided
<1>3. ASSUME NEW x \in ids
      PROVE  /\ x.run = port /\ x.kind \in Addressed
             /\ \E j \in DOMAIN conf.wanted[x.kind] : x.name = conf.wanted[x.kind][j].name
  <2>1. x.kind \in Addressed
    BY DEF Built, Remembered
  <2>2. PICK j \in DOMAIN conf.wanted[x.kind] : x.name = conf.wanted[x.kind][j].name
    BY DEF Built, Remembered
  <2>3. Returns(x.kind, conf.wanted[x.kind][j]) \in ids
    BY <1>2, <2>1
  <2>4. x = Returns(x.kind, conf.wanted[x.kind][j])
    BY <2>2, <2>3 DEF Built, Remembered, Returns
  <2>5. x.run = port
    BY <1>1, <2>4 DEF Returns
  <2>6. QED
    BY <2>1, <2>2, <2>5
<1>4. HostEnv = ids
  <2>1. \A x \in ids : [x EXCEPT !.run = IF x.kind = "sqs" THEN port ELSE @] = x
    BY <1>1, <1>3
  <2>2. QED
    BY <2>1 DEF HostEnv
<1>5. ASSUME NEW x \in ids
      PROVE  \E k \in Addressed : \E j \in DOMAIN conf.wanted[k] :
                x = [kind |-> k, name |-> conf.wanted[k][j].name, run |-> port]
  <2>1. x = [kind |-> x.kind, name |-> x.name, run |-> x.run]
    BY <1>1
  <2>2. QED
    BY <1>3, <2>1
<1>6. ASSUME NEW k \in Addressed, NEW j \in DOMAIN conf.wanted[k]
      PROVE  [kind |-> k, name |-> conf.wanted[k][j].name, run |-> port] \in ids
    BY <1>1, <1>2 DEF Returns
<1>7. QED
    BY <1>4, <1>5, <1>6 DEF Addressed

LEMMA BuiltIsComplete == IInv /\ Built => ReadyMeansComplete
<1> SUFFICES ASSUME IInv, Built, Running
             PROVE  /\ Up("ministack") /\ port = run["ministack"]
                    /\ registryPort = run["registry"] /\ (conf.registry => Up("registry"))
                    /\ \A k \in Kinds \ {"cluster", "task"} :
                          \A j \in DOMAIN conf.wanted[k] :
                             <<k, conf.wanted[k][j].name>> \in made
                    /\ \A j \in DOMAIN conf.wanted["cluster"] :
                          Trim(conf.wanted["cluster"][j].name) # ""
                            => <<"cluster", Trim(conf.wanted["cluster"][j].name)>> \in made
                    /\ \A j \in DOMAIN conf.images : conf.images[j] \in pushed
                    /\ \A k \in {"service", "task"} : \A j \in DOMAIN conf.wanted[k] :
                          conf.wanted[k][j].image \in pushed \cup {""}
    BY PublishedAddresses DEF ReadyMeansComplete
<1>1. Up("ministack") /\ port = run["ministack"]
    BY DEF IInv, Safe, ContainersKnown
<1>2. registryPort = run["registry"] /\ (conf.registry => Up("registry"))
  <2>1. conf.registry \in BOOLEAN /\ run["ministack"] = creates /\ run["registry"] \in Nat
    BY AwsAssumption
    DEF Built, Placed, IInv, TypeOK, ObjectOK, WorldOK, Configuration, Containers, Runs
  <2>2. CASE conf.registry
    BY <1>1, <2>1, <2>2 DEF Built, Placed, Up
  <2>3. CASE ~conf.registry
    BY <2>1, <2>3 DEF Built, Placed, IInv, Safe, ContainersKnown, Up
  <2>4. QED
    BY <2>1, <2>2, <2>3
<1>3. \A k \in Kinds : \A j \in DOMAIN conf.wanted[k] : Provided(k, conf.wanted[k][j])
  <2>1. \A k \in Kinds : \E s \in DOMAIN Order : k = Order[s]
    BY DEF Kinds
  <2>2. QED
    BY <2>1 DEF Built, Filled, Past
<1>4. {"cluster", "service", "task"} \subseteq Kinds
    BY OrderFacts DEF ECS
<1>5. \A j \in DOMAIN conf.images : conf.images[j] \in pushed
    BY DEF Built, Preloaded
<1>6. QED
    BY <1>1, <1>2, <1>3, <1>4, <1>5 DEF Provided

(* A nil Create means that all that was asked for is there, on the MiniStack *)
(* that is up, at the addresses the object publishes (aws.go:551).           *)
THEOREM ReadyIsComplete == Spec => []ReadyMeansComplete
    BY Inductive, BuiltKept, BuiltIsComplete, PTL

-----------------------------------------------------------------------------
(* What one more option can make of a configuration.  A network given to     *)
(* WithDockerNetwork is not the stack's own.                                 *)
Applied(c) ==
    {WithDockerSocket(c), WithRegistry(c)}
    \cup {Enable(c, services) : services \in SUBSET STRING}
    \cup {WithResources(c, kind, steps) : kind \in Kinds \ ECS, steps \in Seq(Step)}
    \cup {WithDockerNetwork(c, net) : net \in {"none", "shared"}}
    \cup {WithLocalImage(c, image) : image \in STRING}
    \cup {WithECSCluster(c, name) : name \in STRING}
    \cup {WithECS(c, kind, step) : kind \in {"service", "task"}, step \in Step}

(* What any number of options can make of a blank one: what is in every set  *)
(* that holds the blank one and is closed under options.                     *)
Configured ==
    {c \in Configuration : \A S \in SUBSET Configuration :
        Blank \in S /\ (\A x \in S : Applied(x) \subseteq S) => c \in S}

(* NewStack runs the options and completes the result (aws.go:189-196).      *)
Stacks == {NewStack(c) : c \in Configured}

Sound(c) == c \in Configuration /\ WellBuilt(c)

LEMMA KindFacts ==
    /\ {"cluster", "service", "task"} \subseteq Kinds
    /\ ECS = {"cluster", "service", "task"} /\ Kinds \subseteq STRING
    BY OrderFacts, LiteralAssumption DEF ECS

LEMMA BlankIsSound == Sound(Blank)
<1>1. [k \in Kinds |-> << >>] \in [Kinds -> Seq(Step)]
    OBVIOUS
<1>2. Blank \in Configuration
    BY <1>1 DEF Blank, Configuration
<1>3. \A k \in Kinds : Blank.wanted[k] = << >>
    BY DEF Blank
<1>4. WellBuilt(Blank)
    BY <1>3, KindFacts DEF WellBuilt, Blank
<1>5. QED
    BY <1>2, <1>4 DEF Sound

(* Options that ask for nothing to be made only add to what is there. *)
LEMMA MoreIsSound ==
    ASSUME NEW c, NEW d, Sound(c), d \in Configuration,
           d.wanted = c.wanted, c.services \subseteq d.services,
           c.docker => d.docker, c.registry => d.registry, d.registry => d.docker,
           d.images # << >> => d.registry
    PROVE  Sound(d)
<1>1. WellBuilt(c)
    BY DEF Sound
<1>2. \A k \in Kinds : Hosted(c, k) => Hosted(d, k)
    BY DEF Hosted
<1>3. \A step : Finds(c, step) => Finds(d, step)
    BY DEF Finds, AsksFor
<1>4. WellBuilt(d)
    BY <1>1, <1>2, <1>3 DEF WellBuilt
<1>5. QED
    BY <1>4 DEF Sound

(* Setting fields of a configuration. *)
LEMMA FieldFacts ==
    ASSUME NEW c \in Configuration
    PROVE  /\ WithDockerSocket(c) \in Configuration
           /\ WithDockerSocket(c).docker
           /\ WithDockerSocket(c).services = c.services
           /\ WithDockerSocket(c).registry = c.registry
           /\ WithDockerSocket(c).images = c.images
           /\ WithDockerSocket(c).wanted = c.wanted
           /\ WithRegistry(c) \in Configuration
           /\ WithRegistry(c).docker /\ WithRegistry(c).registry
           /\ WithRegistry(c).services = c.services
           /\ WithRegistry(c).images = c.images
           /\ WithRegistry(c).wanted = c.wanted
    BY DEF Configuration, WithDockerSocket, WithRegistry

(* What Want adds, and what it leaves alone. *)
LEMMA WantFacts ==
    ASSUME NEW c \in Configuration, NEW kind \in Kinds, NEW steps \in Seq(Step)
    PROVE  LET d == Want(c, kind, steps)
           IN  /\ d \in Configuration
               /\ d.services = c.services /\ d.docker = c.docker /\ d.images = c.images
               /\ d.registry = c.registry
               /\ d.wanted[kind] = c.wanted[kind] \o steps
               /\ \A k \in Kinds \ {kind} : d.wanted[k] = c.wanted[k]
<1> DEFINE d == Want(c, kind, steps)
<1>1. c.wanted \in [Kinds -> Seq(Step)]
    BY DEF Configuration
<1>2. c.wanted[kind] \o steps \in Seq(Step)
    BY <1>1
<1>3. d.wanted = [c.wanted EXCEPT ![kind] = c.wanted[kind] \o steps]
    BY DEF Want, Configuration
<1>4. d.wanted \in [Kinds -> Seq(Step)]
    BY <1>1, <1>2, <1>3
<1>5. d \in Configuration
    BY <1>4 DEF Want, Configuration
<1>6. QED
    BY <1>1, <1>3, <1>5 DEF Want, Configuration

(* Where the elements of s \o t are from, and where those of t are in it. *)
LEMMA Appended ==
    ASSUME NEW S, NEW s \in Seq(S), NEW t \in Seq(S)
    PROVE  /\ \A j \in DOMAIN s : j \in DOMAIN (s \o t) /\ (s \o t)[j] = s[j]
           /\ \A j \in DOMAIN (s \o t) : \/ j \in DOMAIN s /\ (s \o t)[j] = s[j]
                                         \/ \E l \in DOMAIN t : (s \o t)[j] = t[l]
<1>1. /\ DOMAIN s = 1..Len(s) /\ DOMAIN t = 1..Len(t)
      /\ DOMAIN (s \o t) = 1..(Len(s) + Len(t)) /\ Len(s) \in Nat /\ Len(t) \in Nat
    OBVIOUS
<1>2. \A j \in 1..Len(s) : j \in 1..(Len(s) + Len(t)) /\ (s \o t)[j] = s[j]
    BY <1>1
<1>3. ASSUME NEW j \in 1..(Len(s) + Len(t)), j > Len(s)
      PROVE  \E l \in 1..Len(t) : (s \o t)[j] = t[l]
  <2>1. j - Len(s) \in 1..Len(t) /\ (s \o t)[j] = t[j - Len(s)]
    BY <1>1, <1>3
  <2>2. QED
    BY <2>1
<1>4. \A j \in 1..(Len(s) + Len(t)) : j > Len(s) \/ j \in 1..Len(s)
    BY <1>1
<1>5. QED
    BY <1>1, <1>2, <1>3, <1>4

LEMMA AppendedOne ==
    ASSUME NEW s \in Seq(Step), NEW t \in Seq(Step)
    PROVE  Len(t) = 1 => \E j \in DOMAIN (s \o t) : (s \o t)[j] = t[1]
<1>1. /\ DOMAIN (s \o t) = 1..(Len(s) + Len(t))
      /\ Len(s) \in Nat /\ Len(t) \in Nat
    OBVIOUS
<1>2. Len(t) = 1 => Len(s) + 1 \in DOMAIN (s \o t) /\ (s \o t)[Len(s) + 1] = t[1]
    BY <1>1
<1>3. QED
    BY <1>2

(* Asking for more of a kind keeps a configuration sound if it is hosted and *)
(* each step finds what it needs.                                            *)
LEMMA WantIsSound ==
    ASSUME NEW c, Sound(c), NEW kind \in Kinds, NEW steps \in Seq(Step),
           Hosted(c, kind),
           kind \in {"service", "task"} =>
               \A l \in DOMAIN steps : Finds(c, steps[l])
    PROVE  Sound(Want(c, kind, steps))
<1> DEFINE d == Want(c, kind, steps)
<1>a. c \in Configuration /\ WellBuilt(c) /\ c.wanted \in [Kinds -> Seq(Step)]
    BY DEF Sound, Configuration
<1>b. /\ d \in Configuration
      /\ d.services = c.services /\ d.docker = c.docker /\ d.images = c.images
      /\ d.registry = c.registry
      /\ d.wanted[kind] = c.wanted[kind] \o steps
      /\ \A k \in Kinds \ {kind} : d.wanted[k] = c.wanted[k]
    BY <1>a, WantFacts
<1> HIDE DEF d
<1>c. /\ \A j \in DOMAIN c.wanted[kind] : j \in DOMAIN d.wanted[kind]
                                          /\ d.wanted[kind][j] = c.wanted[kind][j]
      /\ \A j \in DOMAIN d.wanted[kind] :
            \/ j \in DOMAIN c.wanted[kind] /\ d.wanted[kind][j] = c.wanted[kind][j]
            \/ \E l \in DOMAIN steps : d.wanted[kind][j] = steps[l]
  <2> DEFINE s == c.wanted[kind]
  <2>1. s \in Seq(Step)
    BY <1>a
  <2> HIDE DEF s
  <2>2. /\ \A j \in DOMAIN s : j \in DOMAIN (s \o steps) /\ (s \o steps)[j] = s[j]
        /\ \A j \in DOMAIN (s \o steps) :
              \/ j \in DOMAIN s /\ (s \o steps)[j] = s[j]
              \/ \E l \in DOMAIN steps : (s \o steps)[j] = steps[l]
    BY <2>1, Appended
  <2>3. d.wanted[kind] = s \o steps
    BY <1>b DEF s
  <2>4. QED
    BY <2>2, <2>3 DEF s
<1>1. \A k \in Kinds : Hosted(c, k) <=> Hosted(d, k)
    BY <1>b DEF Hosted
<1>2. \A k \in Kinds : d.wanted[k] # << >> => Hosted(d, k)
  <2>1. \A k \in Kinds : c.wanted[k] # << >> => Hosted(c, k)
    BY <1>a DEF WellBuilt
  <2>2. QED
    BY <1>b, <1>1, <2>1
<1>3. \A name : AsksFor(c, name) => AsksFor(d, name)
  <2>1. CASE kind = "cluster"
    BY <1>c, <2>1, Zenon DEF AsksFor
  <2>2. CASE kind # "cluster"
    BY <1>b, <2>2, KindFacts DEF AsksFor
  <2>3. QED
    BY <2>1, <2>2
<1>4. \A step : Finds(c, step) => Finds(d, step)
    BY <1>b, <1>3 DEF Finds
<1>5. ASSUME NEW k \in {"service", "task"}, NEW j \in DOMAIN d.wanted[k]
      PROVE  Finds(d, d.wanted[k][j])
  <2>1. \A l \in DOMAIN c.wanted[k] : Finds(c, c.wanted[k][l])
    BY <1>a DEF WellBuilt
  <2>2. CASE k = kind
    <3>1. CASE j \in DOMAIN c.wanted[kind] /\ d.wanted[kind][j] = c.wanted[kind][j]
      BY <1>4, <2>1, <2>2, <3>1
    <3>2. CASE \E l \in DOMAIN steps : d.wanted[kind][j] = steps[l]
      BY <1>4, <2>2, <3>2
    <3>3. QED
      BY <1>c, <2>2, <3>1, <3>2
  <2>3. CASE k # kind
    BY <1>b, <1>4, <2>1, <2>3, KindFacts
  <2>4. QED
    BY <2>2, <2>3
<1>6. (d.images # << >> => d.registry) /\ (d.registry => d.docker)
    BY <1>a, <1>b DEF WellBuilt
<1>7. WellBuilt(d)
    BY <1>2, <1>5, <1>6 DEF WellBuilt
<1>8. QED
    BY <1>b, <1>7 DEF Sound, d

(* Every option keeps a configuration sound. *)
LEMMA EnableIsSound ==
    ASSUME NEW c, Sound(c), NEW services \in SUBSET STRING
    PROVE  LET d == Enable(c, services)
           IN  /\ Sound(d) /\ d.services = c.services \cup services
<1> DEFINE d == Enable(c, services)
<1>1. c \in Configuration /\ WellBuilt(c)
    BY DEF Sound
<1>2. /\ d \in Configuration /\ d.services = c.services \cup services
      /\ d.wanted = c.wanted /\ d.docker = c.docker /\ d.registry = c.registry
      /\ d.images = c.images
    BY <1>1 DEF Enable, Configuration
<1> HIDE DEF d
<1>3. (d.registry => d.docker) /\ (d.images # << >> => d.registry)
    BY <1>1, <1>2 DEF WellBuilt
<1>4. Sound(d)
    BY <1>2, <1>3, MoreIsSound
<1>5. QED
    BY <1>2, <1>4 DEF d

LEMMA ResourcesAreSound ==
    ASSUME NEW c, Sound(c), NEW kind \in Kinds \ ECS, NEW steps \in Seq(Step)
    PROVE  Sound(WithResources(c, kind, steps))
<1> DEFINE d == Service(c, kind)
<1>a. {kind} \in SUBSET STRING
    BY KindFacts
<1>1. Sound(d) /\ kind \in d.services
    BY <1>a, EnableIsSound DEF Service
<1>2. Hosted(d, kind) /\ kind \notin {"service", "task"}
    BY <1>1 DEF Hosted, ECS
<1> HIDE DEF d
<1>3. Sound(Want(d, kind, steps))
    BY <1>1, <1>2, WantIsSound
<1>4. QED
    BY <1>3 DEF WithResources, d

LEMMA SocketIsSound ==
    ASSUME NEW c, Sound(c)
    PROVE  Sound(WithDockerSocket(c)) /\ Sound(WithRegistry(c))
<1>1. c \in Configuration /\ WellBuilt(c)
    BY DEF Sound
<1>2. Sound(WithDockerSocket(c))
  <2>1. c.images # << >> => c.registry
    BY <1>1 DEF WellBuilt
  <2>2. QED
    BY <1>1, <2>1, FieldFacts, MoreIsSound
<1>3. Sound(WithRegistry(c))
    BY <1>1, FieldFacts, MoreIsSound
<1>4. QED
    BY <1>2, <1>3

(* Where the containers go does not matter to what they need. *)
LEMMA MovedIsSound ==
    ASSUME NEW c, Sound(c), NEW net \in {"none", "own", "shared"}
    PROVE  Sound([c EXCEPT !.network = net])
<1> DEFINE d == [c EXCEPT !.network = net]
<1>1. c \in Configuration /\ WellBuilt(c)
    BY DEF Sound
<1>2. /\ d \in Configuration /\ d.services = c.services
      /\ d.wanted = c.wanted /\ d.docker = c.docker /\ d.registry = c.registry
      /\ d.images = c.images
    BY <1>1 DEF Configuration
<1> HIDE DEF d
<1>3. (d.registry => d.docker) /\ (d.images # << >> => d.registry)
    BY <1>1, <1>2 DEF WellBuilt
<1>4. Sound(d)
    BY <1>2, <1>3, MoreIsSound
<1>5. QED
    BY <1>4 DEF d

LEMMA NetworkIsSound ==
    ASSUME NEW c, Sound(c), NEW net \in {"none", "shared"}
    PROVE  Sound(WithDockerNetwork(c, net))
<1> DEFINE n == IF net = "none" THEN c.network ELSE net
<1>1. n \in {"none", "own", "shared"}
    BY DEF Sound, Configuration
<1>2. Sound([WithDockerSocket(c) EXCEPT !.network = n])
    BY <1>1, SocketIsSound, MovedIsSound
<1>3. WithDockerNetwork(c, net) = [WithDockerSocket(c) EXCEPT !.network = n]
    BY DEF WithDockerNetwork, WithDockerSocket, Sound, Configuration
<1>4. QED
    BY <1>2, <1>3

LEMMA ImageIsSound ==
    ASSUME NEW c, Sound(c), NEW image \in STRING
    PROVE  Sound(WithLocalImage(c, image))
<1> DEFINE r == WithRegistry(c)  d == [r EXCEPT !.images = Append(r.images, image)]
<1>1. Sound(r) /\ r \in Configuration /\ r.registry /\ r.docker
    BY SocketIsSound, FieldFacts DEF Sound
<1> HIDE DEF r
<1>2. r.images \in Seq(STRING)
    BY <1>1 DEF Configuration
<1>3. Append(r.images, image) \in Seq(STRING)
    BY <1>2
<1>4. d \in Configuration /\ d.wanted = r.wanted /\ d.services = r.services
      /\ d.registry = r.registry /\ d.docker = r.docker
    BY <1>1, <1>3 DEF Configuration
<1> HIDE DEF d
<1>5. Sound(d)
    BY <1>1, <1>4, MoreIsSound
<1>6. WithLocalImage(c, image) = d
    BY DEF WithLocalImage, r, d
<1>7. QED
    BY <1>5, <1>6

LEMMA ClusterIsSound ==
    ASSUME NEW c, Sound(c), NEW name \in STRING
    PROVE  LET d == WithECSCluster(c, name)
           IN  /\ Sound(d) /\ Hosted(d, "service") /\ d.registry = c.registry
               /\ name # "" => AsksFor(d, name)
<1> DEFINE on  == Service(c, "ecs")
           ecs == WithDockerSocket(on)
           one == <<Named(name)>>
           d   == Want(ecs, "cluster", one)
<1>a. {"ecs"} \in SUBSET STRING
    BY LiteralAssumption
<1>1. Sound(on) /\ on \in Configuration /\ "ecs" \in on.services
    BY <1>a, EnableIsSound DEF Service, Sound
<1>2. on.registry = c.registry
    BY DEF Service, Enable, Sound, Configuration
<1> HIDE DEF on
<1>3. Sound(ecs) /\ ecs \in Configuration /\ "ecs" \in ecs.services /\ ecs.docker
      /\ ecs.registry = c.registry
    BY <1>1, <1>2, SocketIsSound, FieldFacts DEF Sound
<1> HIDE DEF ecs
<1>b. "cluster" \in Kinds
    BY KindFacts
<1>4. Named(name) \in Step /\ Named(name).name = name /\ "cluster" \in Kinds
    BY <1>b, LiteralAssumption DEF Named, Step
<1>5. one \in Seq(Step) /\ DOMAIN one = {1} /\ Len(one) = 1 /\ one[1] = Named(name)
    BY <1>4
<1> HIDE DEF one
<1>6. Hosted(ecs, "cluster") /\ Hosted(ecs, "service")
    BY <1>3, KindFacts DEF Hosted
<1>7. Sound(d)
    BY <1>3, <1>4, <1>5, <1>6, WantIsSound
<1>8. /\ d.services = ecs.services /\ d.docker = ecs.docker /\ d.registry = ecs.registry
      /\ d.wanted["cluster"] = ecs.wanted["cluster"] \o one
  <2>1. ecs \in Configuration /\ "cluster" \in Kinds /\ one \in Seq(Step)
    BY <1>3, <1>4, <1>5
  <2>2. QED
    BY <2>1, WantFacts
<1> HIDE DEF d
<1>9. AsksFor(d, name)
  <2> DEFINE s == ecs.wanted["cluster"]
  <2>1. s \in Seq(Step) /\ one \in Seq(Step) /\ Len(one) = 1
    BY <1>3, <1>4, <1>5 DEF Configuration
  <2> HIDE DEF s
  <2>2. \E j \in DOMAIN (s \o one) : (s \o one)[j] = one[1]
    BY <2>1, AppendedOne
  <2>3. d.wanted["cluster"] = s \o one
    BY <1>8 DEF s
  <2>4. QED
    BY <1>4, <1>5, <2>2, <2>3 DEF AsksFor
<1>10. Hosted(d, "service")
    BY <1>6, <1>8, KindFacts DEF Hosted
<1>11. WithECSCluster(c, name) = IF name = "" THEN ecs ELSE d
    BY DEF WithECSCluster, ecs, d, on, one
<1>12. QED
    BY <1>3, <1>6, <1>7, <1>8, <1>9, <1>10, <1>11

LEMMA ECSIsSound ==
    ASSUME NEW c, Sound(c), NEW kind \in {"service", "task"}, NEW step \in Step
    PROVE  Sound(WithECS(c, kind, step))
<1> DEFINE with == IF step.image = "" THEN c ELSE WithRegistry(c)
           ecs  == WithECSCluster(with, step.cluster)
           one  == <<step>>
<1>1. Sound(with) /\ (step.image # "" => with.registry)
    BY SocketIsSound, FieldFacts DEF Sound
<1> HIDE DEF with
<1>2. step.cluster \in STRING /\ kind \in Kinds /\ kind \in ECS
    BY KindFacts DEF Step
<1>3. one \in Seq(Step) /\ DOMAIN one = {1} /\ one[1] = step
    OBVIOUS
<1> HIDE DEF one
<1>4. /\ Sound(ecs) /\ Hosted(ecs, "service") /\ ecs.registry = with.registry
      /\ step.cluster # "" => AsksFor(ecs, step.cluster)
    BY <1>1, <1>2, ClusterIsSound
<1> HIDE DEF ecs
<1>5. Hosted(ecs, kind) /\ Finds(ecs, step)
    BY <1>1, <1>2, <1>4, KindFacts DEF Hosted, Finds
<1>6. Sound(Want(ecs, kind, one))
    BY <1>2, <1>3, <1>4, <1>5, WantIsSound
<1>7. QED
    BY <1>6 DEF WithECS, with, ecs, one

(* Whatever the options and their order, NewStack gets a configuration that  *)
(* is well built (aws.go:189).                                               *)
THEOREM OptionsAreWellBuilt == \A c \in Stacks : c \in Configuration /\ WellBuilt(c)
<1>1. ASSUME NEW c, Sound(c) PROVE \A d \in Applied(c) : Sound(d)
  <2>1. Sound(WithDockerSocket(c)) /\ Sound(WithRegistry(c))
    BY <1>1, SocketIsSound
  <2>2. \A services \in SUBSET STRING : Sound(Enable(c, services))
    BY <1>1, EnableIsSound
  <2>3. \A kind \in Kinds \ ECS : \A steps \in Seq(Step) :
           Sound(WithResources(c, kind, steps))
    BY <1>1, ResourcesAreSound
  <2>4. \A net \in {"none", "shared"} : Sound(WithDockerNetwork(c, net))
    BY <1>1, NetworkIsSound
  <2>5. \A image \in STRING : Sound(WithLocalImage(c, image))
    BY <1>1, ImageIsSound
  <2>6. \A name \in STRING : Sound(WithECSCluster(c, name))
    BY <1>1, ClusterIsSound
  <2>7. \A kind \in {"service", "task"} : \A step \in Step : Sound(WithECS(c, kind, step))
    BY <1>1, ECSIsSound
  <2>8. TAKE d \in Applied(c)
  <2>9. QED
    BY <2>1, <2>2, <2>3, <2>4, <2>5, <2>6, <2>7, <2>8 DEF Applied
<1>2. ASSUME NEW c \in Configured PROVE Sound(c)
  <2> DEFINE S == {x \in Configuration : Sound(x)}
  <2>1. Blank \in S
    BY BlankIsSound DEF Sound
  <2>2. \A x \in S : Applied(x) \subseteq S
    BY <1>1 DEF Sound
  <2>3. c \in S
    BY <2>1, <2>2 DEF Configured
  <2>4. QED
    BY <2>3
<1>3. ASSUME NEW c, Sound(c) PROVE Sound(NewStack(c))
    BY <1>3, MovedIsSound DEF NewStack
<1>4. QED
    BY <1>2, <1>3 DEF Stacks, Sound

-----------------------------------------------------------------------------
(* MiniStack's network stays while MiniStack is on it, and a network given   *)
(* from outside stays altogether.                                            *)
Joined ==
    /\ nets["shared"] = "other"
    /\ pc \in AfterStart /\ networkName # "none" => nets[networkName] # "absent"

LEMMA JoinedStep == IInv /\ Joined /\ [Next]_vars => Joined'
<1> SUFFICES ASSUME IInv, Joined, [Next]_vars PROVE Joined'
    OBVIOUS
<1> USE DEF Joined, AfterStart, CreatePoints, ReleasePoints, world, network, object, call,
            history, fixed, kept, Goto, Fail, Abort, Begin, Await, Release, Record, Ask,
            Done, AtStep
<1>a. /\ CallShape /\ NetworkOwned
      /\ nets \in [Networks -> {"absent", "us", "other", "heir"}]
      /\ networkName \in Networks \cup {"none"} /\ Networks = {"own", "shared"}
    BY DEF IInv, Safe, TypeOK, WorldOK, ObjectOK, Networks
<1>b. pc \in AfterStart => Attached(networkName)
  <2>1. pc \in AfterStart => Up("ministack") /\ "ministack" \in Containers
    BY DEF IInv, Safe, ContainersKnown, Containers
  <2>2. QED
    BY <2>1 DEF Attached
<1> USE <1>a DEF CallShape
<1>1. CASE CreateNetwork
    BY <1>1 DEF CreateNetwork
<1>2. CASE StartRegistry
    BY <1>2 DEF StartRegistry
<1>3. CASE AwaitRegistry
    BY <1>3 DEF AwaitRegistry
<1>4. CASE PreloadImage
    BY <1>4 DEF PreloadImage
<1>5. CASE StartMiniStack
    BY <1>5 DEF StartMiniStack, CanStart
<1>6. CASE AwaitMiniStack
    BY <1>6 DEF AwaitMiniStack
<1>7. CASE CreateResource
    BY <1>7 DEF CreateResource
<1>8. CASE CreateECSCluster
    BY <1>8 DEF CreateECSCluster
<1>9. CASE CreateECSService
    BY <1>9 DEF CreateECSService
<1>10. CASE RunECSTask
    BY <1>10 DEF RunECSTask
<1>11. CASE NextKind
    BY <1>11 DEF NextKind
<1>12. CASE NoClient
    BY <1>12 DEF NoClient
<1>13. CASE DeleteServices
    BY <1>13 DEF DeleteServices
<1>14. CASE StopTasks
    BY <1>14 DEF StopTasks
<1>15. CASE DeleteClusters
    BY <1>15 DEF DeleteClusters
<1>16. CASE CleanupMiniStack
    BY <1>16 DEF CleanupMiniStack
<1>17. CASE CleanupRegistry
    BY <1>17 DEF CleanupRegistry
<1>18. CASE RemoveNetwork
    BY <1>18 DEF RemoveNetwork, NetworkOwned
<1>19. CASE SetNetwork
    BY <1>19 DEF SetNetwork
<1>20. CASE BeginCreate
    BY <1>20 DEF BeginCreate
<1>21. CASE BeginCleanup
    BY <1>21 DEF BeginCleanup
<1>22. CASE Cancel
    BY <1>22 DEF Cancel
<1>23. CASE TaskExits
    BY <1>23 DEF TaskExits
<1>24. CASE OtherCreates
    BY <1>24 DEF OtherCreates
<1>25. CASE OtherRemoves
    BY <1>25, <1>b DEF OtherRemoves
<1>26. CASE UNCHANGED vars
    BY <1>26 DEF vars
<1>27. QED
    BY <1>1, <1>2, <1>3, <1>4, <1>5, <1>6, <1>7, <1>8, <1>9, <1>10, <1>11, <1>12, <1>13,
    <1>14, <1>15, <1>16, <1>17, <1>18, <1>19, <1>20, <1>21, <1>22, <1>23, <1>24, <1>25,
    <1>26
    DEF Next, Create, CreateResources, Cleanup, Caller, Outside

(* At a step of createResources the kinds before it are complete. *)
LEMMA EarlierKinds ==
    ASSUME IInv, Built, AtStep({"service", "task"})
    PROVE  \A l \in DOMAIN conf.wanted["cluster"] :
              Trim(conf.wanted["cluster"][l].name) # ""
                => <<"cluster", Trim(conf.wanted["cluster"][l].name)>> \in made
<1>1. Order[9] = "cluster" /\ stage \in 1..11 /\ 9 \in DOMAIN Order
    BY OrderFacts DEF Order, IInv, TypeOK, LoopOK
<1>2. stage > 9
  <2>1. \A s \in 1..9 : Order[s] \notin {"service", "task"}
    BY DEF Order
  <2>2. QED
    BY <1>1, <2>1 DEF AtStep, Kind
<1>3. \A l \in DOMAIN conf.wanted["cluster"] : Past(9, l)
    BY <1>1, <1>2 DEF Past, AtStep
<1>4. QED
    BY <1>1, <1>3 DEF Built, Filled, Provided

LEMMA BuiltMeetsNeeds ==
    ASSUME Confs \subseteq Stacks
    PROVE  IInv /\ Built /\ Joined => NeedsMet
<1> SUFFICES ASSUME IInv, Built, Joined PROVE NeedsMet
    OBVIOUS
<1>a. /\ WellBuilt(conf) /\ conf \in Configuration /\ conf \in Confs
      /\ stage \in DOMAIN Order
      /\ creates \in Nat /\ i \in Nat \ {0} /\ CallShape
    BY OptionsAreWellBuilt, AwsAssumption
    DEF IInv, Safe, TypeOK, ObjectOK, LoopOK, CallOK, Runs
<1>b. Kind \in Kinds /\ Wanted \in Seq(Step) /\ conf.images \in Seq(STRING)
    BY <1>a, ConfFacts
<1>1. ASSUME conf.registry, pc \in {"images"} \cup AfterPush PROVE RegistryAnswers
    BY <1>1, <1>a
    DEF Built, Placed, RegistryAnswers, CallShape, CreatePoints, AfterPush, AfterStart
<1>2. pc = "images" /\ i <= Len(conf.images) => RegistryAnswers
  <2>1. i <= Len(conf.images) => conf.images # << >>
    BY <1>a, <1>b
  <2>2. QED
    BY <1>a, <1>1, <2>1 DEF WellBuilt
<1>3. ASSUME pc = "resources", i <= Len(Wanted)
      PROVE  /\ Hosted(conf, Kind) /\ i \in DOMAIN Wanted
             /\ Kind \in {"service", "task"} => Finds(conf, Now)
  <2>1. i \in DOMAIN Wanted /\ Wanted # << >>
    BY <1>3, <1>a, <1>b
  <2>2. QED
    BY <1>a, <1>b, <2>1 DEF WellBuilt, Wanted, Now
<1>4. AtStep(Kinds) => Enabled(conf, IF Kind \in ECS THEN "ecs" ELSE Kind)
  <2>1. \A s \in Kinds \cup {"ecs"} : Trim(s) = s
    BY TrimmedAssumption DEF Trim
  <2>2. \A s \in Kinds \cup {"ecs"} : s # "" /\ s \in conf.services => Enabled(conf, s)
    BY <2>1 DEF Enabled
  <2>3. "" \notin Kinds
    <3>1. /\ Order[1] # "" /\ Order[2] # "" /\ Order[3] # "" /\ Order[4] # ""
          /\ Order[5] # "" /\ Order[6] # "" /\ Order[7] # "" /\ Order[8] # ""
          /\ Order[9] # "" /\ Order[10] # "" /\ Order[11] # ""
      BY DEF Order
    <3>2. \A s \in 1..11 : \/ s = 1 \/ s = 2 \/ s = 3 \/ s = 4 \/ s = 5 \/ s = 6
                           \/ s = 7 \/ s = 8 \/ s = 9 \/ s = 10 \/ s = 11
      OBVIOUS
    <3>3. QED
      BY <3>1, <3>2, OrderFacts DEF Kinds
  <2>4. QED
    BY <1>3, <1>b, <2>2, <2>3 DEF AtStep, Hosted
<1>5. ASSUME AtStep({"service", "task"})
      PROVE  /\ Now.image # "" => RegistryAnswers
             /\ Now.cluster # ""
                  => (<<"cluster", Now.cluster>> \in made <=> Trim(Now.cluster) = Now.cluster)
             /\ conf.docker
             /\ networkName = TaskNetwork /\ TaskNetwork # "none"
                   => nets[TaskNetwork] # "absent"
  <2>1. Hosted(conf, Kind) /\ Finds(conf, Now) /\ pc = "resources" /\ Kind \in ECS
    BY <1>3, <1>5 DEF AtStep, ECS
  <2>2. Now.image # "" => RegistryAnswers
    BY <1>1, <2>1 DEF Finds, AfterPush, AfterStart
  <2>3. Now.cluster # ""
          => (<<"cluster", Now.cluster>> \in made <=> Trim(Now.cluster) = Now.cluster)
    <3>1. ASSUME Now.cluster # "", Trim(Now.cluster) = Now.cluster
          PROVE  <<"cluster", Now.cluster>> \in made
      BY <1>5, <2>1, <3>1, EarlierKinds DEF Finds, AsksFor
    <3>2. ASSUME Trim(Now.cluster) # Now.cluster
          PROVE  <<"cluster", Now.cluster>> \notin made
      BY <3>2 DEF Trim, Built, ClustersTrimmed
    <3>3. QED
      BY <3>1, <3>2
  <2>4. conf.docker
    BY <2>1 DEF Hosted
  <2>5. networkName = TaskNetwork /\ TaskNetwork # "none" => nets[TaskNetwork] # "absent"
    BY <2>1 DEF Joined, AfterStart
  <2>6. QED
    BY <2>2, <2>3, <2>4, <2>5
<1>6. QED
    BY <1>2, <1>4, <1>5 DEF NeedsMet

(* Whatever options a stack was made of, a step of createResources finds the *)
(* service, registry and network it needs (aws.go:551), and its cluster      *)
(* exactly if the option named it without blanks around (ecs.go:141, 171).   *)
THEOREM NeedsAreMet == ASSUME Confs \subseteq Stacks PROVE Spec => []NeedsMet
<1>1. Init => Joined
    BY DEF Init, Joined, AfterStart
<1>2. Spec => []Joined
    BY Inductive, <1>1, JoinedStep, PTL DEF Spec
<1>3. QED
    BY Inductive, BuiltKept, <1>2, BuiltMeetsNeeds, PTL

-----------------------------------------------------------------------------
(* A call ends.  The turns it takes over the images, and in createResources  *)
(* over the k-th kind, one for each resource and one to go on, and over all  *)
(* the kinds after the s-th.                                                 *)
Preloads(c) == Len(c.images)
Turns(c, k) == Len(c.wanted[Order[k]]) + 1

After(c, s, k) == IF s < k THEN Turns(c, k) ELSE 0
Later(c, s) ==
    After(c, s, 1) + After(c, s, 2) + After(c, s, 3) + After(c, s, 4) + After(c, s, 5)
      + After(c, s, 6) + After(c, s, 7) + After(c, s, 8) + After(c, s, 9)
      + After(c, s, 10) + After(c, s, 11)

(* What a call has left to do, at most, counted in its steps. *)
StepsLeft ==
    CASE pc = "network"     -> 12 + Preloads(conf) + Later(conf, 0)
      [] pc = "registry"    -> 11 + Preloads(conf) + Later(conf, 0)
      [] pc = "registryUp"  -> 10 + Preloads(conf) + Later(conf, 0)
      [] pc = "images"      -> 10 + (Preloads(conf) - i) + Later(conf, 0)
      [] pc = "ministack"   -> 8 + Later(conf, 0)
      [] pc = "health"      -> 7 + Later(conf, 0)
      [] pc = "resources"   -> 7 + (Turns(conf, stage) - i) + Later(conf, stage)
      [] pc = "services"    -> 6
      [] pc = "tasks"       -> 5
      [] pc = "clusters"    -> 4
      [] pc = "rmMiniStack" -> 3
      [] pc = "rmRegistry"  -> 2
      [] pc = "rmNet"       -> 1
      [] pc = "idle"        -> 0

(* Nothing in a call goes round in circles, and the loop over the kinds that *)
(* holds the loops over the resources no less: each step of a call leaves    *)
(* fewer to be taken, and nobody else's step adds any.                       *)
CallsAdvance ==
    [][ /\ BeginCreate => StepsLeft' = 12 + Preloads(conf) + Later(conf, 0)
        /\ BeginCleanup => StepsLeft' = 6
        /\ Create \/ Cleanup => StepsLeft' < StepsLeft
        /\ SetNetwork \/ Cancel \/ Outside => StepsLeft' = StepsLeft ]_vars

(* The number of steps left is a natural number, and none are left only      *)
(* between calls.                                                            *)
StepsCounted == StepsLeft \in Nat /\ (StepsLeft = 0 <=> pc = "idle")

(* The loop over the images does not run past its end. *)
ImagesBounded == pc = "images" => i <= Preloads(conf) + 1

LEMMA ImagesStep == IInv /\ Placed /\ ImagesBounded /\ [Next]_vars => ImagesBounded'
<1> SUFFICES ASSUME IInv, Placed, ImagesBounded, [Next]_vars PROVE ImagesBounded'
    OBVIOUS
<1>a. Preloads(conf) \in Nat /\ i \in Nat
  <2>1. conf.images \in Seq(STRING)
    BY ConfFacts DEF IInv, TypeOK, ObjectOK, LoopOK
  <2>2. QED
    BY <2>1 DEF Preloads, IInv, TypeOK, LoopOK
<1> USE <1>a
    DEF ImagesBounded, world, network, object, call, history, fixed, kept, Goto,
        Fail, Abort, Begin, Await, Release, Record, Ask, Done
<1>1. CASE CreateNetwork
  BY <1>1 DEF CreateNetwork
<1>2. CASE StartRegistry
  BY <1>2 DEF StartRegistry, Placed
<1>3. CASE AwaitRegistry
  BY <1>3 DEF AwaitRegistry, Placed
<1>4. CASE PreloadImage
  BY <1>4 DEF PreloadImage, Preloads
<1>5. CASE StartMiniStack
  BY <1>5 DEF StartMiniStack
<1>6. CASE AwaitMiniStack
  BY <1>6 DEF AwaitMiniStack
<1>7. CASE CreateResource
  BY <1>7 DEF CreateResource, AtStep
<1>8. CASE CreateECSCluster
  BY <1>8 DEF CreateECSCluster, AtStep
<1>9. CASE CreateECSService
  BY <1>9 DEF CreateECSService, AtStep
<1>10. CASE RunECSTask
  BY <1>10 DEF RunECSTask, AtStep
<1>11. CASE NextKind
  BY <1>11 DEF NextKind
<1>12. CASE NoClient
  BY <1>12 DEF NoClient
<1>13. CASE DeleteServices
  BY <1>13 DEF DeleteServices
<1>14. CASE StopTasks
  BY <1>14 DEF StopTasks
<1>15. CASE DeleteClusters
  BY <1>15 DEF DeleteClusters
<1>16. CASE CleanupMiniStack
  BY <1>16 DEF CleanupMiniStack
<1>17. CASE CleanupRegistry
  BY <1>17 DEF CleanupRegistry
<1>18. CASE RemoveNetwork
  BY <1>18 DEF RemoveNetwork
<1>19. CASE SetNetwork
  BY <1>19 DEF SetNetwork
<1>20. CASE BeginCreate
  BY <1>20 DEF BeginCreate
<1>21. CASE BeginCleanup
  BY <1>21 DEF BeginCleanup
<1>22. CASE Cancel
  BY <1>22 DEF Cancel
<1>23. CASE TaskExits
  BY <1>23 DEF TaskExits
<1>24. CASE OtherCreates
  BY <1>24 DEF OtherCreates
<1>25. CASE OtherRemoves
  BY <1>25 DEF OtherRemoves
<1>26. CASE UNCHANGED vars
  BY <1>26 DEF vars
<1>27. QED
  BY <1>1, <1>2, <1>3, <1>4, <1>5, <1>6, <1>7, <1>8, <1>9, <1>10, <1>11,
      <1>12, <1>13, <1>14, <1>15, <1>16, <1>17, <1>18, <1>19, <1>20, <1>21, <1>22,
      <1>23, <1>24, <1>25, <1>26
      DEF Next, Create, CreateResources, Cleanup, Caller, Outside

(* Going on to the next kind takes its turns off those of the kinds to come. *)
LEMMA LaterFacts ==
    ASSUME NEW c \in Configuration, NEW s \in 0..11
    PROVE  /\ Later(c, s) \in Nat
           /\ s < 11 => /\ Later(c, s) = Later(c, s + 1) + Turns(c, s + 1)
                        /\ Turns(c, s + 1) \in Nat \ {0}
<1>1. ASSUME NEW k \in 1..11 PROVE Turns(c, k) \in Nat \ {0}
  <2>1. Order[k] \in Kinds
    BY OrderFacts
  <2>2. c.wanted \in [Kinds -> Seq(Step)]
    BY DEF Configuration
  <2>3. c.wanted[Order[k]] \in Seq(Step)
    BY <2>1, <2>2
  <2>4. QED
    BY <2>3 DEF Turns
<1>2. /\ Turns(c, 1) \in Nat /\ Turns(c, 2) \in Nat /\ Turns(c, 3) \in Nat
      /\ Turns(c, 4) \in Nat /\ Turns(c, 5) \in Nat /\ Turns(c, 6) \in Nat
      /\ Turns(c, 7) \in Nat /\ Turns(c, 8) \in Nat /\ Turns(c, 9) \in Nat
      /\ Turns(c, 10) \in Nat /\ Turns(c, 11) \in Nat
    BY <1>1
<1>3. Later(c, s) \in Nat
    BY <1>2 DEF Later, After
<1>4. ASSUME s < 11 PROVE Later(c, s) = Later(c, s + 1) + Turns(c, s + 1)
  <2>1. s = 0 \/ s = 1 \/ s = 2 \/ s = 3 \/ s = 4 \/ s = 5 \/ s = 6 \/ s = 7 \/ s = 8
          \/ s = 9 \/ s = 10
    BY <1>4
  <2>2. QED
    BY <1>2, <2>1 DEF Later, After
<1>5. QED
    BY <1>1, <1>3, <1>4

(* StepsLeft, point by point, and what is known of the loops. *)
StepsByPoint ==
    /\ pc = "network" => StepsLeft = 12 + Preloads(conf) + Later(conf, 0)
    /\ pc = "registry" => StepsLeft = 11 + Preloads(conf) + Later(conf, 0)
    /\ pc = "registryUp" => StepsLeft = 10 + Preloads(conf) + Later(conf, 0)
    /\ pc = "images" => StepsLeft = 10 + (Preloads(conf) - i) + Later(conf, 0)
    /\ pc = "ministack" => StepsLeft = 8 + Later(conf, 0)
    /\ pc = "health" => StepsLeft = 7 + Later(conf, 0)
    /\ pc = "resources" => StepsLeft = 7 + (Turns(conf, stage) - i) + Later(conf, stage)
    /\ pc = "services" => StepsLeft = 6
    /\ pc = "tasks" => StepsLeft = 5
    /\ pc = "clusters" => StepsLeft = 4
    /\ pc = "rmMiniStack" => StepsLeft = 3
    /\ pc = "rmRegistry" => StepsLeft = 2
    /\ pc = "rmNet" => StepsLeft = 1
    /\ pc = "idle" => StepsLeft = 0

LEMMA PointFacts == StepsByPoint
BY DEF StepsByPoint, StepsLeft

Before ==
    /\ i \in Nat \ {0} /\ Preloads(conf) \in Nat
    /\ Later(conf, 0) \in Nat /\ Later(conf, 0) = Later(conf, 1) + Turns(conf, 1)
    /\ Later(conf, 1) \in Nat /\ Turns(conf, 1) \in Nat \ {0}
    /\ pc = "images" => i <= Preloads(conf) + 1
    /\ pc = "health" => stage = 1

Within ==
    /\ i \in Nat \ {0} /\ stage \in 1..11 /\ Len(Wanted) \in Nat
    /\ Turns(conf, stage) = Len(Wanted) + 1 /\ Later(conf, stage) \in Nat
    /\ pc = "resources" => i <= Len(Wanted) + 1
    /\ stage < 11 => /\ Later(conf, stage) = Later(conf, stage + 1) + Turns(conf, stage + 1)
                     /\ Later(conf, stage + 1) \in Nat
                     /\ Turns(conf, stage + 1) \in Nat \ {0}

LEMMA LoopFacts == IInv /\ Placed /\ ImagesBounded => Before /\ Within
<1> SUFFICES ASSUME IInv, Placed, ImagesBounded PROVE Before /\ Within
    OBVIOUS
<1>1. conf \in Configuration
    BY AwsAssumption DEF IInv, TypeOK, ObjectOK
<1>2. stage \in 1..11 /\ i \in Nat \ {0} /\ (pc = "resources" => i <= Len(Wanted) + 1)
    BY OrderFacts DEF IInv, TypeOK, LoopOK
<1>3. Preloads(conf) \in Nat /\ Len(Wanted) \in Nat
  <2>1. conf.images \in Seq(STRING) /\ Wanted \in Seq(Step)
    BY ConfFacts DEF IInv, TypeOK, ObjectOK, LoopOK
  <2>2. QED
    BY <2>1 DEF Preloads
<1>4. Turns(conf, stage) = Len(Wanted) + 1
    BY DEF Turns, Wanted, Kind
<1>5. /\ Later(conf, 0) \in Nat /\ Later(conf, 0) = Later(conf, 1) + Turns(conf, 1)
      /\ Turns(conf, 1) \in Nat \ {0}
    BY <1>1, LaterFacts
<1>6. Later(conf, 1) \in Nat
    BY <1>1, LaterFacts
<1>7. /\ Later(conf, stage) \in Nat
      /\ stage < 11 => /\ Later(conf, stage) = Later(conf, stage + 1) + Turns(conf, stage + 1)
                       /\ Turns(conf, stage + 1) \in Nat \ {0}
  <2>1. stage \in 0..11
    BY <1>2
  <2>2. QED
    BY <1>1, <2>1, LaterFacts
<1>8. stage < 11 => Later(conf, stage + 1) \in Nat
  <2>1. stage < 11 => stage + 1 \in 0..11
    BY <1>2
  <2>2. QED
    BY <1>1, <2>1, LaterFacts
<1>9. pc = "health" => stage = 1
    BY DEF Placed, CreatePoints
<1>10. QED
    BY <1>2, <1>3, <1>4, <1>5, <1>6, <1>7, <1>8, <1>9 DEF Before, Within, ImagesBounded

(* The number is a natural one, and 0 only between calls. *)
LEMMA InvCounted == IInv /\ Placed /\ ImagesBounded => StepsCounted
<1> SUFFICES ASSUME IInv, Placed, ImagesBounded PROVE StepsCounted
    OBVIOUS
<1>1. pc \in {"idle", "network", "registry", "registryUp", "images", "ministack",
              "health", "resources", "services", "tasks", "clusters", "rmMiniStack",
              "rmRegistry", "rmNet"}
    BY DEF IInv, TypeOK, CallOK, CreatePoints, ReleasePoints
<1>2. Before /\ Within
    BY LoopFacts
<1>3. StepsByPoint
    BY PointFacts
<1>4. CASE pc = "resources"
    BY <1>2, <1>3, <1>4 DEF StepsCounted, StepsByPoint, Within
<1>5. CASE pc # "resources"
    BY <1>1, <1>2, <1>3, <1>5 DEF StepsCounted, StepsByPoint, Before
<1>6. QED
    BY <1>4, <1>5

(* Each step of a call lowers it. *)
LEMMA StepLowers ==
    IInv /\ Placed /\ ImagesBounded /\ (Create \/ Cleanup) => StepsLeft' < StepsLeft
<1> SUFFICES ASSUME IInv, Placed, ImagesBounded, Create \/ Cleanup
             PROVE  StepsLeft' < StepsLeft
    OBVIOUS
<1>a. Before /\ Within
    BY LoopFacts
<1>b. StepsByPoint /\ StepsByPoint'
    BY PointFacts, PTL
<1>c. Len(Order) = 11
    BY OrderFacts
<1> USE <1>b
    DEF StepsByPoint, world, network, object, call, history, fixed, kept, Goto,
        Fail, Abort, Await, Release, Record, Ask, Done
<1>1. CASE CreateNetwork
  BY <1>1, <1>a DEF Before, CreateNetwork
<1>2. CASE StartRegistry
  BY <1>2, <1>a DEF Before, StartRegistry
<1>3. CASE AwaitRegistry
  BY <1>3, <1>a DEF Before, AwaitRegistry
<1>4. CASE PreloadImage
  <2>1. \/ pc' = "images" /\ i' = i + 1
        \/ pc' = "services"
        \/ pc' = "ministack"
    BY <1>4 DEF PreloadImage
  <2>2. pc = "images" /\ conf' = conf
    BY <1>4 DEF PreloadImage
  <2>3. QED
    BY <1>a, <2>1, <2>2 DEF Before
<1>5. CASE StartMiniStack
  BY <1>5, <1>a DEF Before, StartMiniStack
<1>6. CASE AwaitMiniStack
  BY <1>6, <1>a DEF Before, AwaitMiniStack
<1>7. CASE CreateResource
  BY <1>7, <1>a, <1>c DEF Within, CreateResource, AtStep
<1>8. CASE CreateECSCluster
  BY <1>8, <1>a, <1>c DEF Within, CreateECSCluster, AtStep
<1>9. CASE CreateECSService
  BY <1>9, <1>a, <1>c DEF Within, CreateECSService, AtStep
<1>10. CASE RunECSTask
  BY <1>10, <1>a, <1>c DEF Within, RunECSTask, AtStep
<1>11. CASE NextKind
  BY <1>11, <1>a, <1>c DEF Within, NextKind
<1>12. CASE NoClient
  BY <1>12, <1>a, <1>c DEF Within, NoClient
<1>13. CASE DeleteServices
  BY <1>13 DEF DeleteServices
<1>14. CASE StopTasks
  BY <1>14 DEF StopTasks
<1>15. CASE DeleteClusters
  BY <1>15 DEF DeleteClusters
<1>16. CASE CleanupMiniStack
  BY <1>16 DEF CleanupMiniStack
<1>17. CASE CleanupRegistry
  BY <1>17 DEF CleanupRegistry
<1>18. CASE RemoveNetwork
  BY <1>18 DEF RemoveNetwork
<1>19. QED
  BY <1>1, <1>2, <1>3, <1>4, <1>5, <1>6, <1>7, <1>8, <1>9, <1>10, <1>11,
      <1>12, <1>13, <1>14, <1>15, <1>16, <1>17, <1>18
      DEF Create, CreateResources, Cleanup

(* Every call ends, as far as steps can say: what is left is that a call     *)
(* that can take a step takes one.                                           *)
THEOREM CallsEnd == Spec => []StepsCounted /\ CallsAdvance
<1> DEFINE Advance ==
      /\ BeginCreate => StepsLeft' = 12 + Preloads(conf) + Later(conf, 0)
      /\ BeginCleanup => StepsLeft' = 6
      /\ Create \/ Cleanup => StepsLeft' < StepsLeft
      /\ SetNetwork \/ Cancel \/ Outside => StepsLeft' = StepsLeft
<1>1. Init => ImagesBounded
    BY DEF Init, ImagesBounded
<1>2. IInv /\ Placed /\ ImagesBounded /\ [Next]_vars => [Advance]_vars
  <2> SUFFICES ASSUME IInv, Placed, ImagesBounded, Next PROVE Advance
      OBVIOUS
  <2>1. BeginCreate => StepsLeft' = 12 + Preloads(conf) + Later(conf, 0)
      BY DEF BeginCreate, Begin, StepsLeft
  <2>2. BeginCleanup => StepsLeft' = 6
      BY DEF BeginCleanup, Begin, StepsLeft
  <2>3. Create \/ Cleanup => StepsLeft' < StepsLeft
      BY StepLowers
  <2>4. SetNetwork \/ Cancel \/ Outside => StepsLeft' = StepsLeft
    <3>1. SetNetwork \/ Cancel \/ Outside => UNCHANGED <<conf, pc, stage, i>>
      BY DEF SetNetwork, Cancel, Outside, TaskExits, OtherCreates, OtherRemoves, call
    <3>2. QED
      BY <3>1 DEF StepsLeft
  <2>5. QED
      BY <2>1, <2>2, <2>3, <2>4
<1>3. Built => Placed
    BY DEF Built
<1>4. QED
    BY Inductive, BuiltKept, <1>1, ImagesStep, InvCounted, <1>2, <1>3, PTL
    DEF Spec, CallsAdvance
=============================================================================
