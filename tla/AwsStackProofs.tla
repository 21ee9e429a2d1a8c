--------------------------- MODULE AwsStackProofs ---------------------------
(***************************************************************************)
(* What TLAPS proves of AwsStack, for every configuration, any number of   *)
(* resources to make and any number of calls.                              *)
(***************************************************************************)
EXTENDS AwsContract, TLAPS

(* What the program counter says of the call. *)
CallShape ==
    /\ op = "new" => pc = "idle"
    /\ pc \in CreatePoints => op = "create" /\ ~err /\ creates # 0
    /\ pc \in ReleasePoints => op = "cleanup" \/ (op = "create" /\ err)
    /\ op = "create" => ~abandoned
    /\ pc \in {"ministack", "health"} => i = 1

Over == pc = "idle" /\ ~Running     \* no call runs, and no stack

(* The object removes no network but its own, and knows of it. *)
NetworkOwned ==
    /\ createNetwork \/ networkCreated => networkName = "own"
    /\ pc = "network" \/ Over => ~networkCreated
    /\ nets["own"] = "us" => networkCreated \/ "net" \in missed

(* Tasks run from RunTask and CreateService to the requests of the release,  *)
(* which reach all that are known.                                           *)
TasksKnown ==
    /\ tasks \subseteq Known \cup lost
    /\ tasks \subseteq lost \/ pc \in {"resources", "services", "tasks"} \/ Running
    /\ pc = "tasks" => \A t \in tasks : t.kind = "service" => t \in lost
    /\ tasks # {} => \E k \in ECS : conf.wanted[k] # << >>

(* Where a container may be up though no call failed to remove it. *)
Gone(x) == (Up(x) => x \in missed) /\ (op = "cleanup" /\ ~err => ~Up(x))

ContainersKnown ==
    /\ Up("registry") => conf.registry
    /\ Up("ministack") => port = run["ministack"]
    /\ pc \in {"health", "resources"} \/ Running => Up("ministack")
    /\ pc \in {"network", "registry", "registryUp", "images", "ministack"}
         => (Up("ministack") => "ministack" \in missed)
    /\ pc \in {"network", "registry"} => (Up("registry") => "registry" \in missed)
    /\ pc \in {"rmRegistry", "rmNet"} \/ Over => Gone("ministack")
    /\ pc = "rmNet" \/ Over
         => Gone("registry") /\ (op = "cleanup" /\ ~err => registryPort = 0)

Safe == CallShape /\ NetworkOwned /\ TasksKnown /\ ContainersKnown

(* The inductive invariant. *)
IInv == TypeOK /\ Safe

-----------------------------------------------------------------------------
(* What NewStack made of the options has its types. *)
LEMMA OrderFacts ==
    DOMAIN Order = 1..11 /\ Len(Order) = 11
    /\ (\A k \in DOMAIN Order : Order[k] \in Kinds) /\ ECS \subseteq Kinds
<1>1. DOMAIN Order = 1..11 /\ Len(Order) = 11
    BY DEF Order
<1>2. ECS \subseteq Kinds
  <2>1. Order[9] = "cluster" /\ Order[10] = "service" /\ Order[11] = "task"
    BY DEF Order
  <2>2. QED
    BY <1>1, <2>1 DEF ECS, Kinds
<1>3. QED
    BY <1>1, <1>2 DEF Kinds

LEMMA ConfFacts ==
    ASSUME conf \in Confs, stage \in DOMAIN Order
    PROVE  /\ Kind \in Kinds /\ Wanted \in Seq(Step)
           /\ conf.network \in {"none", "own", "shared"}
           /\ conf.images \in Seq(STRING)
           /\ i \in 1..Len(Wanted) => Now \in Step
           /\ \A j \in 1..Len(conf.images) : conf.images[j] \in STRING
<1>1. conf \in Configuration
    BY AwsAssumption
<1>2. Kind \in Kinds
    BY OrderFacts DEF Kind
<1>3. conf.wanted \in [Kinds -> Seq(Step)]
    BY <1>1 DEF Configuration
<1>4. Wanted \in Seq(Step)
    BY <1>2, <1>3 DEF Wanted
<1>5. i \in 1..Len(Wanted) => Now \in Step
    BY <1>4 DEF Now
<1>6. QED
    BY <1>1, <1>2, <1>4, <1>5 DEF Configuration

(* The shape of the call is kept. *)
LEMMA CallShapeStep == IInv /\ [Next]_vars => CallShape'
<1> SUFFICES ASSUME IInv, [Next]_vars PROVE CallShape'
    OBVIOUS
<1> USE DEF IInv, Safe, CallShape, CreatePoints, ReleasePoints, world, network, object, call, history, fixed, kept, Goto, Fail, Abort, Begin, Await, Release, Record, Ask, Done, Up, Running, Over, Reachable, AtStep
<1>1. CASE CreateNetwork
    BY <1>1 DEF CreateNetwork
<1>2. CASE StartRegistry
    BY <1>2 DEF StartRegistry
<1>3. CASE AwaitRegistry
    BY <1>3 DEF AwaitRegistry
<1>4. CASE PreloadImage
    BY <1>4 DEF PreloadImage
<1>5. CASE StartMiniStack
    BY <1>5 DEF StartMiniStack
<1>6. CASE AwaitMiniStack
    BY <1>6 DEF AwaitMiniStack
<1>7. CASE CreateResource
    BY <1>7 DEF CreateResource
<1>8. CASE CreateECSCluster
    BY <1>8 DEF CreateECSCluster
<1>9. CASE CreateECSService
    BY <1>9 DEF CreateECSService
<1>10. CASE RunECSTask
    BY <1>10 DEF RunECSTask
<1>11. CASE NextKind
    BY <1>11 DEF NextKind
<1>12. CASE NoClient
    BY <1>12 DEF NoClient
<1>13. CASE DeleteServices
    BY <1>13 DEF DeleteServices
<1>14. CASE StopTasks
    BY <1>14 DEF StopTasks
<1>15. CASE DeleteClusters
    BY <1>15 DEF DeleteClusters
<1>16. CASE CleanupMiniStack
    BY <1>16 DEF CleanupMiniStack
<1>17. CASE CleanupRegistry
    BY <1>17 DEF CleanupRegistry
<1>18. CASE RemoveNetwork
    BY <1>18 DEF RemoveNetwork
<1>19. CASE SetNetwork
    BY <1>19 DEF SetNetwork
<1>20. CASE BeginCreate
    BY <1>20, AwsAssumption DEF BeginCreate, TypeOK, CallOK, Runs
<1>21. CASE BeginCleanup
    BY <1>21 DEF BeginCleanup
<1>22. CASE Cancel
    BY <1>22 DEF Cancel
<1>23. CASE TaskExits
    BY <1>23 DEF TaskExits
<1>24. CASE OtherCreates
    BY <1>24 DEF OtherCreates
<1>25. CASE OtherRemoves
    BY <1>25 DEF OtherRemoves
<1>26. CASE UNCHANGED vars
    BY <1>26 DEF vars
<1>27. QED
    BY <1>1, <1>2, <1>3, <1>4, <1>5, <1>6, <1>7, <1>8, <1>9, <1>10, <1>11, <1>12, <1>13, <1>14, <1>15, <1>16, <1>17, <1>18, <1>19, <1>20, <1>21, <1>22, <1>23, <1>24, <1>25, <1>26
    DEF Next, Create, CreateResources, Cleanup, Caller, Outside

(* The object's network is its own. *)
LEMMA NetworkOwnedStep == IInv /\ [Next]_vars => NetworkOwned'
<1> SUFFICES ASSUME IInv, [Next]_vars PROVE NetworkOwned'
    OBVIOUS
<1> USE DEF IInv, Safe, CallShape, NetworkOwned, TypeOK, WorldOK, Networks, CreatePoints, ReleasePoints, Created, AtStep, world, network, object, call, history, fixed, kept, Goto, Fail, Abort, Begin, Await, Release, Record, Ask, Done, Up, Running, Over
<1>1. CASE CreateNetwork
  <2>1. networkCreated' => networkName = "own"
    BY <1>1 DEF CreateNetwork
  <2>2. nets'["own"] = "us" => networkCreated' \/ "net" \in missed'
    <3>1. "own" \in DOMAIN nets
      OBVIOUS
    <3>2. nets' = nets \/ nets'["own"] = "us"
      BY <1>1, <3>1 DEF CreateNetwork
    <3>3. QED
      BY <1>1, <3>2 DEF CreateNetwork
  <2>3. QED
    BY <1>1, <2>1, <2>2 DEF CreateNetwork
<1>2. CASE StartRegistry
    BY <1>2 DEF StartRegistry
<1>3. CASE AwaitRegistry
    BY <1>3 DEF AwaitRegistry
<1>4. CASE PreloadImage
    BY <1>4 DEF PreloadImage
<1>5. CASE StartMiniStack
    BY <1>5 DEF StartMiniStack
<1>6. CASE AwaitMiniStack
    BY <1>6 DEF AwaitMiniStack
<1>7. CASE CreateResource
    BY <1>7 DEF CreateResource
<1>8. CASE CreateECSCluster
    BY <1>8 DEF CreateECSCluster
<1>9. CASE CreateECSService
    BY <1>9 DEF CreateECSService
<1>10. CASE RunECSTask
    BY <1>10 DEF RunECSTask
<1>11. CASE NextKind
    BY <1>11 DEF NextKind
<1>12. CASE NoClient
    BY <1>12 DEF NoClient
<1>13. CASE DeleteServices
    BY <1>13 DEF DeleteServices
<1>14. CASE StopTasks
    BY <1>14 DEF StopTasks
<1>15. CASE DeleteClusters
    BY <1>15 DEF DeleteClusters
<1>16. CASE CleanupMiniStack
    BY <1>16 DEF CleanupMiniStack
<1>17. CASE CleanupRegistry
    BY <1>17 DEF CleanupRegistry
<1>18. CASE RemoveNetwork
    BY <1>18 DEF RemoveNetwork
<1>19. CASE SetNetwork
    BY <1>19 DEF SetNetwork
<1>20. CASE BeginCreate
    BY <1>20 DEF BeginCreate
<1>21. CASE BeginCleanup
    BY <1>21 DEF BeginCleanup
<1>22. CASE Cancel
    BY <1>22 DEF Cancel
<1>23. CASE TaskExits
    BY <1>23 DEF TaskExits
<1>24. CASE OtherCreates
    BY <1>24 DEF OtherCreates
<1>25. CASE OtherRemoves
    BY <1>25 DEF OtherRemoves
<1>26. CASE UNCHANGED vars
    BY <1>26 DEF vars
<1>27. QED
    BY <1>1, <1>2, <1>3, <1>4, <1>5, <1>6, <1>7, <1>8, <1>9, <1>10, <1>11, <1>12, <1>13, <1>14, <1>15, <1>16, <1>17, <1>18, <1>19, <1>20, <1>21, <1>22, <1>23, <1>24, <1>25, <1>26
    DEF Next, Create, CreateResources, Cleanup, Caller, Outside

(* The containers are where the call expects them. *)
LEMMA ContainersKnownStep == IInv /\ [Next]_vars => ContainersKnown'
<1> SUFFICES ASSUME IInv, [Next]_vars PROVE ContainersKnown'
    OBVIOUS
<1> USE DEF IInv, Safe, CallShape, ContainersKnown, Gone, TypeOK, WorldOK, ObjectOK, Containers, Runs, CreatePoints, ReleasePoints, world, network, object, call, history, fixed, kept, Goto, Fail, Abort, Begin, Await, Release, Record, Ask, Done, Up, Running, Over, Talks
<1>1. CASE CreateNetwork
    BY <1>1 DEF CreateNetwork
<1>2. CASE StartRegistry
    BY <1>2 DEF StartRegistry
<1>3. CASE AwaitRegistry
    BY <1>3 DEF AwaitRegistry
<1>4. CASE PreloadImage
    BY <1>4 DEF PreloadImage
<1>5. CASE StartMiniStack
    BY <1>5 DEF StartMiniStack
<1>6. CASE AwaitMiniStack
    BY <1>6 DEF AwaitMiniStack
<1>7. CASE CreateResource
    BY <1>7 DEF CreateResource
<1>8. CASE CreateECSCluster
    BY <1>8 DEF CreateECSCluster
<1>9. CASE CreateECSService
    BY <1>9 DEF CreateECSService
<1>10. CASE RunECSTask
    BY <1>10 DEF RunECSTask
<1>11. CASE NextKind
    BY <1>11 DEF NextKind
<1>12. CASE NoClient
    BY <1>12 DEF NoClient
<1>13. CASE DeleteServices
    BY <1>13 DEF DeleteServices
<1>14. CASE StopTasks
    BY <1>14 DEF StopTasks
<1>15. CASE DeleteClusters
    BY <1>15 DEF DeleteClusters
<1>16. CASE CleanupMiniStack
    BY <1>16 DEF CleanupMiniStack
<1>17. CASE CleanupRegistry
    BY <1>17 DEF CleanupRegistry
<1>18. CASE RemoveNetwork
    BY <1>18 DEF RemoveNetwork
<1>19. CASE SetNetwork
    BY <1>19 DEF SetNetwork
<1>20. CASE BeginCreate
    BY <1>20 DEF BeginCreate
<1>21. CASE BeginCleanup
    BY <1>21 DEF BeginCleanup
<1>22. CASE Cancel
    BY <1>22 DEF Cancel
<1>23. CASE TaskExits
    BY <1>23 DEF TaskExits
<1>24. CASE OtherCreates
    BY <1>24 DEF OtherCreates
<1>25. CASE OtherRemoves
    BY <1>25 DEF OtherRemoves
<1>26. CASE UNCHANGED vars
    BY <1>26 DEF vars
<1>27. QED
    BY <1>1, <1>2, <1>3, <1>4, <1>5, <1>6, <1>7, <1>8, <1>9, <1>10, <1>11, <1>12, <1>13, <1>14, <1>15, <1>16, <1>17, <1>18, <1>19, <1>20, <1>21, <1>22, <1>23, <1>24, <1>25, <1>26
    DEF Next, Create, CreateResources, Cleanup, Caller, Outside

(* The types of what is in the world. *)
LEMMA WorldStep == IInv /\ [Next]_vars => WorldOK'
<1> SUFFICES ASSUME IInv, [Next]_vars PROVE WorldOK'
    OBVIOUS
<1> USE AwsAssumption DEF IInv, TypeOK, WorldOK, Containers, Networks, Runs, world, network, object, call, history, fixed, kept, Goto, Fail, Abort, Begin, Await, Release, Record, Ask, Done, Up, Running, Over
<1>a. /\ Kind \in Kinds
      /\ i \in 1..Len(Wanted) => Now.name \in STRING /\ Now.image \in STRING
      /\ \A j \in 1..Len(conf.images) : conf.images[j] \in STRING
      /\ Wanted \in Seq(Step) /\ conf.images \in Seq(STRING)
    BY ConfFacts DEF ObjectOK, LoopOK, Step
<1>b. i \in Nat \ {0} /\ creates \in Runs /\ 0 \in Runs
    BY DEF LoopOK, CallOK
<1>c. \A image : Stored(image) /\ image \in STRING => pushed' \subseteq STRING
    BY DEF Stored, WorldOK
<1>d. \A new \in Starts : new \subseteq {[run |-> run["ministack"], kind |-> Kind, pos |-> i]}
    BY DEF Starts
<1>e. Kind \in {"service", "task"} => \A new \in Starts : new \subseteq Task
    BY <1>b, <1>d DEF Task, WorldOK, Containers, Runs
<1>f. AtStep(Kinds) \/ AtStep({"service"}) \/ AtStep({"task"}) \/ AtStep({"cluster"}) \/ AtStep(Kinds \ ECS)
        => i \in 1..Len(Wanted)
    BY <1>a, <1>b DEF AtStep
<1>g. i \in 1..Len(Wanted) /\ Make => made' \subseteq Kinds \X STRING
    BY <1>a DEF Make, WorldOK
<1>j. i \in 1..Len(Wanted) /\ MakeCluster => made' \subseteq Kinds \X STRING
  <2>1. i \in 1..Len(Wanted) => ClusterName \in STRING
    BY <1>a, TrimmedAssumption DEF ClusterName, Trim
  <2>2. "cluster" \in Kinds
    BY OrderFacts DEF ECS
  <2>3. QED
    BY <2>1, <2>2 DEF MakeCluster, WorldOK
<1>h. i \in 1..Len(Wanted) /\ (Register \/ RegisterFails) => pushed' \subseteq STRING
    BY <1>a, <1>c DEF Register, RegisterFails, PushFails, Pushes, WorldOK
<1>i. Known \subseteq tasks
    BY DEF Known
<1>1. CASE CreateNetwork
    BY <1>1 DEF CreateNetwork
<1>2. CASE StartRegistry
    BY <1>2, <1>b DEF StartRegistry
<1>3. CASE AwaitRegistry
    BY <1>3 DEF AwaitRegistry
<1>4. CASE PreloadImage
  <2>1. i <= Len(conf.images) => conf.images[i] \in STRING
    BY <1>a, <1>b
  <2>2. pushed' \subseteq STRING
    BY <1>4, <1>c, <2>1 DEF PreloadImage, PushFails
  <2>3. QED
    BY <1>4, <2>2 DEF PreloadImage
<1>5. CASE StartMiniStack
    BY <1>5, <1>b DEF StartMiniStack
<1>6. CASE AwaitMiniStack
    BY <1>6 DEF AwaitMiniStack
<1>7. CASE CreateResource
    BY <1>7, <1>f, <1>g DEF CreateResource
<1>8. CASE CreateECSCluster
    BY <1>8, <1>f, <1>j DEF CreateECSCluster
<1>9. CASE CreateECSService
    BY <1>9, <1>e, <1>f, <1>g, <1>h DEF CreateECSService, AtStep
<1>10. CASE RunECSTask
    BY <1>10, <1>e, <1>f, <1>h DEF RunECSTask, AtStep
<1>11. CASE NextKind
    BY <1>11 DEF NextKind
<1>12. CASE NoClient
    BY <1>12 DEF NoClient
<1>13. CASE DeleteServices
    BY <1>13, <1>i DEF DeleteServices
<1>14. CASE StopTasks
    BY <1>14, <1>i DEF StopTasks
<1>15. CASE DeleteClusters
    BY <1>15, <1>i DEF DeleteClusters
<1>16. CASE CleanupMiniStack
    BY <1>16, <1>b DEF CleanupMiniStack
<1>17. CASE CleanupRegistry
    BY <1>17, <1>b DEF CleanupRegistry
<1>18. CASE RemoveNetwork
    BY <1>18 DEF RemoveNetwork
<1>19. CASE SetNetwork
    BY <1>19 DEF SetNetwork
<1>20. CASE BeginCreate
    BY <1>20 DEF BeginCreate
<1>21. CASE BeginCleanup
    BY <1>21 DEF BeginCleanup
<1>22. CASE Cancel
    BY <1>22 DEF Cancel
<1>23. CASE TaskExits
    BY <1>23 DEF TaskExits
<1>24. CASE OtherCreates
    BY <1>24 DEF OtherCreates
<1>25. CASE OtherRemoves
    BY <1>25 DEF OtherRemoves
<1>26. CASE UNCHANGED vars
    BY <1>26 DEF vars
<1>27. QED
    BY <1>1, <1>2, <1>3, <1>4, <1>5, <1>6, <1>7, <1>8, <1>9, <1>10, <1>11, <1>12, <1>13, <1>14, <1>15, <1>16, <1>17, <1>18, <1>19, <1>20, <1>21, <1>22, <1>23, <1>24, <1>25, <1>26
    DEF Next, Create, CreateResources, Cleanup, Caller, Outside

(* The types of the fields. *)
LEMMA ObjectStep == IInv /\ [Next]_vars => ObjectOK'
<1> SUFFICES ASSUME IInv, [Next]_vars PROVE ObjectOK'
    OBVIOUS
<1> USE AwsAssumption DEF IInv, TypeOK, ObjectOK, WorldOK, Networks, Runs, world, network, object, call, history, fixed, kept, Goto, Fail, Abort, Begin, Await, Release, Record, Ask, Done, Up, Running, Over
<1>a. /\ Kind \in Kinds
      /\ i \in 1..Len(Wanted) => Now.name \in STRING /\ Now.image \in STRING
      /\ \A j \in 1..Len(conf.images) : conf.images[j] \in STRING
      /\ Wanted \in Seq(Step) /\ conf.images \in Seq(STRING)
    BY ConfFacts DEF ObjectOK, LoopOK, Step
<1>b. i \in Nat \ {0} /\ creates \in Runs /\ 0 \in Runs
    BY DEF LoopOK, CallOK
<1>d. \A new \in Starts : new \subseteq {[run |-> run["ministack"], kind |-> Kind, pos |-> i]}
    BY DEF Starts
<1>e. Kind \in {"service", "task"} => \A new \in Starts : new \subseteq Task
    BY <1>b, <1>d DEF Task, WorldOK, Containers, Runs
<1>f. AtStep(Kinds) \/ AtStep({"service"}) \/ AtStep({"task"}) \/ AtStep({"cluster"}) \/ AtStep(Kinds \ ECS)
        => i \in 1..Len(Wanted)
    BY <1>a, <1>b DEF AtStep
<1>g. i \in 1..Len(Wanted) => Returned \subseteq [kind : Kinds, name : STRING, run : Runs]
    BY <1>a, <1>b DEF Returned, ObjectOK
<1>1. CASE CreateNetwork
    BY <1>1 DEF CreateNetwork, Created
<1>2. CASE StartRegistry
    BY <1>2, <1>b DEF StartRegistry
<1>3. CASE AwaitRegistry
    BY <1>3 DEF AwaitRegistry
<1>4. CASE PreloadImage
    BY <1>4 DEF PreloadImage
<1>5. CASE StartMiniStack
    BY <1>5, <1>b DEF StartMiniStack
<1>6. CASE AwaitMiniStack
    BY <1>6 DEF AwaitMiniStack
<1>7. CASE CreateResource
    BY <1>7, <1>f, <1>g DEF CreateResource
<1>8. CASE CreateECSCluster
    BY <1>8 DEF CreateECSCluster
<1>9. CASE CreateECSService
    BY <1>9 DEF CreateECSService
<1>10. CASE RunECSTask
    BY <1>10, <1>e, <1>f DEF RunECSTask, AtStep
<1>11. CASE NextKind
    BY <1>11 DEF NextKind
<1>12. CASE NoClient
    BY <1>12 DEF NoClient
<1>13. CASE DeleteServices
    BY <1>13 DEF DeleteServices
<1>14. CASE StopTasks
    BY <1>14 DEF StopTasks
<1>15. CASE DeleteClusters
    BY <1>15 DEF DeleteClusters
<1>16. CASE CleanupMiniStack
    BY <1>16 DEF CleanupMiniStack
<1>17. CASE CleanupRegistry
    BY <1>17, <1>b DEF CleanupRegistry
<1>18. CASE RemoveNetwork
    BY <1>18 DEF RemoveNetwork
<1>19. CASE SetNetwork
    BY <1>19 DEF SetNetwork
<1>20. CASE BeginCreate
    BY <1>20 DEF BeginCreate
<1>21. CASE BeginCleanup
    BY <1>21 DEF BeginCleanup
<1>22. CASE Cancel
    BY <1>22 DEF Cancel
<1>23. CASE TaskExits
    BY <1>23 DEF TaskExits
<1>24. CASE OtherCreates
    BY <1>24 DEF OtherCreates
<1>25. CASE OtherRemoves
    BY <1>25 DEF OtherRemoves
<1>26. CASE UNCHANGED vars
    BY <1>26 DEF vars
<1>27. QED
    BY <1>1, <1>2, <1>3, <1>4, <1>5, <1>6, <1>7, <1>8, <1>9, <1>10, <1>11, <1>12, <1>13, <1>14, <1>15, <1>16, <1>17, <1>18, <1>19, <1>20, <1>21, <1>22, <1>23, <1>24, <1>25, <1>26
    DEF Next, Create, CreateResources, Cleanup, Caller, Outside

(* The types of the call. *)
LEMMA CallStep == IInv /\ [Next]_vars => CallOK'
<1> SUFFICES ASSUME IInv, [Next]_vars PROVE CallOK'
    OBVIOUS
<1> USE AwsAssumption DEF IInv, TypeOK, CallOK, WorldOK, Resources, Containers, Runs, CreatePoints, ReleasePoints, world, network, object, call, history, fixed, kept, Goto, Fail, Abort, Begin, Await, Release, Record, Ask, Done, Up, Running, Over
<1>a. /\ Kind \in Kinds
      /\ i \in 1..Len(Wanted) => Now.name \in STRING /\ Now.image \in STRING
      /\ \A j \in 1..Len(conf.images) : conf.images[j] \in STRING
      /\ Wanted \in Seq(Step) /\ conf.images \in Seq(STRING)
    BY ConfFacts DEF ObjectOK, LoopOK, Step
<1>b. i \in Nat \ {0} /\ creates \in Runs /\ 0 \in Runs
    BY DEF LoopOK, CallOK
<1>d. \A new \in Starts : new \subseteq {[run |-> run["ministack"], kind |-> Kind, pos |-> i]}
    BY DEF Starts
<1>e. Kind \in {"service", "task"} => \A new \in Starts : new \subseteq Task
    BY <1>b, <1>d DEF Task, WorldOK, Containers, Runs
<1>i. Known \subseteq tasks
    BY DEF Known
<1>1. CASE CreateNetwork
    BY <1>1 DEF CreateNetwork
<1>2. CASE StartRegistry
    BY <1>2 DEF StartRegistry
<1>3. CASE AwaitRegistry
    BY <1>3 DEF AwaitRegistry
<1>4. CASE PreloadImage
    BY <1>4 DEF PreloadImage
<1>5. CASE StartMiniStack
    BY <1>5 DEF StartMiniStack
<1>6. CASE AwaitMiniStack
    BY <1>6 DEF AwaitMiniStack
<1>7. CASE CreateResource
    BY <1>7 DEF CreateResource
<1>8. CASE CreateECSCluster
    BY <1>8 DEF CreateECSCluster
<1>9. CASE CreateECSService
    BY <1>9 DEF CreateECSService
<1>10. CASE RunECSTask
    BY <1>10, <1>e DEF RunECSTask, AtStep
<1>11. CASE NextKind
    BY <1>11 DEF NextKind
<1>12. CASE NoClient
    BY <1>12 DEF NoClient
<1>13. CASE DeleteServices
    BY <1>13, <1>i DEF DeleteServices
<1>14. CASE StopTasks
    BY <1>14, <1>i DEF StopTasks
<1>15. CASE DeleteClusters
    BY <1>15, <1>i DEF DeleteClusters
<1>16. CASE CleanupMiniStack
    BY <1>16 DEF CleanupMiniStack
<1>17. CASE CleanupRegistry
    BY <1>17 DEF CleanupRegistry
<1>18. CASE RemoveNetwork
    BY <1>18 DEF RemoveNetwork
<1>19. CASE SetNetwork
    BY <1>19 DEF SetNetwork
<1>20. CASE BeginCreate
  <2>1. creates' \in Runs
    BY <1>20 DEF BeginCreate
  <2>2. QED
    BY <1>20, <2>1 DEF BeginCreate
<1>21. CASE BeginCleanup
    BY <1>21 DEF BeginCleanup
<1>22. CASE Cancel
    BY <1>22 DEF Cancel
<1>23. CASE TaskExits
    BY <1>23 DEF TaskExits
<1>24. CASE OtherCreates
    BY <1>24 DEF OtherCreates
<1>25. CASE OtherRemoves
    BY <1>25 DEF OtherRemoves
<1>26. CASE UNCHANGED vars
    BY <1>26 DEF vars
<1>27. QED
    BY <1>1, <1>2, <1>3, <1>4, <1>5, <1>6, <1>7, <1>8, <1>9, <1>10, <1>11, <1>12, <1>13, <1>14, <1>15, <1>16, <1>17, <1>18, <1>19, <1>20, <1>21, <1>22, <1>23, <1>24, <1>25, <1>26
    DEF Next, Create, CreateResources, Cleanup, Caller, Outside

(* The loops of createResources keep their range. *)
LEMMA LoopStep == IInv /\ [Next]_vars => LoopOK'
<1> SUFFICES ASSUME IInv, [Next]_vars PROVE LoopOK'
    OBVIOUS
<1> USE AwsAssumption DEF IInv, TypeOK, LoopOK, Runs, Safe, CallShape, world, network, object, call, history, fixed, kept, Goto, Fail, Abort, Begin, Await, Release, Record, Ask, Done, Up, Running, Over
<1>a. /\ Kind \in Kinds
      /\ i \in 1..Len(Wanted) => Now.name \in STRING /\ Now.image \in STRING
      /\ \A j \in 1..Len(conf.images) : conf.images[j] \in STRING
      /\ Wanted \in Seq(Step) /\ conf.images \in Seq(STRING)
    BY ConfFacts DEF ObjectOK, LoopOK, Step
<1>b. i \in Nat \ {0} /\ creates \in Runs /\ 0 \in Runs
    BY DEF LoopOK, CallOK
<1>c. DOMAIN Order = 1..11 /\ Len(Order) = 11
    BY OrderFacts
<1>d. Len(Wanted) \in Nat /\ 1 \in DOMAIN Order /\ stage \in DOMAIN Order
    BY <1>a, <1>c DEF LoopOK
<1>e. UNCHANGED <<stage, conf>> => UNCHANGED Wanted
    BY DEF Wanted, Kind
<1>1. CASE CreateNetwork
    BY <1>1, <1>b, <1>d, <1>e DEF CreateNetwork, AtStep
<1>2. CASE StartRegistry
    BY <1>2, <1>b, <1>d, <1>e DEF StartRegistry, AtStep
<1>3. CASE AwaitRegistry
    BY <1>3, <1>b, <1>d, <1>e DEF AwaitRegistry, AtStep
<1>4. CASE PreloadImage
    BY <1>4, <1>b, <1>d, <1>e DEF PreloadImage, AtStep
<1>5. CASE StartMiniStack
    BY <1>5, <1>b, <1>d, <1>e DEF StartMiniStack, AtStep
<1>6. CASE AwaitMiniStack
    BY <1>6, <1>b, <1>d, <1>e DEF AwaitMiniStack
<1>7. CASE CreateResource
    BY <1>7, <1>b, <1>d, <1>e DEF CreateResource, AtStep
<1>8. CASE CreateECSCluster
    BY <1>8, <1>b, <1>d, <1>e DEF CreateECSCluster, AtStep
<1>9. CASE CreateECSService
    BY <1>9, <1>b, <1>d, <1>e DEF CreateECSService, AtStep
<1>10. CASE RunECSTask
    BY <1>10, <1>b, <1>d, <1>e DEF RunECSTask, AtStep
<1>11. CASE NextKind
  <2>1. stage' \in DOMAIN Order
    BY <1>11, <1>c, <1>d DEF NextKind
  <2>2. conf' = conf /\ conf \in Configuration
    BY <1>11, AwsAssumption DEF NextKind, ObjectOK
  <2>3. Kind' \in Kinds
    BY <2>1, OrderFacts DEF Kind
  <2>4. Wanted' \in Seq(Step)
    BY <2>2, <2>3 DEF Wanted, Configuration
  <2>5. QED
    BY <1>11, <2>1, <2>4 DEF NextKind
<1>12. CASE NoClient
    BY <1>12, <1>b, <1>d, <1>e DEF NoClient, AtStep
<1>13. CASE DeleteServices
    BY <1>13, <1>b, <1>d, <1>e DEF DeleteServices, AtStep
<1>14. CASE StopTasks
    BY <1>14, <1>b, <1>d, <1>e DEF StopTasks, AtStep
<1>15. CASE DeleteClusters
    BY <1>15, <1>b, <1>d, <1>e DEF DeleteClusters, AtStep
<1>16. CASE CleanupMiniStack
    BY <1>16, <1>b, <1>d, <1>e DEF CleanupMiniStack, AtStep
<1>17. CASE CleanupRegistry
    BY <1>17, <1>b, <1>d, <1>e DEF CleanupRegistry, AtStep
<1>18. CASE RemoveNetwork
    BY <1>18, <1>b, <1>d, <1>e DEF RemoveNetwork, AtStep
<1>19. CASE SetNetwork
    BY <1>19, <1>b, <1>d, <1>e DEF SetNetwork, AtStep
<1>20. CASE BeginCreate
    BY <1>20, <1>d DEF BeginCreate
<1>21. CASE BeginCleanup
    BY <1>21, <1>d DEF BeginCleanup
<1>22. CASE Cancel
    BY <1>22, <1>b, <1>d, <1>e DEF Cancel, AtStep
<1>23. CASE TaskExits
    BY <1>23, <1>b, <1>d, <1>e DEF TaskExits, AtStep
<1>24. CASE OtherCreates
    BY <1>24, <1>b, <1>d, <1>e DEF OtherCreates, AtStep
<1>25. CASE OtherRemoves
    BY <1>25, <1>b, <1>d, <1>e DEF OtherRemoves, AtStep
<1>26. CASE UNCHANGED vars
    BY <1>26, <1>e DEF vars
<1>27. QED
    BY <1>1, <1>2, <1>3, <1>4, <1>5, <1>6, <1>7, <1>8, <1>9, <1>10, <1>11, <1>12, <1>13, <1>14, <1>15, <1>16, <1>17, <1>18, <1>19, <1>20, <1>21, <1>22, <1>23, <1>24, <1>25, <1>26
    DEF Next, Create, CreateResources, Cleanup, Caller, Outside

(* Tasks are known or lost. *)
LEMMA TasksKnownStep == IInv /\ [Next]_vars => TasksKnown'
<1> SUFFICES ASSUME IInv, [Next]_vars PROVE TasksKnown'
    OBVIOUS
<1> USE DEF IInv, Safe, CallShape, TasksKnown, TypeOK, WorldOK, Containers, CreatePoints, ReleasePoints, world, network, object, call, history, fixed, kept, Goto, Fail, Abort, Begin, Await, Release, Record, Ask, Done, Up, Running, Over, Known, Talks
<1>a. \A new \in Starts : new \subseteq {[run |-> run["ministack"], kind |-> Kind, pos |-> i]}
    BY DEF Starts
<1>b. {} \in Starts
    BY DEF Starts
<1>c. i \in 1..Len(Wanted) => Wanted # << >>
    OBVIOUS
<1>d. {"service", "task"} \subseteq ECS
    BY DEF ECS
<1>1. CASE CreateNetwork
    BY <1>1 DEF CreateNetwork
<1>2. CASE StartRegistry
    BY <1>2 DEF StartRegistry
<1>3. CASE AwaitRegistry
    BY <1>3 DEF AwaitRegistry
<1>4. CASE PreloadImage
    BY <1>4 DEF PreloadImage
<1>5. CASE StartMiniStack
    BY <1>5 DEF StartMiniStack
<1>6. CASE AwaitMiniStack
    BY <1>6 DEF AwaitMiniStack
<1>7. CASE CreateResource
    BY <1>7 DEF CreateResource
<1>8. CASE CreateECSCluster
    BY <1>8 DEF CreateECSCluster
<1>9. CASE CreateECSService
  <2>1. PICK new \in Starts : tasks' \in {tasks, tasks \cup new}
    BY <1>9, <1>b DEF CreateECSService
  <2>2. pc = "resources" /\ pc' \in {"resources", "services"} /\ UNCHANGED <<lost, arns, run, conf>>
    BY <1>9 DEF CreateECSService, AtStep
  <2>3. \A t \in new : t.run = run["ministack"] /\ t.kind = "service"
    BY <1>9, <1>a DEF CreateECSService, AtStep
  <2>4. conf.wanted["service"] # << >>
    BY <1>9, <1>c DEF CreateECSService, AtStep, Wanted, LoopOK
  <2>5. QED
    BY <2>1, <2>2, <2>3, <2>4, <1>d DEF ContainersKnown
<1>10. CASE RunECSTask
  <2>1. PICK new \in Starts : tasks' = tasks \/ (tasks' = tasks \cup new
                 /\ (arns' = arns \cup new \/ lost' = lost \cup new))
    BY <1>10, <1>b DEF RunECSTask
  <2>2. /\ pc = "resources" /\ pc' \in {"resources", "services"} /\ UNCHANGED <<run, conf>>
        /\ lost \subseteq lost' /\ arns \subseteq arns'
    BY <1>10 DEF RunECSTask, AtStep
  <2>3. \A t \in new : t.run = run["ministack"] /\ t.kind = "task"
    BY <1>10, <1>a DEF RunECSTask, AtStep
  <2>4. conf.wanted["task"] # << >>
    BY <1>10, <1>c DEF RunECSTask, AtStep, Wanted, LoopOK
  <2>5. QED
    BY <2>1, <2>2, <2>3, <2>4, <1>d DEF ContainersKnown
<1>11. CASE NextKind
    BY <1>11 DEF NextKind
<1>12. CASE NoClient
    BY <1>12 DEF NoClient
<1>13. CASE DeleteServices
  <2>1. CASE ~HasECS
    <3>1. port # 0 => \A k \in ECS : conf.wanted[k] = << >>
      BY <2>1 DEF HasECS
    <3>2. ~Up("ministack") \/ tasks = {}
      BY <3>1 DEF ContainersKnown, ObjectOK
    <3>3. tasks \subseteq lost
      BY <3>2
    <3>4. QED
      BY <1>13, <2>1, <3>3 DEF DeleteServices
  <2>2. CASE HasECS
    <3>1. PICK told \in SUBSET ({t \in tasks : t.kind = "service"} \cap Known) :
            /\ tasks' = tasks \ told
            /\ lost' = lost \cup (({t \in tasks : t.kind = "service"} \cap Known) \ told)
            /\ pc' = "tasks" /\ UNCHANGED <<run, arns, conf>>
      BY <1>13, <2>2 DEF DeleteServices
    <3>2. QED
      BY <3>1
  <2>3. QED
    BY <2>1, <2>2
<1>14. CASE StopTasks
  <2>1. PICK told \in SUBSET (arns \cap Known) :
            /\ tasks' = tasks \ told
            /\ lost' = lost \cup ((arns \cap Known) \ told)
            /\ pc' = "clusters" /\ UNCHANGED <<run, arns, conf>>
    BY <1>14 DEF StopTasks
  <2>2. \A t \in tasks : t.kind = "service" \/ t.kind = "task"
    BY DEF Task
  <2>3. QED
    BY <1>14, <2>1, <2>2 DEF StopTasks
<1>15. CASE DeleteClusters
    BY <1>15 DEF DeleteClusters
<1>16. CASE CleanupMiniStack
    BY <1>16 DEF CleanupMiniStack
<1>17. CASE CleanupRegistry
    BY <1>17 DEF CleanupRegistry
<1>18. CASE RemoveNetwork
    BY <1>18 DEF RemoveNetwork
<1>19. CASE SetNetwork
    BY <1>19 DEF SetNetwork
<1>20. CASE BeginCreate
    BY <1>20 DEF BeginCreate
<1>21. CASE BeginCleanup
    BY <1>21 DEF BeginCleanup
<1>22. CASE Cancel
    BY <1>22 DEF Cancel
<1>23. CASE TaskExits
    BY <1>23 DEF TaskExits
<1>24. CASE OtherCreates
    BY <1>24 DEF OtherCreates
<1>25. CASE OtherRemoves
    BY <1>25 DEF OtherRemoves
<1>26. CASE UNCHANGED vars
    BY <1>26 DEF vars
<1>27. QED
    BY <1>1, <1>2, <1>3, <1>4, <1>5, <1>6, <1>7, <1>8, <1>9, <1>10, <1>11, <1>12, <1>13, <1>14, <1>15, <1>16, <1>17, <1>18, <1>19, <1>20, <1>21, <1>22, <1>23, <1>24, <1>25, <1>26
    DEF Next, Create, CreateResources, Cleanup, Caller, Outside

(* The initial state satisfies the invariant. *)
LEMMA InitIInv == Init => IInv
<1> SUFFICES ASSUME Init PROVE IInv
    OBVIOUS
<1> USE DEF Init
<1>a. conf.network \in {"none", "own", "shared"}
    BY AwsAssumption DEF Configuration
<1>b. stage \in DOMAIN Order
    BY OrderFacts
<1>c. 0 \in Runs
    BY AwsAssumption DEF Runs
<1>d. \A x \in Containers : ~Up(x)
    BY DEF Up
<1>1. WorldOK
    BY <1>c DEF WorldOK, Containers, Networks
<1>2. ObjectOK
    BY <1>a, <1>c DEF ObjectOK, Networks
<1>3. CallOK
    BY <1>c DEF CallOK
<1>4. LoopOK
    BY <1>b DEF LoopOK
<1>5. CallShape
    BY DEF CallShape, CreatePoints, ReleasePoints
<1>6. NetworkOwned
  <2>1. nets["own"] # "us"
    OBVIOUS
  <2>2. createNetwork => networkName = "own"
    OBVIOUS
  <2>3. ~networkCreated
    OBVIOUS
  <2>4. QED
    BY <2>1, <2>2, <2>3 DEF NetworkOwned
<1>7. TasksKnown /\ ContainersKnown
    BY <1>d DEF TasksKnown, ContainersKnown, Gone, Containers, Over, Running
<1>8. QED
    BY <1>1, <1>2, <1>3, <1>4, <1>5, <1>6, <1>7 DEF IInv, TypeOK, Safe

(* IInv is an invariant: every handler keeps it, whatever fails. *)
THEOREM Inductive == Spec => []IInv
<1>1. IInv /\ [Next]_vars => IInv'
    BY CallShapeStep, NetworkOwnedStep, ContainersKnownStep, WorldStep, ObjectStep,
       CallStep, LoopStep, TasksKnownStep
    DEF IInv, TypeOK, Safe
<1>2. QED
    BY InitIInv, <1>1, PTL DEF Spec

(* The values of the variables, and the ranges of createResources' loops     *)
(* (aws.go:551), for every configuration.                                    *)
THEOREM TypeCorrect == Spec => []TypeOK
<1>1. IInv => TypeOK
    BY DEF IInv
<1>2. QED
    BY Inductive, <1>1, PTL

(* Nothing the stack made is out of reach before its removal was tried, ECS  *)
(* containers included (aws.go:510).                                         *)
THEOREM HandlesKept == Spec => []HandleKept
<1>1. IInv => HandleKept
    BY DEF IInv, Safe, HandleKept, NetworkOwned, TasksKnown, ContainersKnown
<1>2. QED
    BY Inductive, <1>1, PTL

LEMMA InvClean == IInv => CleanupNilMeansClean
<1> SUFFICES ASSUME IInv, pc = "idle", op = "cleanup", ~err
             PROVE  /\ Remaining \subseteq missed \ Containers /\ tasks \subseteq lost
                      /\ registryPort = 0 /\ ~networkCreated
    BY DEF CleanupNilMeansClean
<1>1. Over /\ ~Running
    BY DEF Over, Running
<1>2. tasks \subseteq lost /\ registryPort = 0 /\ ~networkCreated
    BY <1>1 DEF IInv, Safe, TasksKnown, ContainersKnown, NetworkOwned
<1>3. ~Up("ministack") /\ ~Up("registry")
    BY <1>1 DEF IInv, Safe, ContainersKnown, Gone
<1>4. Remaining \subseteq missed \ Containers
    BY <1>2, <1>3 DEF Remaining, Containers, IInv, Safe, NetworkOwned
<1>5. QED
    BY <1>2, <1>4

(* A nil Cleanup leaves only what an earlier call failed to remove           *)
(* (aws.go:508).                                                             *)
THEOREM CleanupIsClean == Spec => []CleanupNilMeansClean
    BY Inductive, InvClean, PTL

LEMMA InvFailed == IInv => FailedCreateReleases
<1> SUFFICES ASSUME IInv, pc = "idle", op = "create", err
             PROVE  Remaining \subseteq missed /\ tasks \subseteq lost /\ ~abandoned
    BY DEF FailedCreateReleases
<1>1. Over /\ ~Running
    BY DEF Over, Running
<1>2. Remaining \subseteq missed
    BY <1>1 DEF IInv, Safe, ContainersKnown, NetworkOwned, Gone, Remaining, Containers
<1>3. QED
    BY <1>1, <1>2 DEF IInv, Safe, TasksKnown, CallShape

(* A failed Create leaves only what could not be removed, under a cancelled  *)
(* context too (aws.go:660).                                                 *)
THEOREM FailedCreateIsClean == Spec => []FailedCreateReleases
    BY Inductive, InvFailed, PTL

-----------------------------------------------------------------------------
(* A step of the stack is a step of the contract, or none. *)
LEMMA ContractStep ==
    IInv /\ (IInv /\ CleanupNilMeansClean /\ FailedCreateReleases)' /\ [Next]_vars
        => [Contract!Next]_(Contract!vars)
<1> SUFFICES ASSUME IInv, IInv', CleanupNilMeansClean', FailedCreateReleases', [Next]_vars
             PROVE  [Contract!Next]_(Contract!vars)
    OBVIOUS
<1>a. op \in {"new", "create", "cleanup"} /\ op' \in {"new", "create", "cleanup"}
      /\ err \in BOOLEAN /\ err' \in BOOLEAN
    BY DEF IInv, TypeOK, CallOK
<1>1. CASE UNCHANGED vars
    BY <1>1 DEF vars, call, world, history, Contract!vars, Phase, Remaining, Up
<1>2. CASE pc # "idle" /\ op' = op
  <2>1. op # "new"
    BY <1>2 DEF IInv, Safe, CallShape
  <2>2. CASE pc' # "idle"
    <3>1. Phase' = Phase /\ Phase \in {"creating", "cleaning"}
      BY <1>2, <1>a, <2>1, <2>2 DEF Phase
    <3>2. QED
      BY <3>1 DEF Contract!Next, Contract!Work
  <2>3. CASE pc' = "idle"
    <3>1. Phase = IF op = "create" THEN "creating" ELSE "cleaning"
      BY <1>2, <1>a, <2>1 DEF Phase
    <3>2. CASE op = "create" /\ err'
      <4>1. Phase' = "failed" /\ (Remaining' # {} => missed' # {})
        BY <1>2, <2>3, <3>2 DEF Phase, FailedCreateReleases
      <4>2. QED
        BY <3>1, <3>2, <4>1 DEF Contract!Next, Contract!ReturnError, Contract!Released
    <3>3. CASE op = "create" /\ ~err'
      <4>1. Phase' = "ready" /\ Remaining' # {}
        BY <1>2, <2>3, <3>3 DEF Phase, IInv, Safe, ContainersKnown, Running, Remaining, Containers
      <4>2. QED
        BY <3>1, <3>3, <4>1 DEF Contract!Next, Contract!ReturnReady
    <3>4. CASE op = "cleanup" /\ ~err'
      <4>1. Phase' = "clean" /\ (Remaining' # {} => missed' # {})
        BY <1>2, <2>3, <3>4 DEF Phase, CleanupNilMeansClean
      <4>2. QED
        BY <3>1, <3>4, <4>1 DEF Contract!Next, Contract!ReturnClean, Contract!Released
    <3>5. CASE op = "cleanup" /\ err'
      <4>1. Phase' = "dirty"
        BY <1>2, <2>3, <3>5 DEF Phase
      <4>2. QED
        BY <3>1, <3>5, <4>1 DEF Contract!Next, Contract!ReturnDirty
    <3>6. QED
      BY <1>a, <2>1, <3>2, <3>3, <3>4, <3>5
  <2>4. QED
    BY <2>2, <2>3
<1>3. CASE BeginCreate
  <2>1. Phase \in {"new", "failed", "clean", "dirty"} /\ Phase' = "creating"
    BY <1>3, <1>a DEF BeginCreate, Begin, Running, Phase
  <2>2. UNCHANGED Remaining
    BY <1>3 DEF BeginCreate, Begin, Remaining, Up, world
  <2>3. QED
    BY <2>1, <2>2 DEF Contract!Next, Contract!StartCreate, Contract!Call
<1>4. CASE BeginCleanup
  <2>1. Phase \in {"ready", "failed", "clean", "dirty"} /\ Phase' = "cleaning"
    BY <1>4, <1>a DEF BeginCleanup, Begin, Phase
  <2>2. UNCHANGED Remaining
    BY <1>4 DEF BeginCleanup, Begin, Remaining, Up, world
  <2>3. QED
    BY <2>1, <2>2 DEF Contract!Next, Contract!StartCleanup, Contract!Call
<1>5. CASE pc = "idle" /\ UNCHANGED <<op, pc, err, Remaining>>
  <2>1. Phase' = Phase /\ Phase \notin {"creating", "cleaning"}
    BY <1>5, <1>a DEF Phase
  <2>2. QED
    BY <1>5, <2>1 DEF Contract!Next, Contract!Rest
<1>6. CASE Outside \/ SetNetwork
  <2>1. UNCHANGED <<op, pc, err>>
    BY <1>6 DEF Outside, SetNetwork, TaskExits, OtherCreates, OtherRemoves, call
  <2>2. CASE ~OtherRemoves
    <3>1. UNCHANGED Remaining
      BY <1>6, <2>2 DEF Outside, SetNetwork, TaskExits, OtherCreates, Remaining, Up,
                        world, IInv, TypeOK, WorldOK, Networks
    <3>2. QED
      BY <1>2, <1>5, <2>1, <3>1
  <2>3. CASE OtherRemoves /\ pc = "idle"
    <3>1. Phase' = Phase /\ Phase \notin {"creating", "cleaning"}
      BY <1>a, <2>1, <2>3 DEF Phase
    <3>2. Remaining' \subseteq Remaining
      BY <2>3 DEF OtherRemoves, Remaining, Up, IInv, TypeOK, WorldOK, Networks
    <3>3. Phase = "ready" => Remaining' # {}
      <4>1. Phase = "ready" => Running
        BY <1>a, <2>3 DEF Phase, Running
      <4>2. Running => Up("ministack")'
        BY <2>3 DEF OtherRemoves, Up, IInv, Safe, ContainersKnown
      <4>3. QED
        BY <4>1, <4>2 DEF Remaining, Containers
    <3>4. UNCHANGED (Remaining # {}) \/ (Phase # "ready" /\ Remaining' = {})
      BY <3>2, <3>3
    <3>5. (Remaining # {})' \in {Remaining # {}, FALSE}
      BY <3>4
    <3>6. QED
      BY <3>1, <3>4, <3>5 DEF Contract!Next, Contract!Rest
  <2>4. QED
    BY <1>2, <2>1, <2>2, <2>3
<1>7. CASE Create \/ Cleanup \/ Cancel
  <2>1. pc # "idle" /\ op' = op
    BY <1>7 DEF Create, CreateResources, Cleanup, Cancel, CreateNetwork,
         StartRegistry, AwaitRegistry, PreloadImage, StartMiniStack, AwaitMiniStack,
         Await, CreateResource, CreateECSCluster, CreateECSService, RunECSTask, AtStep,
         NextKind, NoClient, DeleteServices, StopTasks, DeleteClusters,
         CleanupMiniStack, CleanupRegistry, RemoveNetwork, Ask, Release, Record,
         kept, fixed
  <2>2. QED
    BY <1>2, <2>1
<1>8. QED
    BY <1>1, <1>3, <1>4, <1>6, <1>7 DEF Next, Caller

(* aws.Stack implements the service contract, for every configuration. *)
THEOREM ImplementsContract == Spec => KeepsContract
<1>1. Init => Contract!Init
    BY DEF Init, Contract!Init, Phase, Remaining, Up, Containers
<1>2. QED
    BY Inductive, CleanupIsClean, FailedCreateIsClean, <1>1, ContractStep, PTL DEF Spec, KeepsContract, Contract!Spec

-----------------------------------------------------------------------------
(* What goes by the name of the network the object says it made is that one, *)
(* or one that another process put in its place.                             *)
NetworkMade == networkCreated => nets["own"] # "other"

(* The stack removes no network it did not make, with one exception: it      *)
(* removes by name, in the last step of a release (aws.go:520), so if its    *)
(* own network was removed from under it and another process has made one of *)
(* that name, the release takes that one for its own.  Two stacks of one     *)
(* name share the network of that name, and SetNetwork gives an object one   *)
(* that is not its own: neither is ever removed.                             *)
NetworksKept ==
    [][ \A n \in Networks :
          /\ nets[n] = "other" /\ nets'[n] # "other" => OtherRemoves
          /\ nets[n] \in {"us", "heir"} /\ nets'[n] # nets[n]
                => OtherRemoves \/ (pc = "rmNet" /\ networkCreated) ]_vars

(* The steps that a network can appear or disappear in. *)
LEMMA NetworkSteps ==
    Next => \/ CreateNetwork \/ RemoveNetwork \/ OtherCreates \/ OtherRemoves
            \/ UNCHANGED <<nets, networkCreated>>
<1> SUFFICES ASSUME Next PROVE \/ CreateNetwork \/ RemoveNetwork \/ OtherCreates
                               \/ OtherRemoves \/ UNCHANGED <<nets, networkCreated>>
    OBVIOUS
<1> USE DEF world, network, object
<1>1. CASE Create
    BY <1>1 DEF Create, CreateResources, StartRegistry, AwaitRegistry, PreloadImage,
       StartMiniStack, AwaitMiniStack, Await, CreateResource, CreateECSCluster,
       CreateECSService, RunECSTask, NextKind, NoClient
<1>2. CASE Cleanup
    BY <1>2 DEF Cleanup, DeleteServices, StopTasks, DeleteClusters, CleanupMiniStack,
       CleanupRegistry
<1>3. CASE Caller \/ Outside
    BY <1>3 DEF Caller, Outside, SetNetwork, BeginCreate, BeginCleanup, Begin, Cancel,
       TaskExits
<1>4. QED
    BY <1>1, <1>2, <1>3 DEF Next

LEMMA NetworkMadeStep == IInv /\ NetworkMade /\ [Next]_vars => NetworkMade'
<1> SUFFICES ASSUME IInv, NetworkMade, [Next]_vars PROVE NetworkMade'
    OBVIOUS
<1>a. nets \in [Networks -> {"absent", "us", "other", "heir"}] /\ "own" \in Networks
    BY DEF IInv, TypeOK, WorldOK, Networks
<1>1. CASE CreateNetwork
    BY <1>1, <1>a DEF CreateNetwork, Created, NetworkMade, IInv, Safe, NetworkOwned
<1>2. CASE RemoveNetwork
    BY <1>2 DEF RemoveNetwork, NetworkMade
<1>3. CASE OtherCreates \/ OtherRemoves
    BY <1>3, <1>a DEF OtherCreates, OtherRemoves, NetworkMade, object, network
<1>4. CASE UNCHANGED <<nets, networkCreated>>
    BY <1>4 DEF NetworkMade
<1>5. CASE UNCHANGED vars
    BY <1>5 DEF vars, world, object, network, NetworkMade
<1>6. QED
    BY <1>1, <1>2, <1>3, <1>4, <1>5, NetworkSteps

(* A network another process made is removed by the stack only where it took *)
(* the place and the name of the stack's own.                                *)
THEOREM NetworksAreKept == Spec => NetworksKept
<1> DEFINE Keeps ==
      \A n \in Networks :
         /\ nets[n] = "other" /\ nets'[n] # "other" => OtherRemoves
         /\ nets[n] \in {"us", "heir"} /\ nets'[n] # nets[n]
               => OtherRemoves \/ (pc = "rmNet" /\ networkCreated)
<1>1. IInv /\ NetworkMade /\ [Next]_vars => [Keeps]_vars
  <2> SUFFICES ASSUME IInv, NetworkMade, Next PROVE Keeps
    OBVIOUS
  <2>a. nets \in [Networks -> {"absent", "us", "other", "heir"}]
        /\ Networks = {"own", "shared"}
    BY DEF IInv, TypeOK, WorldOK, Networks
  <2>1. CASE CreateNetwork
    BY <2>1, <2>a DEF CreateNetwork
  <2>2. CASE RemoveNetwork
    BY <2>2, <2>a DEF RemoveNetwork, NetworkMade, IInv, Safe, NetworkOwned
  <2>3. CASE OtherCreates
    BY <2>3, <2>a DEF OtherCreates
  <2>4. CASE OtherRemoves
    BY <2>4, <2>a DEF OtherRemoves
  <2>5. CASE UNCHANGED <<nets, networkCreated>>
    BY <2>5
  <2>6. QED
    BY <2>1, <2>2, <2>3, <2>4, <2>5, NetworkSteps
<1>2. Init => NetworkMade
    BY DEF Init, NetworkMade
<1>3. QED
    BY Inductive, <1>1, <1>2, NetworkMadeStep, PTL DEF Spec, NetworksKept
=============================================================================
