----------------------------- MODULE AwsOptions -----------------------------
(***************************************************************************)
(* What NewStack makes of its options: each option of the aws package is a *)
(* function on the configuration, applied in the order given, and NewStack *)
(* completes the result.                                                   *)
(*                                                                         *)
(* A step is one resource createResources is to make: its name, for ECS    *)
(* the cluster it goes to and the local image it pushes first ("" for      *)
(* none), and whether the checks of this package let it through.           *)
(***************************************************************************)
EXTENDS Sequences, FiniteSets, Integers

CONSTANT Trimmed   \* a name with blanks around it -> the name without them

(* createResources goes through the kinds in this order. *)
Order == <<"s3", "sqs", "sns", "dynamodb", "secretsmanager", "ssm", "kinesis",
           "events", "cluster", "service", "task">>
Kinds == {Order[k] : k \in DOMAIN Order}
ECS   == {"cluster", "service", "task"}

(* TLC finds this true; the provers do not know a literal to be a string. *)
ASSUME LiteralAssumption == Kinds \cup {"", "ecs"} \subseteq STRING

ASSUME TrimmedAssumption ==
    /\ DOMAIN Trimmed \subseteq STRING \ (Kinds \cup {"", "ecs"})
    /\ \A name \in DOMAIN Trimmed : Trimmed[name] \in STRING \ DOMAIN Trimmed

(* What uniqueServices makes of a name before it compares it. *)
Trim(name) == IF name \in DOMAIN Trimmed THEN Trimmed[name] ELSE name

Step == [name : STRING, cluster : STRING, image : STRING, valid : BOOLEAN]

Configuration == [registry : BOOLEAN, docker : BOOLEAN,
                  network : {"none", "own", "shared"},
                  services : SUBSET STRING,
                  images : Seq(STRING),
                  wanted : [Kinds -> Seq(Step)]]

Blank == [registry |-> FALSE, docker |-> FALSE, network |-> "none",
          services |-> {}, images |-> << >>, wanted |-> [k \in Kinds |-> << >>]]

Named(name)     == [name |-> name, cluster |-> "", image |-> "", valid |-> TRUE]
NeedsName(name) == [Named(name) EXCEPT !.valid = (name # "")]

Enable(c, services)  == [c EXCEPT !.services = @ \cup services]
Want(c, kind, steps) == [c EXCEPT !.wanted[kind] = @ \o steps]
Service(c, service)  == Enable(c, {service})

(* WithS3, WithSQS, WithDynamoDB and their like enable a service and ask for *)
(* what is to be made in it.                                                 *)
WithResources(c, kind, steps) == Want(Service(c, kind), kind, steps)

WithDockerSocket(c) == [c EXCEPT !.docker = TRUE]

WithDockerNetwork(c, network) ==
    [c EXCEPT !.docker = TRUE,
              !.network = IF network = "none" THEN @ ELSE network]

WithRegistry(c) == [c EXCEPT !.registry = TRUE, !.docker = TRUE]

WithLocalImage(c, image) ==
    [WithRegistry(c) EXCEPT !.images = Append(@, image)]

WithECSCluster(c, name) ==
    LET ecs == WithDockerSocket(Service(c, "ecs"))
    IN  IF name = "" THEN ecs ELSE Want(ecs, "cluster", <<Named(name)>>)

WithECS_NoRegistry(c, kind, step) ==
    Want(WithECSCluster(c, step.cluster), kind, <<step>>)

(* A service or task also asks for its cluster, once more if another one did *)
(* already; one whose image has to be pushed enables the registry.           *)
WithECS(c, kind, step) ==
    LET with == IF step.image = "" THEN c ELSE WithRegistry(c)
    IN  Want(WithECSCluster(with, step.cluster), kind, <<step>>)

(* NewStack gives a registry a network of its own if it was given none. *)
NewStack(c) ==
    IF c.registry /\ c.network = "none" THEN [c EXCEPT !.network = "own"] ELSE c

(* What createResources relies on and does not check (aws.go:551,            *)
(* ecs.go:131): the service a resource is made in is enabled, ECS has the    *)
(* Docker socket, a service or task finds the cluster it names made too, and *)
(* an image to push has a registry to go to.                                 *)
Hosted(c, kind) == IF kind \in ECS THEN "ecs" \in c.services /\ c.docker
                                   ELSE kind \in c.services

AsksFor(c, cluster) ==
    \E l \in DOMAIN c.wanted["cluster"] : c.wanted["cluster"][l].name = cluster

Finds(c, step) == /\ step.image # "" => c.registry
                  /\ step.cluster # "" => AsksFor(c, step.cluster)

WellBuilt(c) ==
    /\ \A k \in Kinds : c.wanted[k] # << >> => Hosted(c, k)
    /\ \A k \in {"service", "task"} : \A j \in DOMAIN c.wanted[k] :
          Finds(c, c.wanted[k][j])
    /\ c.images # << >> => c.registry
    /\ c.registry => c.docker
=============================================================================
