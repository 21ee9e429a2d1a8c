----------------------------- MODULE MCAwsStack -----------------------------
(* Stacks built from the options. *)
EXTENDS AwsStackProofs, TLC

Padded == " app" :> "app" @@ "  " :> ""

(* Buckets, queues and topics only: one container, no network. *)
Plain ==
    WithResources(WithResources(WithResources(Blank,
        "s3", <<Named("b"), Named("b")>>), "sqs", <<Named("q")>>), "sns", <<Named("t")>>)

Worker(cluster, image) ==
    [name |-> "w", cluster |-> cluster, image |-> image, valid |-> TRUE]

(* The README's example: a cluster asked for three times, a service whose    *)
(* image is pushed first, a task of a preloaded image; a network of its own. *)
App ==
    WithECS(WithECS(WithLocalImage(WithECSCluster(Blank, "app"), "img"),
        "service", Worker("app", "api")), "task", Worker("app", ""))

(* A service whose option alone brings in its cluster, registry and network. *)
Lone == WithECS(Blank, "service", Worker("app", "api"))

(* Tasks on the default cluster and a network given from outside, and a      *)
(* table that cannot be made twice.                                          *)
Shared ==
    WithResources(WithECS(WithDockerNetwork(Blank, "shared"), "task", Worker("", "")),
        "dynamodb", <<NeedsName("d")>>)

Twice   == WithResources(Blank, "dynamodb", <<NeedsName("d"), NeedsName("d")>>)
Unnamed == WithResources(Blank, "secretsmanager", <<NeedsName("")>>)

(* A service whose cluster is named with a blank in front, and by another    *)
(* option without; clusters and a service of MiniStack with a blank name.    *)
Spaced == WithECS(WithECSCluster(Blank, "app"), "service", Worker(" app", ""))
Empty  == WithECSCluster(WithECSCluster(Service(Blank, "  "), "  "), " app")

AllConfs == {NewStack(c) : c \in {Plain, App, Lone, Shared, Twice, Unnamed, Spaced, Empty}}
=============================================================================
