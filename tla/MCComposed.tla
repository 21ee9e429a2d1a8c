----------------------------- MODULE MCComposed -----------------------------
(* The five ready-made stacks, and two lakes whose own name ends the way a   *)
(* catalog's does.                                                           *)
EXTENDS Composed

App    == << "app" >>
Nested == << "app", "-catalog" >>
Bare   == << "-catalog" >>
Dev    == << "dev" >>

AllStacks == {Lake(App), Lake(Nested), Lake(Bare), DataLake(App), RAG(App),
              Analytics(App), Workflow(App)}
=============================================================================
