-------------------------- MODULE ServiceContract --------------------------
(***************************************************************************)
(* What every harness of the repository promises as a scaffold.Service:    *)
(* Create either returns nil with the service up, or returns an error and  *)
(* leaves nothing behind; Cleanup that returns nil leaves nothing behind;  *)
(* and one call is answered before the next one starts.  "Nothing" has one *)
(* excuse: that a removal was refused.                                     *)
(*                                                                         *)
(* The detailed modules implement this one; the composed stacks are built  *)
(* on it.                                                                  *)
(***************************************************************************)
VARIABLES
    phase,    \* where the object is in its life
    holds,    \* a container or a network of the service exists
    excused   \* a removal was refused

vars == <<phase, holds, excused>>

Phases == {"new", "creating", "ready", "failed", "cleaning", "clean", "dirty"}

TypeOK == phase \in Phases /\ holds \in BOOLEAN /\ excused \in BOOLEAN

Init == phase = "new" /\ holds = FALSE /\ excused = FALSE

Call(from, to) == phase \in from /\ phase' = to /\ UNCHANGED holds

StartCreate  == Call({"new", "failed", "clean", "dirty"}, "creating")
StartCleanup == Call({"ready", "failed", "clean", "dirty"}, "cleaning")

(* While a call runs, resources come and go. *)
Work == phase \in {"creating", "cleaning"} /\ UNCHANGED phase

(* Between calls nothing comes back by itself.  What an earlier call left    *)
(* behind may go, but not what a service that is up is made of.              *)
Rest ==
    /\ phase \notin {"creating", "cleaning"} /\ UNCHANGED phase
    /\ holds' \in (IF phase = "ready" THEN {holds} ELSE {holds, FALSE})

Released == holds' => excused'

ReturnReady == phase = "creating" /\ phase' = "ready" /\ holds'
ReturnError == phase = "creating" /\ phase' = "failed" /\ Released
ReturnClean == phase = "cleaning" /\ phase' = "clean" /\ Released
ReturnDirty == phase = "cleaning" /\ phase' = "dirty"

Next ==
    /\ \/ StartCreate \/ StartCleanup \/ Work \/ Rest
       \/ ReturnReady \/ ReturnError \/ ReturnClean \/ ReturnDirty
    /\ holds' \in BOOLEAN /\ excused' \in BOOLEAN

Spec == Init /\ [][Next]_vars
=============================================================================
