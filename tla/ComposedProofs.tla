--------------------------- MODULE ComposedProofs ---------------------------
(* What is proved of the ready-made stacks, for any groups of any services:  *)
(* over services that keep ServiceContract, the stack keeps it.              *)
EXTENDS Composed, SequenceTheorems, TLAPS

TypeOK ==
    /\ stack \in Stacks
    /\ phase \in Phases
    /\ pc \in {"rest", "network", "start", "stop", "unlink"}
    /\ group \in Nat /\ todo \in SUBSET Members
    /\ network \in BOOLEAN
    /\ member \in [Members -> Service]
    /\ excused \in BOOLEAN

(* A call stands somewhere exactly while the stack's phase says it runs, and *)
(* a group is started only if there is one.                                  *)
CallShape ==
    /\ pc = "rest" <=> phase \notin Busy
    /\ pc \in {"network", "start"} => phase = "creating" /\ group \in DOMAIN stack.groups

(* A service works only while the stack starts its group or stops services.  *)
WorkShape ==
    \A m \in Members : /\ member[m].phase = "creating" =>
                              pc = "start" /\ m \in stack.groups[group] /\ m \in todo
                       /\ member[m].phase = "cleaning" => pc = "stop"

(* A service that is up belongs to a stack that is, or is still to be        *)
(* released if this call fails.                                              *)
ReadyShape ==
    \A m \in Members : member[m].phase = "ready" =>
        /\ member[m].holds
        /\ phase = "ready" \/ (pc \in {"start", "stop"} /\ m \in todo)

(* What a service at rest still holds has an excuse.                         *)
Excuses ==
    \A m \in Members :
        member[m].holds /\ member[m].phase \notin Busy \cup {"ready"} => excused

IInv == TypeOK /\ CallShape /\ WorkShape /\ ReadyShape /\ Excuses

-----------------------------------------------------------------------------
LEMMA GroupFacts ==
    ASSUME NEW s \in Stacks
    PROVE  /\ Len(s.groups) \in Nat \ {0}
           /\ DOMAIN s.groups = 1 .. Len(s.groups)
           /\ \A g \in DOMAIN s.groups : s.groups[g] # {} /\ s.groups[g] \subseteq Services(s)
<1>1. s.groups \in Seq(SUBSET Services(s)) /\ s.groups # << >> /\ {} \notin Groups(s)
    BY ComposedAssumption
<1>2. Len(s.groups) \in Nat \ {0} /\ DOMAIN s.groups = 1 .. Len(s.groups)
    BY <1>1
<1>3. \A g \in DOMAIN s.groups : s.groups[g] # {} /\ s.groups[g] \subseteq Services(s)
    BY <1>1, <1>2 DEF Groups
<1>4. QED
    BY <1>2, <1>3

LEMMA InitIInv == Init => IInv
<1> SUFFICES ASSUME Init PROVE IInv
    OBVIOUS
<1>1. \A m \in Members : member[m] = Fresh
    BY DEF Init
<1>2. Fresh \in Service /\ Fresh.phase = "new" /\ Fresh.holds = FALSE
    BY DEF Fresh, Service, Phases
<1>3. TypeOK
  <2>1. member \in [Members -> Service]
    BY <1>2 DEF Init
  <2>2. QED
    BY <2>1 DEF Init, TypeOK, Phases
<1>4. CallShape
    BY DEF Init, CallShape, Busy
<1>5. WorkShape /\ ReadyShape /\ Excuses
    BY <1>1, <1>2 DEF WorkShape, ReadyShape, Excuses
<1>6. QED
    BY <1>3, <1>4, <1>5 DEF IInv

(* The steps of a service in a call of its own, by the contract.             *)
LEMMA MemberStep ==
    ASSUME IInv, NEW m \in Members, Serve(m)
    PROVE  /\ member' = [member EXCEPT ![m] = member'[m]] /\ member'[m] \in Service
           /\ \/ member'[m].phase = member[m].phase
              \/ /\ member[m].phase = "creating"
                 /\ \/ member'[m].phase = "ready" /\ member'[m].holds
                    \/ member'[m].phase = "failed"
              \/ member[m].phase = "cleaning" /\ member'[m].phase \in {"clean", "dirty"}
           /\ member'[m].phase \notin Busy \cup {"ready"} /\ member'[m].holds => excused'
           /\ pc \in {"start", "stop"}
           /\ excused' \in BOOLEAN /\ (excused => excused')
<1>1. member \in [Members -> Service] /\ excused \in BOOLEAN
    BY DEF IInv, TypeOK
<1>2. PICK r \in Service : member' = [member EXCEPT ![m] = r]
    BY DEF Serve
<1>3. member'[m] = r
    BY <1>1, <1>2
<1>4. member[m].phase \in Busy /\ Member(m)!Next
    BY DEF Serve
<1>5. excused' = (excused \/ member'[m].excused \/ member'[m].phase = "dirty")
    BY DEF Serve
<1>6. pc \in {"start", "stop"}
    BY <1>4 DEF IInv, WorkShape, Busy
<1>7. /\ \/ member'[m].phase = member[m].phase
         \/ /\ member[m].phase = "creating"
            /\ \/ member'[m].phase = "ready" /\ member'[m].holds
               \/ member'[m].phase = "failed"
                  /\ (member'[m].holds => member'[m].excused)
         \/ /\ member[m].phase = "cleaning"
            /\ \/ member'[m].phase = "dirty"
               \/ member'[m].phase = "clean"
                  /\ (member'[m].holds => member'[m].excused)
    BY <1>4 DEF Busy, Member!Next, Member!StartCreate, Member!StartCleanup, Member!Call,
                Member!Work, Member!Rest, Member!ReturnReady, Member!ReturnError,
                Member!ReturnClean, Member!ReturnDirty, Member!Released
<1>8. r.excused \in BOOLEAN
    BY DEF Service
<1>9. QED
    BY <1>1, <1>2, <1>3, <1>4, <1>5, <1>6, <1>7, <1>8 DEF Busy

-----------------------------------------------------------------------------
(* The steps of the stack itself that leave the services alone.              *)
LEMMA StackStep ==
    ASSUME IInv, UNCHANGED <<stack, member>>,
           BeginCreate \/ CreateNetwork \/ NextGroup \/ Release
             \/ BeginCleanup \/ Stopped \/ Unlink \/ SetNamePrefix \/ OthersUnlink
    PROVE  IInv'
<1>. USE DEF IInv, TypeOK
<1>0. Members' = Members
    BY DEF Members
<1>1. CASE SetNamePrefix
    BY <1>0, <1>1 DEF SetNamePrefix, call, CallShape, WorkShape, ReadyShape, Excuses
<1>2. CASE BeginCreate
  <2>1. 1 \in DOMAIN stack.groups
    BY GroupFacts
  <2>2. Excuses'
    BY <1>0, <1>2 DEF BeginCreate, Excuses, Holds
  <2>3. excused' \in BOOLEAN
    BY <1>2 DEF BeginCreate
  <2>4. pc = "rest" /\ phase # "ready" /\ phase' = "creating" /\ pc' = "network"
        /\ group' = 1 /\ todo' = todo /\ network' = network
    BY <1>2 DEF BeginCreate
  <2>5. QED
    BY <1>0, <2>1, <2>2, <2>3, <2>4
       DEF CallShape, WorkShape, ReadyShape, Phases, Busy
<1>3. CASE CreateNetwork
  <2>1. stack.shared \in BOOLEAN
    BY ComposedAssumption
  <2>2. network' \in BOOLEAN /\ pc' \in {"start", "unlink"} /\ todo' \in SUBSET Members
        /\ UNCHANGED <<phase, group, excused>>
    BY <1>3, <2>1 DEF CreateNetwork
  <2>3. pc = "network" /\ phase = "creating"
    BY <1>3 DEF CreateNetwork, CallShape
  <2>4. \A m \in Members : member[m].phase \notin Busy \cup {"ready"}
    BY <2>3 DEF WorkShape, ReadyShape, Busy
  <2>5. QED
    BY <1>0, <2>2, <2>3, <2>4 DEF CallShape, WorkShape, ReadyShape, Excuses, Busy
<1>4. CASE NextGroup
  <2>1. pc = "start" /\ phase = "creating" /\ Ready(stack.groups[group])
        /\ UNCHANGED <<network, excused>>
    BY <1>4 DEF NextGroup, CallShape
  <2>0. \A m \in Members : member[m].phase \notin Busy
    BY <2>1 DEF WorkShape, Ready, Busy
  <2>2. CASE group < Len(stack.groups)
    <3>1. group' = group + 1 /\ UNCHANGED <<phase, pc, todo>>
      BY <1>4, <2>2 DEF NextGroup
    <3>2. group' \in DOMAIN stack.groups
      BY <2>2, <3>1, GroupFacts
    <3>3. QED
      BY <1>0, <2>0, <2>1, <3>1, <3>2 DEF CallShape, WorkShape, ReadyShape, Excuses
  <2>3. CASE ~(group < Len(stack.groups))
    <3>1. phase' = "ready" /\ pc' = "rest" /\ todo' = {} /\ group' = group
      BY <1>4, <2>3 DEF NextGroup
    <3>2. QED
      BY <1>0, <2>0, <2>1, <3>1 DEF CallShape, WorkShape, ReadyShape, Excuses, Phases, Busy
  <2>4. QED
    BY <2>2, <2>3
<1>5. CASE Release
  <2>1. pc = "start" /\ pc' = "stop" /\ UNCHANGED <<phase, group, todo, network, excused>>
        /\ \A m \in Members : member[m].phase \notin Busy
    BY <1>5 DEF Release
  <2>2. QED
    BY <1>0, <2>1 DEF CallShape, WorkShape, ReadyShape, Excuses, Busy
<1>6. CASE BeginCleanup
  <2>1. pc = "rest" /\ phase' = "cleaning" /\ pc' = "stop" /\ UNCHANGED <<group, network>>
        /\ todo' = {m \in Members : member[m].phase # "new"}
    BY <1>6 DEF BeginCleanup
  <2>2. Excuses' /\ excused' \in BOOLEAN
    BY <1>0, <1>6 DEF BeginCleanup, Excuses, Holds
  <2>3. QED
    BY <1>0, <2>1, <2>2 DEF CallShape, WorkShape, ReadyShape, Phases, Busy
<1>7. CASE Stopped
  <2>1. pc = "stop" /\ todo = {} /\ pc' = "unlink"
        /\ UNCHANGED <<phase, group, todo, network, excused>>
        /\ \A m \in Members : member[m].phase \notin Busy
    BY <1>7 DEF Stopped
  <2>2. QED
    BY <1>0, <2>1 DEF CallShape, WorkShape, ReadyShape, Excuses, Busy
<1>8. CASE Unlink
  <2>1. pc = "unlink" /\ pc' = "rest" /\ network' \in BOOLEAN /\ UNCHANGED <<group, todo>>
        /\ excused' \in BOOLEAN /\ (excused => excused')
        /\ phase' \in {"failed", "dirty", "clean"}
    BY <1>8 DEF Unlink
  <2>2. phase # "ready" /\ \A m \in Members : member[m].phase \notin Busy
    BY <2>1 DEF CallShape, WorkShape, Busy
  <2>3. QED
    BY <1>0, <2>1, <2>2 DEF CallShape, WorkShape, ReadyShape, Excuses, Phases, Busy
<1>9. CASE OthersUnlink
    BY <1>0, <1>9 DEF OthersUnlink, call, CallShape, WorkShape, ReadyShape, Excuses
<1>10. QED
    BY <1>1, <1>2, <1>3, <1>4, <1>5, <1>6, <1>7, <1>8, <1>9

(* The steps of one service.                                                 *)
LEMMA ServiceStep ==
    ASSUME IInv, NEW m \in Members, Start(m) \/ Serve(m) \/ Stop(m) \/ Fade(m)
    PROVE  IInv'
<1>. USE DEF IInv, TypeOK
<1>0. Members' = Members /\ UNCHANGED <<stack, phase, pc, group, network>>
    BY DEF Members, Start, Serve, Stop, Fade, call
<1>1. CASE Start(m)
  <2>1. pc = "start" /\ m \in stack.groups[group] /\ todo' = todo \cup {m}
        /\ excused' = excused /\ member' = [member EXCEPT ![m].phase = "creating"]
    BY <1>1 DEF Start
  <2>2. member[m] \in Service /\ [member[m] EXCEPT !.phase = "creating"] \in Service
        /\ member'[m].phase = "creating"
    BY <2>1 DEF Service, Phases
  <2>3. \A k \in Members \ {m} : member'[k] = member[k]
    BY <2>1
  <2>4. TypeOK'
    BY <1>0, <2>1, <2>2
  <2>5. WorkShape' /\ ReadyShape' /\ Excuses'
    BY <1>0, <2>1, <2>2, <2>3 DEF WorkShape, ReadyShape, Excuses, Busy
  <2>6. QED
    BY <1>0, <2>4, <2>5 DEF CallShape
<1>2. CASE Serve(m)
  <2>. DEFINE r == member'[m]
  <2>1. member' = [member EXCEPT ![m] = r] /\ r \in Service
        /\ pc \in {"start", "stop"} /\ todo' = todo
        /\ excused' \in BOOLEAN /\ (excused => excused')
    BY <1>2, MemberStep DEF Serve, call
  <2>2. \A k \in Members \ {m} : member'[k] = member[k]
    BY <2>1
  <2>3. member[m].phase \in Busy
    BY <1>2 DEF Serve
  <2>4. /\ \/ r.phase = member[m].phase
           \/ /\ member[m].phase = "creating"
              /\ \/ r.phase = "ready" /\ r.holds
                 \/ r.phase = "failed"
           \/ member[m].phase = "cleaning" /\ r.phase \in {"clean", "dirty"}
        /\ r.phase \notin Busy \cup {"ready"} /\ r.holds => excused'
    BY <1>2, MemberStep
  <2>5. TypeOK'
    BY <1>0, <2>1
  <2>6. WorkShape'
    BY <1>0, <2>1, <2>2, <2>3, <2>4 DEF WorkShape, Busy
  <2>7. ReadyShape'
    BY <1>0, <2>1, <2>2, <2>3, <2>4 DEF ReadyShape, WorkShape, Busy
  <2>8. Excuses'
    BY <1>0, <2>1, <2>2, <2>4 DEF Excuses
  <2>9. QED
    BY <1>0, <2>5, <2>6, <2>7, <2>8 DEF CallShape
<1>3. CASE Stop(m)
  <2>1. pc = "stop" /\ todo' = todo \ {m} /\ excused' = excused
        /\ member' = [member EXCEPT ![m].phase = "cleaning"]
    BY <1>3 DEF Stop
  <2>2. member[m] \in Service /\ [member[m] EXCEPT !.phase = "cleaning"] \in Service
        /\ member'[m].phase = "cleaning"
    BY <2>1 DEF Service, Phases
  <2>3. \A k \in Members \ {m} : member'[k] = member[k]
    BY <2>1
  <2>4. TypeOK'
    BY <1>0, <2>1, <2>2
  <2>5. WorkShape' /\ ReadyShape' /\ Excuses'
    BY <1>0, <2>1, <2>2, <2>3 DEF WorkShape, ReadyShape, Excuses, Busy
  <2>6. QED
    BY <1>0, <2>4, <2>5 DEF CallShape
<1>4. CASE Fade(m)
  <2>1. todo' = todo /\ excused' = excused /\ member' = [member EXCEPT ![m].holds = FALSE]
        /\ UNCHANGED <<stack, phase, pc, group, network>>
    BY <1>4 DEF Fade, call
  <2>2. member[m] \in Service /\ [member[m] EXCEPT !.holds = FALSE] \in Service
        /\ member'[m].phase = member[m].phase /\ ~member'[m].holds
        /\ member[m].phase # "ready"
    <3>1. member'[m] = [member[m] EXCEPT !.holds = FALSE] /\ member[m] \in Service
      BY <2>1
    <3>2. \A r \in Service : LET s == [r EXCEPT !.holds = FALSE] IN
              s \in Service /\ s.phase = r.phase /\ ~s.holds
      BY DEF Service
    <3>3. member[m].phase # "ready"
      BY <1>4 DEF Fade
    <3>4. QED
      BY <3>1, <3>2, <3>3
  <2>3. \A k \in Members \ {m} : member'[k] = member[k]
    BY <2>1
  <2>4. TypeOK'
    BY <1>0, <2>1, <2>2
  <2>5. WorkShape' /\ ReadyShape' /\ Excuses'
    BY <1>0, <2>1, <2>2, <2>3 DEF WorkShape, ReadyShape, Excuses
  <2>6. QED
    BY <1>0, <2>4, <2>5 DEF CallShape
<1>5. QED
    BY <1>1, <1>2, <1>3, <1>4

(* In every behaviour a service at rest holds nothing without an excuse, and *)
(* one that is up is accounted for by the stack that started it.             *)
THEOREM Inductive == Spec => []IInv
<1>1. IInv /\ UNCHANGED vars => IInv'
    BY DEF IInv, TypeOK, CallShape, WorkShape, ReadyShape, Excuses, vars, call, Members
<1>2. ASSUME IInv, Next PROVE IInv'
  <2>1. CASE \E m \in Members : Start(m) \/ Serve(m) \/ Stop(m) \/ Fade(m)
    BY <1>2, <2>1, ServiceStep
  <2>2. CASE ~\E m \in Members : Start(m) \/ Serve(m) \/ Stop(m) \/ Fade(m)
    <3>1. SetNamePrefix \/ BeginCreate \/ CreateNetwork \/ NextGroup \/ Release
            \/ BeginCleanup \/ Stopped \/ Unlink \/ OthersUnlink
      BY <1>2, <2>2 DEF Next
    <3>2. UNCHANGED <<stack, member>>
      BY <3>1 DEF SetNamePrefix, BeginCreate, CreateNetwork, NextGroup, Release,
                  BeginCleanup, Stopped, Unlink, OthersUnlink
    <3>3. QED
      BY <1>2, <3>1, <3>2, StackStep
  <2>3. QED
    BY <2>1, <2>2
<1>3. QED
    BY InitIInv, <1>1, <1>2, PTL DEF Spec

-----------------------------------------------------------------------------
(* Every step is one the contract of the whole stack allows.                 *)
LEMMA ContractStep == IInv /\ IInv' /\ [Next]_vars => [Whole!Next]_(Whole!vars)
<1>. SUFFICES ASSUME IInv, IInv', [Next]_vars PROVE [Whole!Next]_(Whole!vars)
    OBVIOUS
<1>0. phase \in Phases /\ excused \in BOOLEAN /\ excused' \in BOOLEAN
      /\ (pc = "rest" <=> phase \notin Busy)
    BY DEF IInv, TypeOK, CallShape
<1>a. Holds' \in BOOLEAN /\ Holds \in BOOLEAN
    BY DEF IInv, TypeOK, Holds
<1>1. CASE UNCHANGED vars
    BY <1>1 DEF vars, call, Whole!vars, Holds, Members
<1>2. CASE SetNamePrefix
  <2>1. phase \notin Busy /\ UNCHANGED <<phase, Holds>>
    BY <1>2, <1>0 DEF SetNamePrefix, call, Holds, Members
  <2>2. QED
    BY <1>0, <1>a, <2>1 DEF Whole!Next, Whole!Rest, Busy
<1>3. CASE BeginCreate
  <2>1. UNCHANGED Holds
    BY <1>3 DEF BeginCreate, Holds, Members
  <2>2. QED
    BY <1>0, <1>a, <1>3, <2>1 DEF BeginCreate, Whole!Next, Whole!StartCreate, Whole!Call
<1>4. CASE BeginCleanup
  <2>1. UNCHANGED Holds
    BY <1>4 DEF BeginCleanup, Holds, Members
  <2>2. QED
    BY <1>0, <1>a, <1>4, <2>1 DEF BeginCleanup, Whole!Next, Whole!StartCleanup, Whole!Call
<1>5. CASE phase' = phase /\ pc # "rest"
    BY <1>0, <1>a, <1>5 DEF Whole!Next, Whole!Work, Busy
<1>6. CASE NextGroup /\ ~(group < Len(stack.groups))
  <2>1. pc = "start" /\ phase' = "ready" /\ UNCHANGED <<stack, member>>
        /\ Ready(stack.groups[group])
    BY <1>6 DEF NextGroup
  <2>2. phase = "creating" /\ group \in DOMAIN stack.groups /\ stack \in Stacks
    BY <2>1 DEF IInv, CallShape, TypeOK
  <2>3. PICK m \in Members : member[m].phase = "ready"
    BY <2>1, <2>2, GroupFacts DEF Ready, Members
  <2>4. m \in Members' /\ member'[m].holds
    BY <2>1, <2>3 DEF IInv, ReadyShape, Members
  <2>5. Holds'
    BY <2>4 DEF Holds
  <2>6. QED
    BY <1>0, <1>a, <2>1, <2>2, <2>5 DEF Whole!Next, Whole!ReturnReady
<1>7. CASE Unlink
  <2>1. pc = "unlink" /\ pc' = "rest" /\ UNCHANGED <<stack, member>>
        /\ phase' \in {"failed", "clean", "dirty"}
        /\ (phase = "creating" => phase' = "failed")
        /\ (phase # "creating" => phase' \in {"clean", "dirty"})
        /\ (network' => excused')
    BY <1>7 DEF Unlink
  <2>2. phase \in {"creating", "cleaning"}
    BY <1>0, <2>1 DEF Busy
  <2>3. \A m \in Members' : member'[m].phase \notin Busy \cup {"ready"}
    BY <2>1 DEF IInv, WorkShape, ReadyShape, Busy
  <2>4. Holds' => excused'
    BY <2>1, <2>3 DEF IInv, Excuses, Holds
  <2>5. QED
    BY <1>0, <1>a, <2>1, <2>2, <2>4
       DEF Whole!Next, Whole!ReturnError, Whole!ReturnClean, Whole!ReturnDirty, Whole!Released
<1>8. CASE CreateNetwork \/ Release \/ Stopped \/ \E m \in Members : Start(m) \/ Stop(m)
    BY <1>5, <1>8 DEF CreateNetwork, Release, Stopped, Start, Stop
<1>9. CASE \E m \in Members : Serve(m)
  <2>1. PICK m \in Members : Serve(m)
    BY <1>9
  <2>2. pc # "rest"
    BY <2>1, MemberStep
  <2>3. phase' = phase
    BY <2>1 DEF Serve, call
  <2>4. QED
    BY <1>5, <2>2, <2>3
<1>10. CASE NextGroup /\ group < Len(stack.groups)
    BY <1>5, <1>10 DEF NextGroup
<1>11. CASE OthersUnlink \/ \E m \in Members : Fade(m)
  <2>1. phase # "ready" /\ phase' = phase /\ stack' = stack
    BY <1>11 DEF OthersUnlink, Fade, call
  <2>2. Holds' => Holds
    <3>1. CASE OthersUnlink
      BY <3>1 DEF OthersUnlink, Holds, Members
    <3>2. CASE \E m \in Members : Fade(m)
      <4>1. PICK m \in Members : Fade(m)
        BY <3>2
      <4>2. \A k \in Members : member'[k].holds => member[k].holds
        BY <4>1 DEF Fade, IInv, TypeOK, Service
      <4>3. QED
        BY <2>1, <4>1, <4>2 DEF Fade, Holds, Members
    <3>3. QED
      BY <1>11, <3>1, <3>2
  <2>3. CASE phase \in Busy
    BY <1>0, <1>a, <2>1, <2>3 DEF Whole!Next, Whole!Work, Busy
  <2>4. CASE phase \notin Busy
    BY <1>0, <1>a, <2>1, <2>2, <2>4 DEF Whole!Next, Whole!Rest, Busy
  <2>5. QED
    BY <2>3, <2>4
<1>12. QED
    BY <1>1, <1>2, <1>3, <1>4, <1>6, <1>7, <1>8, <1>9, <1>10, <1>11 DEF Next

(* The composed stack keeps the contract its services keep, whatever its     *)
(* groups, however often it is created and cleaned up, and in whatever order *)
(* the services of a group start, fail and stop.                             *)
THEOREM ImplementsContract == Spec => KeepsContract
<1>1. Init => Whole!Init
    BY DEF Init, Whole!Init, Holds, Fresh
<1>2. QED
    BY Inductive, <1>1, ContractStep, PTL DEF Spec, KeepsContract, Whole!Spec

-----------------------------------------------------------------------------
(* The addresses.  Whatever a service is told to dial is the name of another *)
(* service of the stack, on the shared network, and Trino is told only of    *)
(* services of earlier groups.                                               *)
Resolvable(s) ==
    /\ \E P : s.name \in Seq(P)
    /\ \A m \in Services(s) : \A address \in s.addresses[m] :
         \E k \in Services(s) :
            /\ address = Append(s.name, k) /\ s.shared
            /\ m = "-trino" => \A g \in DOMAIN s.groups :
                   m \in s.groups[g] => \E h \in 1 .. g - 1 : k \in s.groups[h]

(* The stacks the constructors build; names are made of parts from a set P   *)
(* that has the two suffixes code puts in the middle of one.                 *)
PresetOver(P) ==
    \A s \in Stacks : \E name \in Seq(P) :
        s \in {Lake(name), DataLake(name), RAG(name), Analytics(name), Workflow(name)}

Presets == \E P : {"-catalog", "-lake"} \subseteq P /\ PresetOver(P)

LEMMA TrimAppend ==
    ASSUME NEW S, NEW name \in Seq(S), NEW suffix \in S
    PROVE  TrimSuffix(Append(name, suffix), suffix) = name
<1>. DEFINE full == Append(name, suffix)
<1>1. full \in Seq(S) /\ Len(full) = Len(name) + 1 /\ Len(name) \in Nat
      /\ full[Len(full)] = suffix
    BY AppendProperties
<1>2. TrimSuffix(full, suffix) = SubSeq(full, 1, Len(name))
    BY <1>1 DEF TrimSuffix
<1>3. SubSeq(full, 1, Len(name)) = name
    OBVIOUS
<1>4. QED
    BY <1>2, <1>3

LEMMA LakeResolvable ==
    ASSUME NEW P, "-catalog" \in P, NEW name \in Seq(P)
    PROVE  Resolvable(Lake(name))
<1>. DEFINE s == Lake(name)
<1>1. s.name = name /\ s.shared
      /\ s.groups = << {"-minio", "-catalog"}, {"-trino"} >>
    BY DEF Lake
<1>2. Services(s) = {"-minio", "-catalog", "-trino"}
  <2>1. DOMAIN s.groups = {1, 2}
    BY <1>1
  <2>2. Groups(s) = {s.groups[1], s.groups[2]}
    BY <2>1 DEF Groups
  <2>3. QED
    BY <2>2, <1>1 DEF Services
<1>3. /\ s.addresses["-minio"] = {}
      /\ s.addresses["-catalog"] = {CatalogEndpoint(Append(name, "-catalog"))}
      /\ s.addresses["-trino"] = {Append(name, "-catalog"), Append(name, "-minio")}
    BY DEF Lake
<1>4. CatalogEndpoint(Append(name, "-catalog")) = Append(name, "-minio")
  <2>1. TrimSuffix(Append(name, "-catalog"), "-catalog") = name
    BY TrimAppend
  <2>2. QED
    BY <2>1 DEF CatalogEndpoint
<1>5. ASSUME NEW k \in {"-catalog", "-minio"}, NEW g \in DOMAIN s.groups,
             "-trino" \in s.groups[g]
      PROVE  \E h \in 1 .. g - 1 : k \in s.groups[h]
  <2>1. g = 2
    BY <1>1, <1>5
  <2>2. k \in s.groups[1] /\ 1 \in 1 .. g - 1
    BY <1>1, <2>1
  <2>3. QED
    BY <2>2
<1>6. ASSUME NEW m \in Services(s), NEW address \in s.addresses[m]
      PROVE  \E k \in Services(s) :
                /\ address = Append(s.name, k) /\ s.shared
                /\ m = "-trino" => \A g \in DOMAIN s.groups :
                       m \in s.groups[g] => \E h \in 1 .. g - 1 : k \in s.groups[h]
  <2>1. m # "-minio"
    BY <1>3, <1>6
  <2>2. CASE m = "-catalog"
    BY <1>1, <1>2, <1>3, <1>4, <1>6, <2>2
  <2>3. CASE m = "-trino"
    <3>1. PICK k \in {"-catalog", "-minio"} : address = Append(name, k)
      BY <1>3, <1>6, <2>3
    <3>2. QED
      BY <1>1, <1>2, <1>5, <2>3, <3>1
  <2>4. QED
    BY <1>2, <2>1, <2>2, <2>3
<1>7. QED
    BY <1>1, <1>6 DEF Resolvable

LEMMA PresetsResolvable == Presets => \A s \in Stacks : Resolvable(s)
<1>. SUFFICES ASSUME Presets, NEW s \in Stacks PROVE Resolvable(s)
    OBVIOUS
<1>0. PICK P : {"-catalog", "-lake"} \subseteq P /\ PresetOver(P)
    BY DEF Presets
<1>1. PICK name \in Seq(P) :
         s \in {Lake(name), DataLake(name), RAG(name), Analytics(name), Workflow(name)}
    BY <1>0 DEF PresetOver
<1>2. CASE s = Lake(name)
    BY <1>0, <1>2, LakeResolvable
<1>3. CASE s = DataLake(name)
  <2>1. Append(name, "-lake") \in Seq(P)
    BY <1>0, AppendProperties
  <2>2. QED
    BY <1>0, <1>3, <2>1, LakeResolvable DEF DataLake
<1>4. ASSUME NEW groups, NEW shared, NEW services, Services(s) \subseteq services,
             s = [name |-> name, groups |-> groups, shared |-> shared,
                  addresses |-> NoAddresses(services)]
      PROVE  Resolvable(s)
  <2>1. \A m \in Services(s) : s.addresses[m] = {}
    BY <1>4 DEF NoAddresses
  <2>2. s.name = name
    BY <1>4
  <2>3. QED
    BY <2>1, <2>2 DEF Resolvable
<1>5. CASE s = RAG(name)
  <2>1. Services(s) \subseteq {"-postgres", "-qdrant", "-minio"}
    BY <1>5 DEF RAG, Services, Groups
  <2>2. QED
    BY <1>4, <1>5, <2>1 DEF RAG
<1>6. CASE s = Analytics(name)
  <2>1. Services(s) \subseteq {"-clickhouse", "-trino"}
    BY <1>6 DEF Analytics, Services, Groups
  <2>2. QED
    BY <1>4, <1>6, <2>1 DEF Analytics
<1>7. CASE s = Workflow(name)
  <2>1. Services(s) \subseteq {"-workflows"}
    BY <1>7 DEF Workflow, Services, Groups
  <2>2. QED
    BY <1>4, <1>7, <2>1 DEF Workflow
<1>8. QED
    BY <1>1, <1>2, <1>3, <1>5, <1>6, <1>7

-----------------------------------------------------------------------------
(* Groups before the one being started are up, and a stack that is up has    *)
(* all its services up.                                                      *)
Progress ==
    /\ pc = "network" => group = 1
    /\ pc = "start" => \A h \in 1 .. group - 1 : Ready(stack.groups[h])
    /\ phase = "ready" => Ready(Members)

(* Containers have the names the stack was built with, unless a prefix came. *)
Plain ==
    /\ prefix \in {<< >>, Prefix}
    /\ container = [m \in Members |-> container[m]]
    /\ prefix = << >> =>
         \A m \in Members : member[m].phase \in {"creating", "ready"} =>
            /\ container[m].name = Append(stack.name, m)
            /\ container[m].joined = stack.shared

LEMMA ProgressStep == IInv /\ IInv' /\ Progress /\ [Next]_vars => Progress'
<1>. SUFFICES ASSUME IInv, IInv', Progress, [Next]_vars PROVE Progress'
    OBVIOUS
<1>. USE DEF Progress, Ready, Members
<1>0. stack' = stack
    BY DEF Next, vars, SetNamePrefix, BeginCreate, CreateNetwork, NextGroup, Release,
           BeginCleanup, Stopped, Unlink, Start, Serve, Stop, Fade, OthersUnlink
<1>g. stack \in Stacks /\ group \in Nat /\ member \in [Members -> Service]
      /\ (pc = "rest" <=> phase \notin Busy)
      /\ (pc = "start" => group \in DOMAIN stack.groups)
    BY DEF IInv, TypeOK, CallShape
<1>1. CASE UNCHANGED <<phase, pc, group, member>>
    BY <1>0, <1>1
<1>2. CASE BeginCreate \/ BeginCleanup \/ Release \/ Stopped \/ Unlink
    BY <1>0, <1>2, <1>g DEF BeginCreate, BeginCleanup, Release, Stopped, Unlink, Busy
<1>3. CASE CreateNetwork
    BY <1>0, <1>3, <1>g DEF CreateNetwork, Busy
<1>4. CASE NextGroup
  <2>1. pc = "start" /\ Ready(stack.groups[group]) /\ member' = member
    BY <1>4 DEF NextGroup
  <2>2. \A h \in 1 .. group : Ready(stack.groups[h])
    BY <2>1, <1>g
  <2>3. CASE group < Len(stack.groups)
    <3>1. group' = group + 1 /\ phase' = phase /\ pc' = pc
      BY <1>4, <2>3 DEF NextGroup
    <3>2. QED
      BY <1>0, <1>g, <2>1, <2>2, <3>1 DEF Busy
  <2>4. CASE ~(group < Len(stack.groups))
    <3>1. group = Len(stack.groups) /\ DOMAIN stack.groups = 1 .. group
      BY <2>1, <2>4, <1>g, GroupFacts
    <3>2. Ready(Members)
      BY <2>2, <3>1 DEF Services, Groups
    <3>3. pc' = "rest"
      BY <1>4, <2>4 DEF NextGroup
    <3>4. QED
      BY <1>0, <2>1, <3>2, <3>3
  <2>5. QED
    BY <2>3, <2>4
<1>5. CASE \E m \in Members : Start(m) \/ Serve(m) \/ Stop(m)
  <2>1. PICK m \in Members : Start(m) \/ Serve(m) \/ Stop(m)
    BY <1>5
  <2>2. UNCHANGED <<phase, pc, group>>
    BY <2>1 DEF Start, Serve, Stop, call
  <2>3. pc \in {"start", "stop"}
    BY <2>1, MemberStep DEF Start, Stop
  <2>4. phase # "ready"
    BY <2>3, <1>g DEF Busy
  <2>5. ASSUME pc = "start", NEW k \in Members, member[k].phase = "ready"
        PROVE  member'[k].phase = "ready"
    <3>1. k # m
      BY <2>1, <2>5 DEF Start, Serve, Stop, Busy
    <3>2. QED
      BY <2>1, <2>5, <3>1, <1>g DEF Start, Serve, Stop
  <2>6. \A h \in DOMAIN stack.groups : stack.groups[h] \subseteq Members
    BY <1>g, GroupFacts
  <2>7. pc = "start" => \A h \in 1 .. group - 1 : h \in DOMAIN stack.groups
    BY <1>g, GroupFacts
  <2>8. QED
    BY <1>0, <2>2, <2>4, <2>5, <2>6, <2>7
<1>6. CASE SetNamePrefix \/ OthersUnlink
    BY <1>1, <1>6 DEF SetNamePrefix, OthersUnlink, call
<1>7. CASE \E m \in Members : Fade(m)
  <2>1. UNCHANGED <<phase, pc, group>> /\ phase # "ready"
        /\ \A k \in Members : member'[k].phase = member[k].phase
    BY <1>7, <1>g DEF Fade, call, Service
  <2>2. \A h \in DOMAIN stack.groups : stack.groups[h] \subseteq Members
    BY <1>g, GroupFacts
  <2>3. pc = "start" => \A h \in 1 .. group - 1 : h \in DOMAIN stack.groups
    BY <1>g, GroupFacts
  <2>4. QED
    BY <1>0, <2>1, <2>2, <2>3
<1>8. QED
    BY <1>1, <1>2, <1>3, <1>4, <1>5, <1>6, <1>7 DEF Next, vars, call

LEMMA PlainStep ==
    IInv /\ IInv' /\ Plain /\ (\A s \in Stacks : Resolvable(s)) /\ [Next]_vars => Plain'
<1>. SUFFICES ASSUME IInv, IInv', Plain, \A s \in Stacks : Resolvable(s), [Next]_vars
              PROVE  Plain'
    OBVIOUS
<1>. USE DEF Plain, Members
<1>0. stack' = stack
    BY DEF Next, vars, SetNamePrefix, BeginCreate, CreateNetwork, NextGroup, Release,
           BeginCleanup, Stopped, Unlink, Start, Serve, Stop, Fade, OthersUnlink
<1>1. CASE UNCHANGED <<prefix, container, member>>
    BY <1>0, <1>1
<1>2. CASE SetNamePrefix
    BY <1>0, <1>2 DEF SetNamePrefix
<1>3. CASE \E m \in Members : Start(m)
  <2>1. PICK m \in Members : Start(m)
    BY <1>3
  <2>2. \E P : stack.name \in Seq(P)
    BY DEF Resolvable, IInv, TypeOK
  <2>3. prefix = << >> => FullName(m) = Append(stack.name, m)
    BY <2>2, ConcatEmptySeq DEF FullName
  <2>4. container' = [container EXCEPT ![m] = [name |-> FullName(m), joined |-> stack.shared]]
        /\ member' = [member EXCEPT ![m].phase = "creating"] /\ prefix' = prefix
    BY <2>1 DEF Start
  <2>5. member \in [Members -> Service]
    BY DEF IInv, TypeOK
  <2>6. QED
    BY <1>0, <2>3, <2>4, <2>5
<1>4. CASE \E m \in Members : Serve(m) \/ Stop(m)
  <2>1. PICK m \in Members : Serve(m) \/ Stop(m)
    BY <1>4
  <2>2. UNCHANGED <<prefix, container>> /\ \A k \in Members \ {m} : member'[k] = member[k]
    BY <2>1 DEF Serve, Stop, IInv, TypeOK
  <2>3. member'[m].phase \in {"creating", "ready"} => member[m].phase = "creating"
    <3>1. CASE Serve(m)
      <4>1. member[m].phase \in Busy
        BY <3>1 DEF Serve
      <4>2. QED
        BY <3>1, <4>1, MemberStep DEF Busy
    <3>2. CASE Stop(m)
      <4>1. member'[m].phase = "cleaning"
        BY <3>2 DEF Stop, IInv, TypeOK, Service
      <4>2. QED
        BY <4>1
    <3>3. QED
      BY <2>1, <3>1, <3>2
  <2>4. QED
    BY <1>0, <2>2, <2>3
<1>5. CASE BeginCreate \/ CreateNetwork \/ NextGroup \/ Release \/ BeginCleanup
             \/ Stopped \/ Unlink \/ OthersUnlink
    BY <1>1, <1>5 DEF BeginCreate, CreateNetwork, NextGroup, Release, BeginCleanup,
                      Stopped, Unlink, OthersUnlink
<1>6. CASE \E m \in Members : Fade(m)
  <2>1. UNCHANGED <<prefix, container>>
        /\ \A k \in Members : member'[k].phase = member[k].phase
    BY <1>6 DEF Fade, IInv, TypeOK, Service
  <2>2. QED
    BY <1>0, <2>1
<1>7. QED
    BY <1>1, <1>2, <1>3, <1>4, <1>5, <1>6 DEF Next, vars

LEMMA WiredBy ==
    IInv /\ Progress /\ Plain /\ (\A s \in Stacks : Resolvable(s)) => LakeWired
<1>. SUFFICES ASSUME IInv, Progress, Plain, \A s \in Stacks : Resolvable(s), prefix = << >>,
                     NEW m \in Members, NEW address \in stack.addresses[m],
                     phase = "ready"
                     \/ (m = "-trino" /\ pc = "start" /\ member[m].phase = "creating")
              PROVE  Reached(address, m, {"ready"})
    BY DEF LakeWired
<1>1. stack \in Stacks /\ Resolvable(stack)
    BY DEF IInv, TypeOK
<1>2. PICK k \in Members :
         /\ address = Append(stack.name, k) /\ stack.shared
         /\ m = "-trino" => \A g \in DOMAIN stack.groups :
                m \in stack.groups[g] => \E h \in 1 .. g - 1 : k \in stack.groups[h]
    BY <1>1 DEF Resolvable, Members
<1>3. member[k].phase = "ready" /\ member[m].phase \in {"creating", "ready"}
  <2>1. CASE phase = "ready"
    BY <2>1 DEF Progress, Ready
  <2>2. CASE m = "-trino" /\ pc = "start" /\ member[m].phase = "creating"
    <3>1. m \in stack.groups[group] /\ group \in DOMAIN stack.groups
      BY <2>2 DEF IInv, WorkShape, CallShape
    <3>2. \E h \in 1 .. group - 1 : k \in stack.groups[h]
      BY <1>2, <2>2, <3>1
    <3>3. QED
      BY <2>2, <3>2 DEF Progress, Ready
  <2>3. QED
    BY <2>1, <2>2
<1>4. member[k].holds
    BY <1>3 DEF IInv, ReadyShape
<1>5. QED
    BY <1>2, <1>3, <1>4 DEF Plain, Reached

(* Of every stack the constructors build, whatever its name: no address in   *)
(* it dangles once it is up, unless a prefix renamed the containers.         *)
THEOREM AddressesResolve == ASSUME Presets PROVE Spec => []LakeWired
<1>1. \A s \in Stacks : Resolvable(s)
    BY PresetsResolvable
<1>2. Init => Progress /\ Plain
  <2>. SUFFICES ASSUME Init PROVE Progress /\ Plain
    OBVIOUS
  <2>2. \A m \in Members : member[m].phase = "new"
    BY DEF Init, Fresh
  <2>3. QED
    BY <2>2 DEF Init, Progress, Plain
<1>3. IInv /\ IInv' /\ Progress /\ Plain /\ [Next]_vars => Progress' /\ Plain'
    BY <1>1, ProgressStep, PlainStep
<1>4. IInv /\ Progress /\ Plain => LakeWired
    BY <1>1, WiredBy
<1>5. QED
    BY Inductive, <1>2, <1>3, <1>4, PTL DEF Spec
-----------------------------------------------------------------------------
(* The extent of the exception LakeWired makes: once a stack was created     *)
(* under a prefix, no address written into its services when it was built    *)
(* is the name of any of its containers (iceberg.go:82).                     *)
PrefixDangles ==
    phase = "ready" /\ prefix # << >> =>
        \A m, k \in Members : container[k].name \notin stack.addresses[m]

(* A service that is up, or coming up, has the name it would get now: a      *)
(* prefix cannot change while there is one.                                  *)
Named == /\ container = [m \in Members |-> container[m]]
         /\ \A m \in Members :
              member[m].phase \in {"creating", "ready"} => container[m].name = FullName(m)

LEMMA NamedStep == IInv /\ Named /\ [Next]_vars => Named'
<1>. SUFFICES ASSUME IInv, Named, [Next]_vars PROVE Named'
    OBVIOUS
<1>. USE DEF Named, Members
<1>0. stack' = stack /\ member \in [Members -> Service]
    BY DEF Next, vars, SetNamePrefix, BeginCreate, CreateNetwork, NextGroup, Release,
           BeginCleanup, Stopped, Unlink, Start, Serve, Stop, Fade, OthersUnlink,
           IInv, TypeOK
<1>1. CASE UNCHANGED <<prefix, container, member>>
    BY <1>0, <1>1 DEF FullName
<1>2. CASE SetNamePrefix
  <2>1. \A m \in Members : member[m].phase \notin {"creating", "ready"}
    BY <1>2 DEF SetNamePrefix, IInv, WorkShape, ReadyShape
  <2>2. UNCHANGED <<container, member>>
    BY <1>2 DEF SetNamePrefix
  <2>3. QED
    BY <1>0, <2>1, <2>2
<1>3. CASE \E m \in Members : Start(m)
  <2>1. PICK m \in Members : Start(m)
    BY <1>3
  <2>2. container' = [container EXCEPT ![m] = [name |-> FullName(m), joined |-> stack.shared]]
        /\ member' = [member EXCEPT ![m].phase = "creating"] /\ prefix' = prefix
    BY <2>1 DEF Start
  <2>3. \A k \in Members : FullName(k)' = FullName(k)
    BY <1>0, <2>2 DEF FullName
  <2>4. QED
    BY <1>0, <2>2, <2>3
<1>4. CASE \E m \in Members : Serve(m) \/ Stop(m)
  <2>1. PICK m \in Members : Serve(m) \/ Stop(m)
    BY <1>4
  <2>2. UNCHANGED <<prefix, container>> /\ \A k \in Members \ {m} : member'[k] = member[k]
    BY <2>1, <1>0 DEF Serve, Stop
  <2>3. member'[m].phase \in {"creating", "ready"} => member[m].phase = "creating"
    <3>1. CASE Serve(m)
      BY <3>1, MemberStep DEF Serve, Busy
    <3>2. CASE Stop(m)
      <4>1. member'[m].phase = "cleaning"
        BY <1>0, <3>2 DEF Stop, Service
      <4>2. QED
        BY <4>1
    <3>3. QED
      BY <2>1, <3>1, <3>2
  <2>4. QED
    BY <1>0, <2>2, <2>3 DEF FullName
<1>5. CASE BeginCreate \/ CreateNetwork \/ NextGroup \/ Release \/ BeginCleanup
             \/ Stopped \/ Unlink \/ OthersUnlink
    BY <1>1, <1>5 DEF BeginCreate, CreateNetwork, NextGroup, Release, BeginCleanup,
                      Stopped, Unlink, OthersUnlink
<1>6. CASE \E m \in Members : Fade(m)
  <2>1. UNCHANGED <<prefix, container>>
        /\ \A k \in Members : member'[k].phase = member[k].phase
    BY <1>6 DEF Fade, IInv, TypeOK, Service
  <2>2. QED
    BY <1>0, <2>1 DEF FullName
<1>7. QED
    BY <1>1, <1>2, <1>3, <1>4, <1>5, <1>6 DEF Next, vars

(* A prefix makes a name longer, so that it is no address any more.          *)
LEMMA PrefixLengthens ==
    ASSUME NEW P, NEW pre \in Seq(P), NEW name \in Seq(P), pre # << >>, NEW m, NEW k
    PROVE  Append(pre \o name, m) # Append(name, k)
<1>1. Len(pre) \in Nat /\ Len(pre) > 0 /\ Len(name) \in Nat
    OBVIOUS
<1>2. pre \o name \in Seq(P) /\ Len(pre \o name) = Len(pre) + Len(name)
    BY ConcatProperties
<1>3. Len(Append(pre \o name, m)) = Len(pre) + Len(name) + 1
      /\ Len(Append(name, k)) = Len(name) + 1
  <2>1. pre \o name \in Seq(P \cup {m}) /\ name \in Seq(P \cup {k})
    BY <1>2
  <2>2. QED
    BY <1>2, <2>1, AppendProperties
<1>4. QED
    BY <1>1, <1>3

(* Under any prefix, every address of a ready-made stack dangles.            *)
THEOREM AddressesDangle ==
    ASSUME Presets, NEW Q, Prefix \in Seq(Q)
    PROVE  Spec => []PrefixDangles
<1>. DEFINE OnePrefix == prefix \in {<< >>, Prefix}
<1>1. Init => Named /\ OnePrefix
  <2>. SUFFICES ASSUME Init PROVE Named /\ OnePrefix
    OBVIOUS
  <2>1. \A m \in Members : member[m].phase = "new"
    BY DEF Init, Fresh
  <2>2. QED
    BY <2>1 DEF Init, Named
<1>2. OnePrefix /\ [Next]_vars => OnePrefix'
    BY DEF Next, vars, SetNamePrefix, BeginCreate, CreateNetwork, NextGroup, Release,
           BeginCleanup, Stopped, Unlink, Start, Serve, Stop, Fade, OthersUnlink
<1>3. IInv /\ Progress /\ Named /\ OnePrefix => PrefixDangles
  <2>. SUFFICES ASSUME IInv, Progress, Named, OnePrefix, phase = "ready", prefix # << >>,
                       NEW m \in Members, NEW k \in Members,
                       container[k].name \in stack.addresses[m]
                PROVE  FALSE
    BY DEF PrefixDangles
  <2>1. container[k].name = Append(prefix \o stack.name, k)
    BY DEF Progress, Ready, Named, FullName
  <2>2. Resolvable(stack)
    BY PresetsResolvable DEF IInv, TypeOK
  <2>3. \E l \in Members : container[k].name = Append(stack.name, l)
    BY <2>2 DEF Resolvable, Members
  <2>4. PICK P : stack.name \in Seq(P)
    BY <2>2 DEF Resolvable
  <2>5. prefix \in Seq(P \cup Q) /\ stack.name \in Seq(P \cup Q)
    <3>1. prefix \in Seq(Q)
      OBVIOUS
    <3>2. QED
      BY <2>4, <3>1
  <2>6. QED
    BY <2>1, <2>3, <2>5, PrefixLengthens
<1>4. Init => Progress
    BY DEF Init, Progress
<1>5. QED
    BY Inductive, <1>1, <1>2, <1>3, <1>4, NamedStep, ProgressStep, PTL DEF Spec
=============================================================================
