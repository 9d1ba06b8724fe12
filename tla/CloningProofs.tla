---------------------------- MODULE CloningProofs ----------------------------
(***************************************************************************)
(* Proofs about NamespaceCloning: type correctness, and that the runs of a *)
(* condition that has not failed have their clones to themselves and leave *)
(* no binding behind, for any checks, run types, names, objects, bindings  *)
(* and failures of other runs.                                             *)
(***************************************************************************)
EXTENDS NamespaceCloning, TLAPS

---------------------------------------------------------------------------
(* Runners and sweepers.                                                   *)
LEMMA ActorSorts ==
  /\ \A r \in Runners : /\ r \in Actors /\ r[1] \in Checks /\ r[2] \in Types
                        /\ NameOf(r) \in Names /\ CondOf(r[2]) \in Conds
                        /\ \A c \in Checks : r # Sweeper(c)
  /\ \A c \in Checks : Sweeper(c) \in Actors
  /\ \A a \in Actors : a \in Runners \/ \E c \in Checks : a = Sweeper(c)
<1>1. ASSUME NEW r \in Runners
      PROVE  /\ r \in Actors /\ r[1] \in Checks /\ r[2] \in Types
             /\ NameOf(r) \in Names /\ CondOf(r[2]) \in Conds
             /\ \A c \in Checks : r # Sweeper(c)
  <2>1. r \in Actors /\ r[1] \in Checks /\ r[2] \in Types
    BY DEF Actors, Runners
  <2>2. NameOf(r) \in Names /\ CondOf(r[2]) \in Conds
    BY <2>1 DEF NameOf, Names, Conds
  <2>3. ASSUME NEW c \in Checks, r = Sweeper(c) PROVE FALSE
    <3>1. r[2] = "cleanup"
      BY <2>3 DEF Sweeper
    <3>. QED
      BY <2>1, <3>1, CloningAssumption
  <2>. QED
    BY <2>1, <2>2, <2>3
<1>. QED
  BY <1>1 DEF Actors, Sweepers

(* What a step of one actor does to the actors.                            *)
Moved(a, step, todo) ==
  /\ act' \in [Actors -> Actor]
  /\ act'[a].pc = step /\ act'[a].left = todo /\ act'[a].target = act[a].target
  /\ \A q \in Actors : q # a => act'[q] = act[q]

Same(a) == act'[a].then = act[a].then /\ act'[a].unknown = act[a].unknown

(* The helpers that move an actor set its step and what is left of its     *)
(* loop, and nothing else of it.                                           *)
LEMMA ActorSteps ==
  ASSUME act \in [Actors -> Actor], NEW a \in Actors
  PROVE  /\ \A step \in Steps : GoTo(a, step) => Moved(a, step, {}) /\ Same(a)
         /\ \A step \in Steps, todo \in SUBSET (Bindings \cup Resources) :
              Loop(a, step, todo) => Moved(a, step, todo) /\ Same(a)
         /\ Return(a) => Moved(a, "idle", {}) /\ act'[a].then = "idle" /\ ~act'[a].unknown
         /\ \A then \in {"idle", "ensure", "resume", "next"} :
              act' = [act EXCEPT ![a].pc = "delete", ![a].then = then] =>
                /\ Moved(a, "delete", act[a].left)
                /\ act'[a].then = then /\ act'[a].unknown = act[a].unknown
<1>. USE DEF Moved, Same
<1>1. act[a] \in Actor /\ act[a].target \in Names
  BY DEF Actor
<1>2. ASSUME NEW step \in Steps, GoTo(a, step) PROVE Moved(a, step, {}) /\ Same(a)
  BY <1>2 DEF GoTo, Actor
<1>3. ASSUME NEW step \in Steps, NEW todo \in SUBSET (Bindings \cup Resources), Loop(a, step, todo)
      PROVE  Moved(a, step, todo) /\ Same(a)
  BY <1>3 DEF Loop, Actor
<1>4. ASSUME Return(a)
      PROVE  Moved(a, "idle", {}) /\ act'[a].then = "idle" /\ ~act'[a].unknown
  <2>1. Idle(Target(a)) \in Actor
    BY <1>1 DEF Idle, Actor, Steps, Target
  <2>. QED
    BY <1>4, <2>1 DEF Return, Idle, Target
<1>5. ASSUME NEW then \in {"idle", "ensure", "resume", "next"},
             act' = [act EXCEPT ![a].pc = "delete", ![a].then = then]
      PROVE  /\ Moved(a, "delete", act[a].left)
             /\ act'[a].then = then /\ act'[a].unknown = act[a].unknown
  BY <1>5 DEF Actor, Steps
<1>. QED
  BY <1>2, <1>3, <1>4, <1>5

(* A fault leaves the count of faults in its bounds.                       *)
LEMMA FaultType ==
  ASSUME TypeOK, NEW kind, Fault(kind)
  PROVE  faults' \in Faults
BY CloningAssumption DEF TypeOK, Fault, Faults

(* Writing a condition keeps the conditions well typed.                    *)
LEMMA SetType ==
  ASSUME TypeOK, NEW r \in Runners
  PROVE  /\ \A value \in CondValues :
              Set(r, value) => cond' \in [Checks \X Conds -> CondValues]
         /\ setStatusRunning(r) \/ setStatusFailed(r) =>
              /\ cond' \in [Checks \X Conds -> CondValues]
              /\ spoiled' \subseteq Checks \X Conds
<1>1. Key(r) \in Checks \X Conds
  BY ActorSorts DEF Key
<1>2. \A value \in CondValues :
        Set(r, value) => cond' \in [Checks \X Conds -> CondValues]
  BY <1>1 DEF TypeOK, Set
<1>. QED
  BY <1>1, <1>2 DEF TypeOK, setStatusRunning, setStatusFailed, CondValues

---------------------------------------------------------------------------
(* What is left to be bound are bindings, what is left to be copied, and   *)
(* what has been, are objects that are cloned; a namespace that is gone    *)
(* holds nothing.                                                          *)
CopyInv ==
  /\ \A r \in Runners : /\ At(r, "bind") => act[r].left \subseteq Bindings
                        /\ At(r, "copy") => act[r].left \subseteq ToClone
  /\ \A n \in Names : content[n] \subseteq ToClone /\ (ns[n] = "absent" => content[n] = {})

TypeInv == TypeOK /\ CopyInv

(* What is cloned is part of what is in the source.                        *)
LEMMA Objects == ToClone \subseteq Resources
BY DEF ToClone, GetTopLevelResources, getAllResources

(* Initially nothing is cloned and nobody is at work.                      *)
LEMMA InitTypeInv == Init => TypeInv
<1> SUFFICES ASSUME Init PROVE TypeInv
  OBVIOUS
<1>. USE DEF Init
<1>1. ASSUME NEW a \in Actors
      PROVE  /\ act[a] \in Actor /\ act[a].pc = "idle"
             /\ a \in Runners => act[a].target = NameOf(a)
  <2> DEFINE n == IF a \in Runners THEN NameOf(a) ELSE CHOOSE m \in Names : TRUE
  <2>1. n \in Names
    <3>1. CASE a \in Runners
      BY <3>1, ActorSorts
    <3>2. CASE a \notin Runners
      <4>1. PICK c \in Checks : a = Sweeper(c)
        BY <3>2, ActorSorts
      <4>2. generateTargetNamespaceName(c, "baseline") \in Names
        BY CloningAssumption DEF Names
      <4>. QED
        BY <3>2, <4>2
    <3>. QED
      BY <3>1, <3>2
  <2>2. act[a] = Idle(n)
    OBVIOUS
  <2>. HIDE DEF n
  <2>3. act[a] \in Actor /\ act[a].pc = "idle" /\ act[a].target = n
    BY <2>1, <2>2 DEF Idle, Actor, Steps
  <2>. QED
    BY <2>3 DEF n
<1>2. act \in [Actors -> Actor]
  BY <1>1
<1>3. /\ cond \in [Checks \X Conds -> CondValues]
      /\ ns \in [Names -> {"absent", "present", "terminating"}]
      /\ content \in [Names -> SUBSET Resources]
      /\ names \in [Checks -> SUBSET Names]
      /\ spoiled \subseteq Checks \X Conds /\ faults \in Faults
  BY CloningAssumption DEF CondValues, Faults
<1>4. TypeOK
  BY <1>1, <1>2, <1>3, ActorSorts DEF TypeOK
<1>5. CopyInv
  BY <1>1, ActorSorts DEF CopyInv, At
<1>. QED
  BY <1>4, <1>5 DEF TypeInv

(* What a step of one actor leaves to show.                                *)
LEMMA ActorTypeInv ==
  ASSUME TypeInv, NEW a \in Actors, NEW step, NEW todo, Moved(a, step, todo),
         step = "bind" => todo \subseteq Bindings,
         step = "copy" => todo \subseteq ToClone,
         exists' \subseteq Checks,
         cond' \in [Checks \X Conds -> CondValues],
         ns' \in [Names -> {"absent", "present", "terminating"}],
         content' \in [Names -> SUBSET ToClone],
         \A n \in Names : ns'[n] = "absent" => content'[n] = {},
         crbs' \subseteq Bindings \X Names,
         names' \in [Checks -> SUBSET Names],
         spoiled' \subseteq Checks \X Conds,
         faults' \in Faults
  PROVE  TypeInv'
<1>. USE DEF TypeInv
<1>1. content' \in [Names -> SUBSET Resources]
  BY Objects
<1>2. \A r \in Runners : act'[r].target = NameOf(r)
  BY ActorSorts DEF TypeOK, Moved
<1>3. TypeOK'
  BY <1>1, <1>2 DEF TypeOK, Moved
<1>4. CopyInv'
  BY ActorSorts DEF CopyInv, At, Moved
<1>. QED
  BY <1>3, <1>4

(* The parts of the type invariant that the steps below need.              *)
LEMMA ContentType ==
  ASSUME TypeInv
  PROVE  /\ content \in [Names -> SUBSET ToClone]
         /\ \A n \in Names : ns[n] = "absent" => content[n] = {}
         /\ act \in [Actors -> Actor]
         /\ \A r \in Runners : Target(r) \in Names
         /\ \A a \in Actors : Target(a) \in Names /\ act[a].left \subseteq Bindings \cup Resources
BY ActorSorts DEF TypeInv, TypeOK, CopyInv, Target, Actor

(* The steps of a runner,                                                  *)
LEMMA RunnerTypeInv ==
  ASSUME TypeInv, NEW r \in Runners, RunnerStep(r)
  PROVE  TypeInv'
<1>. USE DEF TypeInv
<1>1. /\ r \in Actors /\ Target(r) \in Names /\ act \in [Actors -> Actor]
      /\ content \in [Names -> SUBSET ToClone]
      /\ \A n \in Names : ns[n] = "absent" => content[n] = {}
  BY ActorSorts, ContentType
<1>2. {"idle", "ensure", "create", "bind", "copy", "fetch", "wait", "resume", "record", "delete"}
        \subseteq Steps
  BY DEF Steps
<1>3. setStatusRunning(r) \/ setStatusFailed(r) \/ UNCHANGED <<cond, spoiled>>
        \/ (Set(r, "Recorded") /\ UNCHANGED spoiled) =>
        /\ cond' \in [Checks \X Conds -> CondValues]
        /\ spoiled' \subseteq Checks \X Conds
  BY SetType DEF CondValues, TypeOK
<1>4. UNCHANGED faults \/ (\E kind : Fault(kind)) => faults' \in Faults
  BY FaultType DEF TypeOK
<1>5. CASE RunnerStart(r)
  <2>1. \E step \in {"delete", "ensure"} : \E todo : Moved(r, step, todo)
    BY <1>1, <1>2, <1>5, ActorSteps DEF RunnerStart
  <2>. QED
    BY <1>1, <1>5, <2>1, ActorTypeInv DEF RunnerStart, TypeOK
<1>6. CASE RunnerEnsure(r)
  <2>1. \E step \in {"create", "fetch"} : Moved(r, step, {})
    BY <1>1, <1>2, <1>6, ActorSteps DEF RunnerEnsure
  <2>2. cond' \in [Checks \X Conds -> CondValues] /\ spoiled' \subseteq Checks \X Conds
    BY <1>3, <1>6 DEF RunnerEnsure
  <2>. QED
    BY <1>1, <1>6, <2>1, <2>2, ActorTypeInv DEF RunnerEnsure, TypeOK
<1>7. CASE CloneCreate(r)
  <2>1. Moved(r, "bind", Bindings) \/ Moved(r, "idle", {})
    BY <1>1, <1>2, <1>7, ActorSteps DEF CloneCreate
  <2>2. faults' \in Faults
    BY <1>4, <1>7 DEF CloneCreate
  <2>3. /\ ns' \in [Names -> {"absent", "present", "terminating"}]
        /\ \A n \in Names : ns'[n] = "absent" => ns[n] = "absent"
    BY <1>1, <1>7 DEF CloneCreate, TypeOK
  <2>. QED
    BY <1>1, <1>7, <2>1, <2>2, <2>3, ActorTypeInv DEF CloneCreate, TypeOK
<1>8. CASE CloneBind(r)
  <2>1. At(r, "bind") /\ act[r].left \subseteq Bindings
    BY <1>8 DEF CloneBind, CopyInv
  <2>2. \/ Moved(r, "idle", {}) \/ Moved(r, "copy", ToClone)
        \/ \E b \in act[r].left : Moved(r, "bind", act[r].left \ {b})
    BY <1>1, <1>2, <1>8, <2>1, Objects, ActorSteps DEF CloneBind
  <2>3. faults' \in Faults
    BY <1>4, <1>8 DEF CloneBind
  <2>4. crbs' \subseteq Bindings \X Names
    <3>1. crbs' = crbs \/ \E b \in act[r].left : crbs' = crbs \cup {<<b, Target(r)>>}
      BY <1>8 DEF CloneBind
    <3>2. crbs \subseteq Bindings \X Names
      BY DEF TypeOK
    <3>. QED
      BY <1>1, <2>1, <3>1, <3>2
  <2>. QED
    BY <1>1, <1>8, <2>1, <2>2, <2>3, <2>4, ActorTypeInv DEF CloneBind, TypeOK
<1>9. CASE CloneCopy(r)
  <2>1. At(r, "copy") /\ act[r].left \subseteq ToClone
    BY <1>9 DEF CloneCopy, CopyInv
  <2>2. PICK x \in act[r].left :
          /\ Loop(r, "copy", act[r].left \ {x})
          /\ \/ content' = content
             \/ /\ ns[Target(r)] = "present"
                /\ content' = [content EXCEPT ![Target(r)] = @ \cup {x}]
    BY <1>9 DEF CloneCopy
  <2>3. Moved(r, "copy", act[r].left \ {x})
    BY <1>1, <1>2, <2>1, <2>2, Objects, ActorSteps
  <2>4. faults' \in Faults
    BY <1>4, <1>9 DEF CloneCopy
  <2>5. /\ content' \in [Names -> SUBSET ToClone]
        /\ \A n \in Names : ns[n] = "absent" => content'[n] = {}
    BY <1>1, <2>1, <2>2
  <2>. QED
    BY <1>1, <1>9, <2>1, <2>3, <2>4, <2>5, ActorTypeInv DEF CloneCopy, TypeOK
<1>10. CASE Cloned(r)
  <2>1. Moved(r, "idle", {}) \/ Moved(r, "fetch", {})
    BY <1>1, <1>2, <1>10, ActorSteps DEF Cloned
  <2>2. cond' \in [Checks \X Conds -> CondValues] /\ spoiled' \subseteq Checks \X Conds
    BY <1>3, <1>10 DEF Cloned
  <2>. QED
    BY <1>1, <1>10, <2>1, <2>2, ActorTypeInv DEF Cloned, TypeOK
<1>11. CASE RunnerFetch(r)
  <2>1. Moved(r, "idle", {}) \/ Moved(r, "wait", {})
    BY <1>1, <1>2, <1>11, ActorSteps DEF RunnerFetch
  <2>2. cond' \in [Checks \X Conds -> CondValues] /\ spoiled' \subseteq Checks \X Conds
    BY <1>3, <1>11 DEF RunnerFetch
  <2>3. faults' \in Faults
    BY <1>4, <1>11 DEF RunnerFetch
  <2>. QED
    BY <1>1, <1>11, <2>1, <2>2, <2>3, ActorTypeInv DEF RunnerFetch, TypeOK
<1>12. CASE RunnerWait(r)
  <2>1. \E step \in {"record", "resume", "delete"} : \E todo : Moved(r, step, todo)
    BY <1>1, <1>2, <1>12, ActorSteps DEF RunnerWait
  <2>2. cond' \in [Checks \X Conds -> CondValues] /\ spoiled' \subseteq Checks \X Conds
    BY <1>3, <1>12 DEF RunnerWait
  <2>3. faults' \in Faults
    BY <1>4, <1>12 DEF RunnerWait
  <2>. QED
    BY <1>1, <1>12, <2>1, <2>2, <2>3, ActorTypeInv DEF RunnerWait, TypeOK
<1>13. CASE RunnerResume(r)
  <2>1. Moved(r, "record", {})
    BY <1>1, <1>2, <1>13, ActorSteps DEF RunnerResume
  <2>2. cond' \in [Checks \X Conds -> CondValues] /\ spoiled' \subseteq Checks \X Conds
    BY <1>3, <1>13 DEF RunnerResume
  <2>. QED
    BY <1>1, <1>13, <2>1, <2>2, ActorTypeInv DEF RunnerResume, TypeOK
<1>14. CASE RunnerRecord(r)
  <2>1. Moved(r, "idle", {}) \/ Moved(r, "delete", act[r].left)
    BY <1>1, <1>2, <1>14, ActorSteps DEF RunnerRecord
  <2>2. cond' \in [Checks \X Conds -> CondValues] /\ spoiled' \subseteq Checks \X Conds
    BY <1>3, <1>14 DEF RunnerRecord
  <2>3. faults' \in Faults
    BY <1>4, <1>14 DEF RunnerRecord
  <2>. QED
    BY <1>1, <1>14, <2>1, <2>2, <2>3, ActorTypeInv DEF RunnerRecord, TypeOK
<1>. QED
  BY <1>5, <1>6, <1>7, <1>8, <1>9, <1>10, <1>11, <1>12, <1>13, <1>14 DEF RunnerStep

(* of namespace.Delete,                                                    *)
LEMMA DeleteTypeInv ==
  ASSUME TypeInv, NEW a \in Actors, DeleteStep(a)
  PROVE  TypeInv'
<1>. USE DEF TypeInv
<1>1. /\ Target(a) \in Names /\ act \in [Actors -> Actor]
      /\ content \in [Names -> SUBSET ToClone]
      /\ \A n \in Names : ns[n] = "absent" => content[n] = {}
      /\ act[a].left \subseteq Bindings \cup Resources
  BY ContentType
<1>2. act[a].then \in {"idle", "ensure", "resume", "next"}
  BY <1>1 DEF Actor
<1>3. {"idle", "ensure", "resume", "next", "list", "unbind"} \subseteq Steps
  BY DEF Steps
<1>4. UNCHANGED faults \/ (\E kind : Fault(kind)) => faults' \in Faults
  BY FaultType DEF TypeOK
<1>5. CASE DeleteNamespace(a)
  <2>1. Moved(a, "list", {}) \/ Moved(a, act[a].then, {})
    BY <1>1, <1>2, <1>3, <1>5, ActorSteps DEF DeleteNamespace
  <2>2. faults' \in Faults
    BY <1>4, <1>5 DEF DeleteNamespace
  <2>3. /\ ns' \in [Names -> {"absent", "present", "terminating"}]
        /\ \A n \in Names : ns'[n] = "absent" => ns[n] = "absent"
    BY <1>1, <1>5 DEF DeleteNamespace, TypeOK
  <2>. QED
    BY <1>1, <1>2, <1>5, <2>1, <2>2, <2>3, ActorTypeInv DEF DeleteNamespace, TypeOK
<1>6. CASE DeleteList(a)
  <2>1. \E todo : Moved(a, "unbind", todo)
    <3>1. {b \in Bindings : <<b, Target(a)>> \in crbs} \in SUBSET (Bindings \cup Resources)
      OBVIOUS
    <3>. QED
      BY <1>1, <1>3, <1>6, <3>1, ActorSteps DEF DeleteList
  <2>2. faults' \in Faults
    BY <1>4, <1>6 DEF DeleteList
  <2>. QED
    BY <1>1, <1>6, <2>1, <2>2, ActorTypeInv DEF DeleteList, TypeOK
<1>7. CASE DeleteBinding(a)
  <2>1. \E step \in {"idle", "ensure", "resume", "next", "unbind"} : \E todo : Moved(a, step, todo)
    <3>1. CASE act[a].left = {} /\ GoTo(a, act[a].then)
      BY <1>1, <1>2, <1>3, <3>1, ActorSteps
    <3>2. ASSUME NEW b \in act[a].left, Loop(a, "unbind", act[a].left \ {b})
          PROVE  Moved(a, "unbind", act[a].left \ {b})
      <4>1. act[a].left \ {b} \in SUBSET (Bindings \cup Resources)
        BY <1>1
      <4>. QED
        BY <1>1, <1>3, <3>2, <4>1, ActorSteps
    <3>. QED
      BY <1>7, <3>1, <3>2 DEF DeleteBinding
  <2>2. faults' \in Faults
    BY <1>4, <1>7 DEF DeleteBinding
  <2>3. crbs' \subseteq Bindings \X Names
    BY <1>7 DEF DeleteBinding, TypeOK
  <2>. QED
    BY <1>1, <1>7, <2>1, <2>2, <2>3, ActorTypeInv DEF DeleteBinding, TypeOK
<1>. QED
  BY <1>5, <1>6, <1>7 DEF DeleteStep

(* of the sweeper,                                                         *)
LEMMA CleanupTypeInv ==
  ASSUME TypeInv, NEW c \in Checks, CleanupList(c) \/ CleanupNext(c) \/ DeleteCheck(c)
  PROVE  TypeInv'
<1>. USE DEF TypeInv
<1>1. /\ Sweeper(c) \in Actors /\ act \in [Actors -> Actor]
      /\ content \in [Names -> SUBSET ToClone]
      /\ \A n \in Names : ns[n] = "absent" => content[n] = {}
      /\ {"sweep", "next", "idle"} \subseteq Steps
  BY ActorSorts, ContentType DEF Steps
<1>2. CASE CleanupList(c)
  <2>1. Moved(Sweeper(c), "next", {})
    BY <1>1, <1>2, ActorSteps DEF CleanupList
  <2>2. names' \in [Checks -> SUBSET Names]
    BY <1>2 DEF CleanupList, TypeOK
  <2>. QED
    BY <1>1, <1>2, <2>1, <2>2, ActorTypeInv DEF CleanupList, TypeOK
<1>3. CASE DeleteCheck(c)
  <2>1. Moved(Sweeper(c), "sweep", {})
    BY <1>1, <1>3, ActorSteps DEF DeleteCheck
  <2>2. faults' \in Faults /\ exists' \subseteq Checks
    BY <1>3, FaultType DEF DeleteCheck, TypeOK
  <2>. QED
    BY <1>1, <1>3, <2>1, <2>2, ActorTypeInv DEF DeleteCheck, TypeOK
<1>4. CASE CleanupNext(c) /\ names[c] = {} /\ Return(Sweeper(c)) /\ UNCHANGED names
  <2>1. Moved(Sweeper(c), "idle", {})
    BY <1>1, <1>4, ActorSteps
  <2>. QED
    BY <1>1, <1>4, <2>1, ActorTypeInv DEF CleanupNext, TypeOK
<1>5. ASSUME CleanupNext(c), NEW n \in names[c],
             act' = [act EXCEPT ![Sweeper(c)].pc = "delete",
                                ![Sweeper(c)].then = "next",
                                ![Sweeper(c)].target = n],
             names' = [names EXCEPT ![c] = @ \ {n}]
      PROVE  TypeInv'
  <2>1. n \in Names /\ names' \in [Checks -> SUBSET Names]
    BY <1>5 DEF TypeOK
  <2>2. /\ act' \in [Actors -> Actor]
        /\ \A q \in Actors : q # Sweeper(c) => act'[q] = act[q]
    <3>1. ASSUME NEW a \in Actors,
                 act' = [act EXCEPT ![a].pc = "delete", ![a].then = "next", ![a].target = n]
          PROVE  /\ act' \in [Actors -> Actor]
                 /\ \A q \in Actors : q # a => act'[q] = act[q]
      <4> DEFINE x == [act[a] EXCEPT !.pc = "delete", !.then = "next", !.target = n]
      <4>1. x \in Actor
        BY <1>1, <2>1 DEF Actor, Steps
      <4>2. act' = [act EXCEPT ![a] = x]
        BY <1>1, <3>1
      <4>. HIDE DEF x
      <4>. QED
        BY <1>1, <4>1, <4>2
    <3>. QED
      BY <1>1, <1>5, <3>1
  <2>3. \A r \in Runners : r \in Actors /\ act'[r] = act[r]
    BY <2>2, ActorSorts
  <2>4. TypeOK'
    BY <1>5, <2>1, <2>2, <2>3 DEF CleanupNext, TypeOK
  <2>5. CopyInv'
    BY <1>5, <2>3 DEF CleanupNext, CopyInv, At
  <2>. QED
    BY <2>4, <2>5
<1>. QED
  BY <1>2, <1>3, <1>4, <1>5 DEF CleanupNext

(* of the reconciler, and of the environment.                              *)
LEMMA StartedRuns ==
  ASSUME TypeOK, NEW c \in Checks, NEW k \in Conds, StartRuns(c, k)
  PROVE  /\ act' \in [Actors -> Actor]
         /\ \A r \in Runners :
              \/ act'[r] = act[r]
              \/ /\ r \in Of(c, k) /\ At(r, "idle")
                 /\ act'[r].pc = "start" /\ act'[r].target = act[r].target
                 /\ act'[r].unknown <=> cond[<<c, k>>] = "Unknown"
         /\ \A r, q \in Runners :
              act'[r] # act[r] /\ act'[q] # act[q] /\ r[2] = q[2] => r = q
         /\ \A a \in Actors : a \notin Runners => act'[a] = act[a]
<1> DEFINE types == {t \in Types : CondOf(t) = k}
<1>1. PICK copyOf \in [types -> Copies] :
        /\ \A t \in types : At(<<c, t, copyOf[t]>>, "idle")
        /\ act' = [a \in Actors |->
             IF a \in {<<c, t, copyOf[t]>> : t \in types}
             THEN [act[a] EXCEPT !.pc = "start",
                                 !.unknown = cond[<<c, k>>] = "Unknown"]
             ELSE act[a]]
  BY DEF StartRuns
<1> DEFINE chosen == {<<c, t, copyOf[t]>> : t \in types}
           new(a) == [act[a] EXCEPT !.pc = "start", !.unknown = cond[<<c, k>>] = "Unknown"]
<1>2. \A a \in chosen : /\ a \in Runners /\ a[1] = c /\ a[2] \in types
                        /\ a = <<c, a[2], copyOf[a[2]]>> /\ At(a, "idle")
  <2> SUFFICES ASSUME NEW t \in types
               PROVE  LET a == <<c, t, copyOf[t]>> IN
                      /\ a \in Runners /\ a[1] = c /\ a[2] = t
                      /\ a = <<c, a[2], copyOf[a[2]]>> /\ At(a, "idle")
    OBVIOUS
  <2>1. t \in Types /\ copyOf[t] \in Copies /\ At(<<c, t, copyOf[t]>>, "idle")
    BY <1>1
  <2>. QED
    BY <2>1 DEF Runners
<1>3. \A a \in Actors : /\ new(a) \in Actor /\ new(a).pc = "start"
                        /\ new(a).target = act[a].target
                        /\ new(a).unknown <=> cond[<<c, k>>] = "Unknown"
  <2>1. ASSUME NEW x \in Actor, NEW u \in BOOLEAN
        PROVE  LET y == [x EXCEPT !.pc = "start", !.unknown = u] IN
               y \in Actor /\ y.pc = "start" /\ y.target = x.target /\ y.unknown = u
    BY DEF Actor, Steps
  <2> DEFINE unknown == cond[<<c, k>>] = "Unknown"
             known(x) == [x EXCEPT !.pc = "start", !.unknown = unknown]
  <2>2. unknown \in BOOLEAN
    OBVIOUS
  <2>3. \A a \in Actors : act[a] \in Actor
    BY DEF TypeOK
  <2>. HIDE DEF unknown
  <2>4. \A x \in Actor : /\ known(x) \in Actor /\ known(x).pc = "start"
                         /\ known(x).target = x.target /\ known(x).unknown = unknown
    BY <2>1, <2>2
  <2>. HIDE DEF known
  <2>5. \A a \in Actors : new(a) = known(act[a])
    BY DEF known, unknown
  <2>6. \A a \in Actors : /\ new(a) \in Actor /\ new(a).pc = "start"
                          /\ new(a).target = act[a].target /\ new(a).unknown = unknown
    <3>. HIDE DEF new
    <3>. QED
      BY <2>3, <2>4, <2>5
  <2>. HIDE DEF new
  <2>. QED
    BY <2>6, Zenon DEF unknown
<1>4. \A a \in Actors : act'[a] = IF a \in chosen THEN new(a) ELSE act[a]
  BY <1>1
<1>5. act' \in [Actors -> Actor]
  <2>1. act' = [a \in Actors |-> IF a \in chosen THEN new(a) ELSE act[a]]
    BY <1>1
  <2>. HIDE DEF new, chosen
  <2>. QED
    BY <1>3, <2>1 DEF TypeOK
<1>. HIDE DEF new, chosen
<1>6. ASSUME NEW r \in Runners
      PROVE  \/ act'[r] = act[r]
             \/ /\ r \in Of(c, k) /\ At(r, "idle")
                /\ act'[r].pc = "start" /\ act'[r].target = act[r].target
                /\ act'[r].unknown <=> cond[<<c, k>>] = "Unknown"
  BY <1>2, <1>3, <1>4, ActorSorts DEF Of
<1>7. ASSUME NEW r \in Runners, NEW q \in Runners,
             act'[r] # act[r], act'[q] # act[q], r[2] = q[2]
      PROVE  r = q
  <2>1. r \in chosen /\ q \in chosen
    BY <1>4, <1>7, ActorSorts
  <2>. QED
    BY <1>2, <1>7, <2>1
<1>. QED
  BY <1>2, <1>4, <1>5, <1>6, <1>7

(* The reconciler starts runners in slots that are free.                   *)
LEMMA ReconcilerTypeInv ==
  ASSUME TypeInv, NEW c \in Checks, NEW k \in Conds, StartRuns(c, k) \/ Overdue(c, k)
  PROVE  TypeInv'
<1>. USE DEF TypeInv
<1>1. CASE Overdue(c, k)
  BY <1>1 DEF Overdue, TypeOK, CopyInv, At, CondValues
<1>2. CASE StartRuns(c, k)
  <2>1. faults' \in Faults
    BY <1>2, FaultType DEF StartRuns, TypeOK
  <2>2. /\ act' \in [Actors -> Actor]
        /\ \A r \in Runners : /\ act'[r].target = act[r].target
                              /\ act'[r] = act[r] \/ act'[r].pc = "start"
    BY <1>2, StartedRuns
  <2>3. TypeOK'
    BY <1>2, <2>1, <2>2 DEF StartRuns, TypeOK
  <2>4. CopyInv'
    BY <1>2, <2>2 DEF StartRuns, CopyInv, At
  <2>. QED
    BY <2>3, <2>4
<1>. QED
  BY <1>1, <1>2

(* A crash takes the actors away, the end of a namespace its content.      *)
LEMMA EnvironmentTypeInv ==
  ASSUME TypeInv, Crash \/ \E n \in Names : NamespaceGone(n)
  PROVE  TypeInv'
<1>. USE DEF TypeInv
<1>1. CASE Crash
  <2>1. \A a \in Actors : Idle(Target(a)) \in Actor
    BY ContentType DEF Idle, Actor, Steps
  <2>2. /\ act' \in [Actors -> Actor]
        /\ \A a \in Actors : act'[a].pc = "idle" /\ act'[a].target = act[a].target
    BY <1>1, <2>1 DEF Crash, Idle, Target
  <2>3. faults' \in Faults /\ names' \in [Checks -> SUBSET Names]
    BY <1>1, FaultType DEF Crash
  <2>4. TypeOK'
    BY <1>1, <2>2, <2>3, ActorSorts DEF Crash, TypeOK
  <2>5. CopyInv'
    BY <1>1, <2>2, ActorSorts DEF Crash, CopyInv, At
  <2>. QED
    BY <2>4, <2>5
<1>2. ASSUME NEW n \in Names, NamespaceGone(n) PROVE TypeInv'
  <2>1. /\ ns' \in [Names -> {"absent", "present", "terminating"}]
        /\ content' \in [Names -> SUBSET ToClone]
        /\ \A m \in Names : ns'[m] = "absent" => content'[m] = {}
    BY <1>2, ContentType DEF NamespaceGone, TypeOK
  <2>2. content' \in [Names -> SUBSET Resources]
    BY <2>1, Objects
  <2>3. TypeOK'
    BY <1>2, <2>1, <2>2 DEF NamespaceGone, TypeOK
  <2>4. CopyInv'
    BY <1>2, <2>1 DEF NamespaceGone, CopyInv, At
  <2>. QED
    BY <2>3, <2>4
<1>. QED
  BY <1>1, <1>2

(* Every step keeps the type invariant.                                    *)
LEMMA TypeInvStep == TypeInv /\ [Next]_vars => TypeInv'
<1> SUFFICES ASSUME TypeInv, [Next]_vars PROVE TypeInv'
  OBVIOUS
<1>1. CASE UNCHANGED vars
  BY <1>1 DEF vars, TypeInv, TypeOK, CopyInv, At
<1>. QED
  BY <1>1, RunnerTypeInv, DeleteTypeInv, CleanupTypeInv, ReconcilerTypeInv,
     EnvironmentTypeInv DEF Next

(* Every variable keeps its type, with any faults: a runner never strays   *)
(* from the namespace that is named after its run, and a sweeper stays     *)
(* with the clones.                                                        *)
THEOREM CloningTypeCorrect == Spec => []TypeOK
<1>1. TypeInv => TypeOK
  BY DEF TypeInv
<1>. QED
  BY <1>1, InitTypeInv, TypeInvStep, PTL DEF Spec
---------------------------------------------------------------------------
(* Names that are told apart,                                              *)
DistinctNames ==
  \A r, q \in Runners : NameOf(r) = NameOf(q) => r[1] = q[1] /\ r[2] = q[2]

(* which they are when the suffixes are and the longest run type has room: *)
(* 63 characters less the source's name, of which 45 are kept, the suffix  *)
(* and two hyphens.                                                        *)
NamesFit ==
  /\ \A c, d \in Checks : SuffixOf[c] = SuffixOf[d] => c = d
  /\ \A t, u \in Types : Spelling[t] = Spelling[u] => t = u
  /\ \A t \in Types :
       AtMost(BaseLength, 45) + SuffixLength + 2 + Len(Spelling[t]) <= 63

(* So far runs have failed, timed out, or could not delete their clones.   *)
Quiet == faults.kinds \subseteq {"timeout", "record", "delete"}

Bound(n) == {b \in Bindings : <<b, n>> \in crbs}
Fresh(n) == ns[n] = "absent" /\ Bound(n) = {}
Pair(r)  == {q \in Runners : q[1] = r[1] /\ q[2] = r[2]}
Early    == {"idle", "start", "ensure", "create", "bind", "copy"}

(* What is in the cluster of a run, by where its runner is.                *)
Stage(r) ==
  LET n == NameOf(r) IN
  /\ act[r].pc \in {"start", "ensure", "create"} => Fresh(n)
  /\ act[r].pc = "bind" =>
       ns[n] = "present" /\ content[n] = {} /\ Bound(n) = Bindings \ act[r].left
  /\ act[r].pc = "copy" =>
       ns[n] = "present" /\ content[n] = ToClone \ act[r].left /\ Bound(n) = Bindings
  /\ act[r].pc \in {"fetch", "wait", "record"} => Whole(n)
  /\ act[r].pc # "resume"
  /\ act[r].pc = "delete" => act[r].then = "idle" /\ ns[n] = "present"
  /\ act[r].pc \in {"list", "unbind"} => act[r].then = "idle" /\ ns[n] # "present"

(* What holds of a run as long as no run of its condition has failed: its  *)
(* runner is the only one, the cluster is at its stage, and there is       *)
(* nothing of a run that is neither begun nor reported.                    *)
Sound(r) ==
  /\ Stage(r)
  /\ \A q \in Pair(r) : ~At(r, "idle") /\ ~At(q, "idle") => r = q
  /\ cond[Key(r)] # "Unknown"
  /\ cond[Key(r)] = "absent" =>
       /\ act[r].pc \in Early
       /\ (\A q \in Pair(r) : At(q, "idle")) => Fresh(NameOf(r))

SoundInv == \A r \in Runners : Key(r) \notin spoiled => Sound(r)

(* No check is deleted and no sweep begins.                                *)
NoSweep == exists = Checks /\ \A c \in Checks : At(Sweeper(c), "idle")

RunInv == SoundInv /\ NoSweep

(* Nothing is cut from a name that fits, so names differ when suffix or    *)
(* run type do.                                                            *)
LEMMA NamesDistinct ==
  ASSUME NamesFit
  PROVE  DistinctNames
<1>1. ASSUME NEW c \in Checks, NEW t \in Types
      PROVE  generateTargetNamespaceName(c, t) = <<SuffixOf[c], Spelling[t]>>
  <2>1. Spelling[t] \in Seq(STRING) /\ Len(Spelling[t]) \in Nat
    BY CloningAssumption
  <2>2. AtMost(BaseLength, 45) \in Nat /\ SuffixLength \in Nat
    BY CloningAssumption DEF AtMost
  <2>3. Len(Spelling[t]) <= 63 - AtMost(BaseLength, 45) - SuffixLength - 2
    BY <2>1, <2>2 DEF NamesFit
  <2>4. AtMost(Len(Spelling[t]), 63 - AtMost(BaseLength, 45) - SuffixLength - 2)
          = Len(Spelling[t])
    <3> DEFINE room == 63 - AtMost(BaseLength, 45) - SuffixLength - 2
    <3>1. room \in Nat
      BY <2>1, <2>2, <2>3
    <3>. HIDE DEF room
    <3>2. Len(Spelling[t]) <= room
      BY <2>3 DEF room
    <3>3. AtMost(Len(Spelling[t]), room) = Len(Spelling[t])
      BY <2>1, <3>1, <3>2 DEF AtMost
    <3>. QED
      BY <3>3 DEF room
  <2>5. SubSeq(Spelling[t], 1, Len(Spelling[t])) = Spelling[t]
    BY <2>1
  <2>. QED
    BY <2>4, <2>5 DEF generateTargetNamespaceName
<1> SUFFICES ASSUME NEW r \in Runners, NEW q \in Runners, NameOf(r) = NameOf(q)
             PROVE  r[1] = q[1] /\ r[2] = q[2]
  BY DEF DistinctNames
<1>2. r[1] \in Checks /\ q[1] \in Checks /\ r[2] \in Types /\ q[2] \in Types
  BY ActorSorts
<1>3. <<SuffixOf[r[1]], Spelling[r[2]]>> = <<SuffixOf[q[1]], Spelling[q[2]]>>
  BY <1>1, <1>2 DEF NameOf
<1>4. SuffixOf[r[1]] = SuffixOf[q[1]] /\ Spelling[r[2]] = Spelling[q[2]]
  BY <1>3
<1>. QED
  BY <1>2, <1>4 DEF NamesFit

(* Initially no run has left a trace.                                      *)
LEMMA InitRunInv == Init => RunInv
<1> SUFFICES ASSUME Init PROVE RunInv
  OBVIOUS
<1>1. \A a \in Actors : act[a].pc = "idle"
  BY DEF Init, Idle
<1>2. \A r \in Runners : act[r].pc = "idle" /\ Key(r) \in Checks \X Conds
  BY <1>1, ActorSorts DEF Key
<1>3. \A n \in Names : Fresh(n)
  BY DEF Init, Fresh, Bound
<1>4. \A r \in Runners : Stage(r)
  BY <1>2 DEF Stage
<1>5. \A r \in Runners : cond[Key(r)] = "absent"
  BY <1>2 DEF Init
<1>6. SoundInv
  BY <1>2, <1>3, <1>4, <1>5, ActorSorts DEF SoundInv, Sound, At, Early, Pair
<1>7. NoSweep
  BY <1>1, ActorSorts DEF Init, NoSweep, At
<1>. QED
  BY <1>6, <1>7 DEF RunInv

---------------------------------------------------------------------------
(* A runner changes nothing but its own namespace, its own bindings and    *)
(* the condition of its run.                                               *)
Framed(r) ==
  /\ exists' = exists
  /\ \A a \in Actors : a # r => act'[a] = act[a]
  /\ \A n \in Names : n # NameOf(r) =>
       /\ ns'[n] = ns[n] /\ content'[n] = content[n] /\ Bound(n)' = Bound(n)
  /\ \A k \in Checks \X Conds : k # Key(r) =>
       /\ cond'[k] = cond[k]
       /\ k \in spoiled' <=> k \in spoiled
  /\ spoiled \subseteq spoiled'

(* What the invariants say of a single runner.                             *)
LEMMA RunnerFacts ==
  ASSUME TypeInv, NEW r \in Runners
  PROVE  /\ r \in Actors /\ act \in [Actors -> Actor]
         /\ Target(r) = NameOf(r) /\ NameOf(r) \in Names
         /\ r[1] \in Checks /\ CondOf(r[2]) \in Conds /\ Key(r) \in Checks \X Conds
         /\ ns \in [Names -> {"absent", "present", "terminating"}]
         /\ content \in [Names -> SUBSET ToClone]
         /\ cond \in [Checks \X Conds -> CondValues]
BY ActorSorts, ContentType DEF TypeInv, TypeOK, Target, Key

(* How the condition of the run is set.                                    *)
LEMMA SetFacts ==
  ASSUME TypeInv, NoSweep, NEW r \in Runners
  PROVE  /\ \A value : Set(r, value) =>
              /\ cond'[Key(r)] = value
              /\ \A k \in Checks \X Conds : k # Key(r) => cond'[k] = cond[k]
         /\ setStatusRunning(r) =>
              /\ cond'[Key(r)] = "Recording"
              /\ \A k \in Checks \X Conds : k # Key(r) => cond'[k] = cond[k]
              /\ spoiled' = spoiled
         /\ setStatusFailed(r) =>
              /\ \A k \in Checks \X Conds : k # Key(r) => cond'[k] = cond[k]
              /\ spoiled' = spoiled \cup {Key(r)}
<1>1. /\ r[1] \in exists /\ Key(r) \in Checks \X Conds
      /\ cond \in [Checks \X Conds -> CondValues]
  BY RunnerFacts DEF NoSweep
<1>2. ASSUME NEW value, Set(r, value)
      PROVE  /\ cond'[Key(r)] = value
             /\ \A k \in Checks \X Conds : k # Key(r) => cond'[k] = cond[k]
  BY <1>1, <1>2 DEF Set
<1>. QED
  BY <1>2 DEF setStatusRunning, setStatusFailed

(* A failed or finished step of a runner stays with its run.               *)
LEMMA StatusFrame ==
  ASSUME TypeInv, NoSweep, NEW r \in Runners,
         \/ setStatusRunning(r) \/ setStatusFailed(r) \/ UNCHANGED <<cond, spoiled>>
         \/ Set(r, "Recorded") /\ UNCHANGED spoiled
  PROVE  /\ \A k \in Checks \X Conds : k # Key(r) =>
              /\ cond'[k] = cond[k]
              /\ k \in spoiled' <=> k \in spoiled
         /\ spoiled \subseteq spoiled'
BY SetFacts

(* The steps of RunCheck, Clone and Delete are of that kind,               *)
LEMMA RunnerFramed ==
  ASSUME TypeInv, NoSweep, NEW r \in Runners, RunnerStep(r) \/ DeleteStep(r)
  PROVE  Framed(r) /\ ~At(r, "idle")
<1> DEFINE n == NameOf(r)
<1>1. /\ r \in Actors /\ act \in [Actors -> Actor] /\ Target(r) = n /\ n \in Names
      /\ ns \in [Names -> {"absent", "present", "terminating"}]
      /\ content \in [Names -> SUBSET ToClone]
  BY RunnerFacts
<1>. HIDE DEF n
<1>2. \A step, todo : GoTo(r, step) \/ Loop(r, step, todo) \/ Return(r) =>
        \A a \in Actors : a # r => act'[a] = act[a]
  BY <1>1 DEF GoTo, Loop, Return
<1>3. \A then : act' = [act EXCEPT ![r].pc = "delete", ![r].then = then] =>
        \A a \in Actors : a # r => act'[a] = act[a]
  BY <1>1
<1>4. exists' = exists /\ ~At(r, "idle")
  BY DEF RunnerStep, RunnerStart, RunnerEnsure, CloneCreate, CloneBind, CloneCopy, Cloned,
         RunnerFetch, RunnerWait, RunnerResume, RunnerRecord,
         DeleteStep, DeleteNamespace, DeleteList, DeleteBinding, At
<1>5. \A a \in Actors : a # r => act'[a] = act[a]
  BY <1>2, <1>3
  DEF RunnerStep, RunnerStart, RunnerEnsure, CloneCreate, CloneBind, CloneCopy, Cloned,
      RunnerFetch, RunnerWait, RunnerResume, RunnerRecord,
      DeleteStep, DeleteNamespace, DeleteList, DeleteBinding
<1>6. \A m \in Names : m # n => ns'[m] = ns[m] /\ content'[m] = content[m]
  BY <1>1
  DEF RunnerStep, RunnerStart, RunnerEnsure, CloneCreate, CloneBind, CloneCopy, Cloned,
      RunnerFetch, RunnerWait, RunnerResume, RunnerRecord,
      DeleteStep, DeleteNamespace, DeleteList, DeleteBinding
<1>7. \A m \in Names : m # n => Bound(m)' = Bound(m)
  <2>1. \/ crbs' = crbs
        \/ \E b : crbs' = crbs \cup {<<b, n>>} \/ crbs' = crbs \ {<<b, n>>}
    BY <1>1
    DEF RunnerStep, RunnerStart, RunnerEnsure, CloneCreate, CloneBind, CloneCopy, Cloned,
        RunnerFetch, RunnerWait, RunnerResume, RunnerRecord,
        DeleteStep, DeleteNamespace, DeleteList, DeleteBinding
  <2>. QED
    BY <2>1 DEF Bound
<1>8. \/ setStatusRunning(r) \/ setStatusFailed(r) \/ UNCHANGED <<cond, spoiled>>
      \/ Set(r, "Recorded") /\ UNCHANGED spoiled
  BY DEF RunnerStep, RunnerStart, RunnerEnsure, CloneCreate, CloneBind, CloneCopy, Cloned,
         RunnerFetch, RunnerWait, RunnerResume, RunnerRecord,
         DeleteStep, DeleteNamespace, DeleteList, DeleteBinding
<1>. QED
  BY <1>4, <1>5, <1>6, <1>7, <1>8, StatusFrame DEF Framed, n

(* and leave to show what they mean for the run itself, when it has not    *)
(* failed.                                                                 *)
LEMMA RunnerFrame ==
  ASSUME TypeInv, RunInv, DistinctNames, NEW r \in Runners, ~At(r, "idle"), Framed(r),
         \/ Key(r) \in spoiled'
         \/ /\ Stage(r)'
            /\ cond'[Key(r)] # "Unknown"
            /\ cond'[Key(r)] = "absent" => cond[Key(r)] = "absent" /\ act'[r].pc \in Early
            /\ cond'[Key(r)] = "absent" /\ act'[r].pc = "idle" => Fresh(NameOf(r))'
  PROVE  RunInv'
<1>. USE DEF RunInv
<1>1. \A q \in Runners : /\ q \in Actors /\ NameOf(q) \in Names /\ Key(q) \in Checks \X Conds
                         /\ q # r => act'[q] = act[q]
  BY ActorSorts DEF Framed, Key
<1>2. NoSweep'
  BY ActorSorts DEF NoSweep, Framed, At
<1>3. ASSUME NEW q \in Runners, Key(q) \notin spoiled' PROVE Sound(q)'
  <2>1. Key(q) \notin spoiled /\ Sound(q)
    BY <1>3 DEF Framed, SoundInv
  <2>2. CASE q \in Pair(r)
    <3>1. /\ Key(q) = Key(r) /\ NameOf(q) = NameOf(r) /\ Pair(q) = Pair(r) /\ Pair(r) \subseteq Runners
          /\ r \in Pair(r)
      BY <2>2 DEF Pair, Key, NameOf
    <3>2. /\ Stage(r)' /\ cond'[Key(r)] # "Unknown"
          /\ cond'[Key(r)] = "absent" => cond[Key(r)] = "absent" /\ act'[r].pc \in Early
          /\ cond'[Key(r)] = "absent" /\ act'[r].pc = "idle" => Fresh(NameOf(r))'
      BY <1>3, <3>1
    <3>3. \A p \in Pair(r) : p # r => act[p].pc = "idle" /\ act'[p].pc = "idle"
      <4>1. Sound(r)
        BY <2>1, <3>1 DEF SoundInv
      <4>. QED
        BY <1>1, <3>1, <4>1 DEF Sound, At
    <3>4. Stage(q)'
      <4>1. CASE q = r
        BY <3>2, <4>1
      <4>2. CASE q # r
        BY <2>2, <3>3, <4>2 DEF Stage
      <4>. QED
        BY <4>1, <4>2
    <3>5. \A p \in Pair(q) : act'[q].pc # "idle" /\ act'[p].pc # "idle" => q = p
      BY <2>2, <3>1, <3>3
    <3>6. cond'[Key(q)] = "absent" =>
            /\ act'[q].pc \in Early
            /\ (\A p \in Pair(q) : act'[p].pc = "idle") => Fresh(NameOf(q))'
      BY <2>2, <3>1, <3>2, <3>3 DEF Early
    <3>. QED
      BY <3>1, <3>2, <3>4, <3>5, <3>6 DEF Sound, At
  <2>3. CASE q \notin Pair(r)
    <3> DEFINE n == NameOf(q)
    <3>1. q # r /\ n # NameOf(r) /\ \A p \in Pair(q) : p \in Runners /\ p # r
      BY <2>3 DEF DistinctNames, Pair
    <3>2. /\ n \in Names /\ ns'[n] = ns[n] /\ content'[n] = content[n] /\ Bound(n)' = Bound(n)
          /\ act'[q] = act[q] /\ \A p \in Pair(q) : act'[p] = act[p]
      BY <1>1, <3>1 DEF Framed
    <3>3. (Fresh(n)' <=> Fresh(n)) /\ (Whole(n)' <=> Whole(n))
      <4>. HIDE DEF n
      <4>1. Fresh(n)' <=> Fresh(n)
        BY <3>2 DEF Fresh
      <4>2. \A b \in Bindings : <<b, n>> \in crbs' <=> <<b, n>> \in crbs
        BY <3>2 DEF Bound
      <4>. QED
        BY <3>2, <4>1, <4>2 DEF Whole
    <3>4. Stage(q)'
      BY <2>1, <3>2, <3>3 DEF Sound, Stage
    <3>5. cond'[Key(q)] # "Unknown" /\ (cond'[Key(q)] = "absent" => cond[Key(q)] = "absent")
      <4>1. CASE Key(q) = Key(r)
        BY <1>3, <2>1, <4>1 DEF Sound
      <4>2. CASE Key(q) # Key(r)
        BY <1>1, <2>1, <4>2 DEF Framed, Sound
      <4>. QED
        BY <4>1, <4>2
    <3>. QED
      BY <2>1, <3>1, <3>2, <3>3, <3>4, <3>5 DEF Sound, At
  <2>. QED
    BY <2>2, <2>3
<1>. QED
  BY <1>2, <1>3 DEF SoundInv, Key, Sound, Stage, At, Pair

(* The faults of a quiet system so far.                                    *)
LEMMA QuietFaults ==
  ASSUME Quiet'
  PROVE  \A kind : Fault(kind) => kind \in {"timeout", "record", "delete"}
<1> SUFFICES ASSUME NEW kind, Fault(kind) PROVE kind \in {"timeout", "record", "delete"}
  OBVIOUS
<1>1. faults'.kinds = faults.kinds \cup {kind}
  BY DEF Fault
<1>. QED
  BY <1>1 DEF Quiet

(* The steps of RunCheck and Clone.                                        *)
LEMMA RunnerRunInv ==
  ASSUME TypeInv, RunInv, DistinctNames, Quiet', NEW r \in Runners, RunnerStep(r)
  PROVE  RunInv'
<1> DEFINE n == NameOf(r)
<1>0. Framed(r) /\ ~At(r, "idle")
  BY RunnerFramed DEF RunInv
<1> SUFFICES ASSUME Key(r) \notin spoiled' PROVE RunInv'
  BY <1>0, RunnerFrame
<1>1. /\ r \in Actors /\ act \in [Actors -> Actor] /\ Target(r) = n /\ n \in Names
      /\ ns \in [Names -> {"absent", "present", "terminating"}]
      /\ content \in [Names -> SUBSET ToClone]
      /\ NoSweep
  BY RunnerFacts DEF RunInv
<1>2. /\ cond[Key(r)] # "Unknown"
      /\ cond[Key(r)] = "absent" => act[r].pc \in Early
      /\ Stage(r)
  BY <1>0 DEF RunInv, SoundInv, Sound, Framed
<1>3. {"idle", "ensure", "create", "bind", "copy", "fetch", "wait", "record", "delete"} \subseteq Steps
  BY DEF Steps
<1>4. (\A kind \in {"create", "list"} : ~Fault(kind)) /\ ~setStatusFailed(r)
  BY QuietFaults DEF setStatusFailed
<1>. HIDE DEF n
<1>5. CASE RunnerStart(r)
  <2>1. Fresh(n) /\ At(r, "start")
    BY <1>2, <1>5 DEF RunnerStart, At, Stage, n
  <2>2. GoTo(r, "ensure") /\ UNCHANGED <<cond, ns, crbs>>
    BY <1>1, <1>5, <2>1 DEF RunnerStart, Fresh
  <2>3. Moved(r, "ensure", {})
    BY <1>1, <1>3, <2>2, ActorSteps
  <2>4. Fresh(n)'
    BY <2>1, <2>2 DEF Fresh, Bound
  <2>5. Stage(r)'
    BY <2>3, <2>4 DEF Stage, Moved, n
  <2>. QED
    BY <1>0, <1>2, <2>2, <2>3, <2>5, RunnerFrame DEF Moved, Early
<1>6. CASE RunnerEnsure(r)
  <2>1. Fresh(n) /\ At(r, "ensure")
    BY <1>2, <1>6 DEF RunnerEnsure, At, Stage, n
  <2>2. GoTo(r, "create") /\ UNCHANGED <<cond, ns, crbs>>
    BY <1>1, <1>6, <2>1 DEF RunnerEnsure, Fresh
  <2>3. Moved(r, "create", {})
    BY <1>1, <1>3, <2>2, ActorSteps
  <2>4. Fresh(n)'
    BY <2>1, <2>2 DEF Fresh, Bound
  <2>5. Stage(r)'
    BY <2>3, <2>4 DEF Stage, Moved, n
  <2>. QED
    BY <1>0, <1>2, <2>2, <2>3, <2>5, RunnerFrame DEF Moved, Early
<1>7. CASE CloneCreate(r)
  <2>1. Fresh(n) /\ At(r, "create") /\ content[n] = {}
    BY <1>1, <1>2, <1>7, ContentType DEF CloneCreate, At, Stage, n, Fresh
  <2>2. UNCHANGED <<cond, content, crbs>>
    BY <1>7 DEF CloneCreate
  <2>3. CASE Return(r) /\ UNCHANGED ns
    <3>1. Moved(r, "idle", {})
      BY <1>1, <2>3, ActorSteps
    <3>2. Fresh(n)'
      BY <2>1, <2>2, <2>3 DEF Fresh, Bound
    <3>3. Stage(r)'
      BY <3>1 DEF Stage, Moved
    <3>. QED
      BY <1>0, <1>2, <2>2, <3>1, <3>2, <3>3, RunnerFrame DEF Moved, Early, n
  <2>4. CASE ns' = [ns EXCEPT ![n] = "present"] /\ Loop(r, "bind", Bindings)
    <3>1. Moved(r, "bind", Bindings)
      BY <1>1, <1>3, <2>4, ActorSteps
    <3>2. Bound(n)' = {} /\ ns'[n] = "present" /\ content'[n] = {}
      BY <1>1, <2>1, <2>2, <2>4 DEF Fresh, Bound
    <3>3. Stage(r)'
      BY <3>1, <3>2 DEF Stage, Moved, n
    <3>. QED
      BY <1>0, <1>2, <2>2, <3>1, <3>3, RunnerFrame DEF Moved, Early
  <2>. QED
    BY <1>1, <1>4, <1>7, <2>3, <2>4 DEF CloneCreate
<1>8. CASE CloneBind(r)
  <2>1. /\ At(r, "bind") /\ ns[n] = "present" /\ content[n] = {}
        /\ Bound(n) = Bindings \ act[r].left /\ act[r].left \subseteq Bindings
    BY <1>2, <1>8 DEF CloneBind, At, Stage, n, TypeInv, CopyInv
  <2>2. UNCHANGED <<cond, ns, content>>
    BY <1>8 DEF CloneBind
  <2>3. ASSUME act[r].left = {}, Loop(r, "copy", ToClone), UNCHANGED crbs PROVE RunInv'
    <3>1. Moved(r, "copy", ToClone)
      BY <1>1, <1>3, <2>3, Objects, ActorSteps
    <3>2. Bound(n)' = Bindings /\ ns'[n] = "present" /\ content'[n] = {}
      BY <2>1, <2>2, <2>3 DEF Bound
    <3>3. Stage(r)'
      BY <3>1, <3>2 DEF Stage, Moved, n
    <3>. QED
      BY <1>0, <1>2, <2>2, <3>1, <3>3, RunnerFrame DEF Moved, Early
  <2>4. ASSUME NEW b \in act[r].left, crbs' = crbs \cup {<<b, n>>},
               Loop(r, "bind", act[r].left \ {b})
        PROVE  RunInv'
    <3>1. Moved(r, "bind", act[r].left \ {b})
      BY <1>1, <1>3, <2>1, <2>4, ActorSteps
    <3>2. Bound(n)' = Bound(n) \cup {b}
      BY <2>1, <2>4 DEF Bound
    <3>3. Bound(n)' = Bindings \ (act[r].left \ {b})
      BY <2>1, <3>2
    <3>4. Stage(r)'
      BY <2>1, <2>2, <3>1, <3>3 DEF Stage, Moved, n
    <3>. QED
      BY <1>0, <1>2, <2>2, <3>1, <3>4, RunnerFrame DEF Moved, Early
  <2>5. \A b \in act[r].left : <<b, n>> \notin crbs
    BY <2>1 DEF Bound
  <2>. QED
    BY <1>1, <1>4, <1>8, <2>3, <2>4, <2>5 DEF CloneBind
<1>9. CASE CloneCopy(r)
  <2>1. /\ At(r, "copy") /\ ns[n] = "present" /\ content[n] = ToClone \ act[r].left
        /\ Bound(n) = Bindings /\ act[r].left \subseteq ToClone
    BY <1>2, <1>9 DEF CloneCopy, At, Stage, n, TypeInv, CopyInv
  <2>2. PICK x \in act[r].left : /\ Loop(r, "copy", act[r].left \ {x})
                                 /\ content' = [content EXCEPT ![n] = @ \cup {x}]
    BY <1>1, <1>4, <1>9, <2>1 DEF CloneCopy
  <2>3. UNCHANGED <<cond, ns, crbs>>
    BY <1>9 DEF CloneCopy
  <2>4. Moved(r, "copy", act[r].left \ {x})
    BY <1>1, <1>3, <2>1, <2>2, Objects, ActorSteps
  <2>5. content'[n] = ToClone \ (act[r].left \ {x})
    BY <1>1, <2>1, <2>2
  <2>6. Stage(r)'
    BY <2>1, <2>3, <2>4, <2>5 DEF Stage, Moved, Bound, n
  <2>. QED
    BY <1>0, <1>2, <2>3, <2>4, <2>6, RunnerFrame DEF Moved, Early
<1>10. CASE Cloned(r)
  <2>1. At(r, "copy") /\ ns[n] = "present" /\ content[n] = ToClone /\ Bound(n) = Bindings
    BY <1>2, <1>10 DEF Cloned, At, Stage, n
  <2>2. GoTo(r, "fetch") /\ setStatusRunning(r) /\ UNCHANGED <<ns, content, crbs>>
    BY <1>1, <1>10, <2>1 DEF Cloned
  <2>3. Moved(r, "fetch", {})
    BY <1>1, <1>3, <2>2, ActorSteps
  <2>4. Whole(n)'
    BY <2>1, <2>2 DEF Whole, Bound
  <2>5. cond'[Key(r)] = "Recording"
    BY <1>1, <2>2, SetFacts
  <2>6. Stage(r)'
    BY <2>3, <2>4 DEF Stage, Moved, n
  <2>. QED
    BY <1>0, <2>5, <2>6, RunnerFrame
<1>11. CASE RunnerFetch(r)
  <2>1. At(r, "fetch") /\ Whole(n)
    BY <1>2, <1>11 DEF RunnerFetch, At, Stage, n
  <2>2. GoTo(r, "wait") /\ UNCHANGED <<cond, ns, content, crbs>>
    BY <1>4, <1>11 DEF RunnerFetch
  <2>3. Moved(r, "wait", {})
    BY <1>1, <1>3, <2>2, ActorSteps
  <2>4. Whole(n)'
    BY <2>1, <2>2 DEF Whole
  <2>5. Stage(r)'
    BY <2>3, <2>4 DEF Stage, Moved, n
  <2>6. cond'[Key(r)] # "absent"
    BY <1>2, <2>1, <2>2 DEF At, Early
  <2>. QED
    BY <1>0, <1>2, <2>2, <2>5, <2>6, RunnerFrame
<1>12. CASE RunnerWait(r)
  <2>1. At(r, "wait") /\ Whole(n)
    BY <1>2, <1>12 DEF RunnerWait, At, Stage, n
  <2>2. GoTo(r, "record") /\ setStatusRunning(r) /\ UNCHANGED <<ns, content, crbs>>
    BY <1>4, <1>12 DEF RunnerWait
  <2>3. Moved(r, "record", {})
    BY <1>1, <1>3, <2>2, ActorSteps
  <2>4. Whole(n)'
    BY <2>1, <2>2 DEF Whole
  <2>5. Stage(r)'
    BY <2>3, <2>4 DEF Stage, Moved, n
  <2>6. cond'[Key(r)] = "Recording"
    BY <1>1, <2>2, SetFacts
  <2>. QED
    BY <1>0, <2>5, <2>6, RunnerFrame
<1>13. CASE RunnerResume(r)
  BY <1>2, <1>13 DEF RunnerResume, Stage, At
<1>14. CASE RunnerRecord(r)
  <2>1. At(r, "record") /\ Whole(n)
    BY <1>2, <1>14 DEF RunnerRecord, At, Stage, n
  <2>2. /\ act' = [act EXCEPT ![r].pc = "delete", ![r].then = "idle"]
        /\ Set(r, "Recorded") /\ UNCHANGED <<ns, content, crbs>>
    BY <1>4, <1>14 DEF RunnerRecord
  <2>3. Moved(r, "delete", act[r].left) /\ act'[r].then = "idle"
    BY <1>1, <2>2, ActorSteps
  <2>4. cond'[Key(r)] = "Recorded"
    BY <1>1, <2>2, SetFacts
  <2>5. Stage(r)'
    BY <2>1, <2>2, <2>3 DEF Stage, Moved, Whole, n
  <2>. QED
    BY <1>0, <2>4, <2>5, RunnerFrame
<1>. QED
  BY <1>5, <1>6, <1>7, <1>8, <1>9, <1>10, <1>11, <1>12, <1>13, <1>14 DEF RunnerStep

(* The deletion after a recording, which may fail.                         *)
LEMMA DeleteRunInv ==
  ASSUME TypeInv, RunInv, DistinctNames, NEW r \in Runners, DeleteStep(r)
  PROVE  RunInv'
<1> DEFINE n == NameOf(r)
<1>0. Framed(r) /\ ~At(r, "idle")
  BY RunnerFramed DEF RunInv
<1> SUFFICES ASSUME Key(r) \notin spoiled' PROVE RunInv'
  BY <1>0, RunnerFrame
<1>1. /\ r \in Actors /\ act \in [Actors -> Actor] /\ Target(r) = n /\ n \in Names
      /\ ns \in [Names -> {"absent", "present", "terminating"}]
  BY RunnerFacts
<1>2. /\ cond[Key(r)] # "Unknown"
      /\ cond[Key(r)] = "absent" => act[r].pc \in Early
      /\ Stage(r)
  BY <1>0 DEF RunInv, SoundInv, Sound, Framed
<1>. HIDE DEF n
<1>3. act[r].pc \in {"delete", "list", "unbind"} /\ act[r].then = "idle" /\ UNCHANGED cond
  BY <1>2 DEF DeleteStep, DeleteNamespace, DeleteList, DeleteBinding, At, Stage
<1>4. cond[Key(r)] # "absent"
  BY <1>2, <1>3 DEF Early
<1>5. {"idle", "list", "unbind"} \subseteq Steps
  BY DEF Steps
<1>6. \E step \in {"idle", "list", "unbind"} :
        /\ \E todo : Moved(r, step, todo)
        /\ act'[r].then = "idle"
        /\ step = "list" => ns'[n] = "terminating"
        /\ step = "unbind" => ns'[n] # "present"
  <2>1. CASE DeleteNamespace(r)
    <3>1. \/ GoTo(r, "list") /\ ns'[n] = "terminating"
          \/ GoTo(r, "idle")
      BY <1>1, <1>3, <2>1 DEF DeleteNamespace
    <3>. QED
      BY <1>1, <1>3, <1>5, <3>1, ActorSteps DEF Same
  <2>2. CASE DeleteList(r)
    <3>1. ns'[n] # "present"
      BY <1>2, <2>2 DEF DeleteList, Stage, At, n
    <3>2. \E todo \in SUBSET (Bindings \cup Resources) : Loop(r, "unbind", todo)
      BY <2>2 DEF DeleteList, GoTo, Loop
    <3>. QED
      BY <1>1, <1>3, <1>5, <3>1, <3>2, ActorSteps DEF Same
  <2>3. CASE DeleteBinding(r)
    <3>1. ns'[n] # "present"
      BY <1>2, <2>3 DEF DeleteBinding, Stage, At, n
    <3>2. GoTo(r, "idle") \/ \E b \in act[r].left : Loop(r, "unbind", act[r].left \ {b})
      BY <1>3, <2>3 DEF DeleteBinding
    <3>3. \A b : act[r].left \ {b} \in SUBSET (Bindings \cup Resources)
      BY <1>1 DEF Actor
    <3>. QED
      BY <1>1, <1>3, <1>5, <3>1, <3>2, <3>3, ActorSteps DEF Same
  <2>. QED
    BY <2>1, <2>2, <2>3 DEF DeleteStep
<1>7. Stage(r)'
  BY <1>6 DEF Stage, Moved, n
<1>. QED
  BY <1>0, <1>2, <1>3, <1>4, <1>7, RunnerFrame

(* Runs are started when nothing is there of them, or after a failure.     *)
LEMMA StartRunInv ==
  ASSUME TypeInv, RunInv, Quiet', NEW c \in Checks, NEW k \in Conds, StartRuns(c, k)
  PROVE  RunInv'
<1>. USE DEF RunInv
<1>1. UNCHANGED <<exists, cond, ns, content, crbs, spoiled>>
  BY DEF StartRuns
<1>2. ~Preparing(c, k)
  <2>1. ~Fault("slow")
    BY QuietFaults
  <2>. QED
    BY <2>1 DEF StartRuns
<1>3. \A r \in Runners :
        /\ r \in Actors /\ NameOf(r) \in Names /\ Key(r) \in Checks \X Conds
        /\ r \in Of(c, k) <=> Key(r) = <<c, k>>
  BY ActorSorts DEF Of, Key
<1>4. /\ \A r \in Runners : \/ act'[r] = act[r]
                            \/ r \in Of(c, k) /\ act[r].pc = "idle" /\ act'[r].pc = "start"
      /\ \A r, q \in Runners :
           act'[r] # act[r] /\ act'[q] # act[q] /\ r[2] = q[2] => r = q
      /\ \A a \in Actors : a \notin Runners => act'[a] = act[a]
  BY StartedRuns DEF TypeInv, At
<1>5. \A n \in Names : (Fresh(n)' <=> Fresh(n)) /\ (Whole(n)' <=> Whole(n)) /\ Bound(n)' = Bound(n)
  BY <1>1 DEF Fresh, Whole, Bound
<1>6. NoSweep'
  BY <1>1, <1>4, ActorSorts DEF NoSweep, At
<1>7. ASSUME NEW r \in Runners, Key(r) \notin spoiled PROVE Sound(r)'
  <2>1. Sound(r) /\ \A q \in Pair(r) : q \in Runners /\ Key(q) = Key(r)
    BY <1>7 DEF SoundInv, Pair, Key
  <2>2. CASE Key(r) # <<c, k>>
    <3>1. act'[r] = act[r] /\ \A q \in Pair(r) : act'[q] = act[q]
      BY <1>3, <1>4, <2>1, <2>2
    <3>2. Stage(r)'
      BY <1>1, <1>3, <1>5, <2>1, <3>1 DEF Stage, Sound
    <3>. QED
      BY <1>1, <1>3, <1>5, <2>1, <3>1, <3>2 DEF Sound, At
  <2>3. CASE Key(r) = <<c, k>>
    <3>1. cond[Key(r)] = "absent"
      BY <2>1, <2>3 DEF StartRuns, Sound
    <3>2. \A q \in Pair(r) : act[q].pc = "idle"
      <4> SUFFICES ASSUME NEW q \in Pair(r) PROVE act[q].pc = "idle"
        OBVIOUS
      <4>1. q \in Of(c, k) /\ Key(q) \notin spoiled /\ Sound(q)
        BY <1>3, <1>7, <2>1, <2>3 DEF SoundInv
      <4>2. act[q].pc \in Early
        BY <2>1, <3>1, <4>1 DEF Sound
      <4>. QED
        BY <1>2, <4>1, <4>2 DEF Preparing, Early
    <3>3. r \in Pair(r) /\ Fresh(NameOf(r))
      BY <2>1, <3>1, <3>2 DEF Sound, At, Pair
    <3>4. Stage(r)'
      <4>1. act'[r].pc \in {"idle", "start"}
        BY <1>4, <3>2, <3>3
      <4>. QED
        BY <1>3, <1>5, <3>3, <4>1 DEF Stage
    <3>5. \A q \in Pair(r) : act'[r].pc # "idle" /\ act'[q].pc # "idle" => r = q
      BY <1>4, <2>1, <3>2, <3>3 DEF Pair
    <3>6. act'[r].pc \in Early
      BY <1>4, <3>2, <3>3 DEF Early
    <3>. QED
      BY <1>1, <1>3, <1>5, <3>1, <3>3, <3>4, <3>5, <3>6 DEF Sound, At
  <2>. QED
    BY <2>2, <2>3
<1>. QED
  BY <1>1, <1>6, <1>7 DEF SoundInv, Key, Sound, Stage, At, Pair

(* The end of a namespace that was deleted.                                *)
LEMMA GoneRunInv ==
  ASSUME TypeInv, RunInv, NEW n \in Names, NamespaceGone(n)
  PROVE  RunInv'
<1>. USE DEF RunInv
<1>1. /\ UNCHANGED <<exists, cond, crbs, act, spoiled>> /\ ns[n] = "terminating"
      /\ ns' = [ns EXCEPT ![n] = "absent"] /\ content' = [content EXCEPT ![n] = {}]
      /\ ns \in [Names -> {"absent", "present", "terminating"}]
      /\ content \in [Names -> SUBSET Resources]
  BY DEF NamespaceGone, TypeInv, TypeOK
<1>2. \A m \in Names : /\ m # n => ns'[m] = ns[m] /\ content'[m] = content[m]
                       /\ m = n => ns'[m] = "absent"
                       /\ Bound(m)' = Bound(m)
  BY <1>1 DEF Bound
<1>3. \A m \in Names : (Fresh(m) => Fresh(m)') /\ (Whole(m) => Whole(m)')
  BY <1>1, <1>2 DEF Fresh, Whole
<1>4. ASSUME NEW r \in Runners, Key(r) \notin spoiled PROVE Sound(r)'
  <2>1. NameOf(r) \in Names /\ Sound(r)
    BY <1>4, ActorSorts DEF SoundInv
  <2>2. Stage(r)'
    BY <1>1, <1>2, <1>3, <2>1 DEF Stage, Sound
  <2>. QED
    BY <1>1, <1>3, <2>1, <2>2 DEF Sound, At
<1>. QED
  BY <1>1, <1>4 DEF SoundInv, NoSweep, At, Key

(* A run that is overdue has failed.                                       *)
LEMMA OverdueRunInv ==
  ASSUME TypeInv, RunInv, NEW c \in Checks, NEW k \in Conds, Overdue(c, k)
  PROVE  RunInv'
<1>. USE DEF RunInv
<1>1. /\ UNCHANGED <<exists, ns, content, crbs, act>> /\ spoiled' = spoiled \cup {<<c, k>>}
      /\ \A j \in Checks \X Conds : j # <<c, k>> => cond'[j] = cond[j]
  BY DEF Overdue, TypeInv, TypeOK
<1>2. ASSUME NEW r \in Runners, Key(r) \notin spoiled' PROVE Sound(r)'
  <2>1. Key(r) \in Checks \X Conds /\ Key(r) # <<c, k>> /\ Sound(r)
    BY <1>1, <1>2, RunnerFacts DEF SoundInv
  <2>2. Stage(r)'
    BY <1>1, <2>1 DEF Stage, Sound, Fresh, Whole, Bound
  <2>. QED
    BY <1>1, <2>1, <2>2 DEF Sound, At, Fresh, Bound
<1>. QED
  BY <1>1, <1>2 DEF SoundInv, NoSweep, At

(* Every step of a quiet system keeps the invariant.                       *)
LEMMA RunInvStep ==
  ASSUME DistinctNames, TypeInv, Quiet => RunInv, [Next]_vars, Quiet'
  PROVE  Quiet /\ RunInv /\ RunInv'
<1>1. Quiet
  <2>1. faults' = faults \/ \E kind : Fault(kind)
    BY DEF Next, vars, StartRuns, Overdue, RunnerStep, RunnerStart, RunnerEnsure, CloneCreate,
           CloneBind, CloneCopy, Cloned, RunnerFetch, RunnerWait, RunnerResume, RunnerRecord,
           DeleteStep, DeleteNamespace, DeleteList, DeleteBinding, CleanupList, CleanupNext,
           NamespaceGone, DeleteCheck, Crash
  <2>2. ASSUME NEW kind, Fault(kind) PROVE Quiet
    BY <2>2 DEF Fault, Quiet
  <2>. QED
    BY <2>1, <2>2 DEF Quiet
<1>2. RunInv
  BY <1>1
<1>3. CASE UNCHANGED vars
  <2>1. \A r \in Runners : Stage(r) => Stage(r)'
    BY <1>3 DEF vars, Stage, Fresh, Whole, Bound
  <2>2. \A r \in Runners : Sound(r) => Sound(r)'
    BY <1>3, <2>1 DEF vars, Sound, At, Fresh, Bound
  <2>. QED
    BY <1>1, <1>2, <1>3, <2>2 DEF vars, RunInv, SoundInv, NoSweep, At
<1>4. \A c \in Checks : At(Sweeper(c), "idle")
  BY <1>2 DEF RunInv, NoSweep
<1>5. ASSUME NEW a \in Actors, DeleteStep(a) PROVE RunInv'
  <2>1. ~At(a, "idle")
    BY <1>5 DEF DeleteStep, DeleteNamespace, DeleteList, DeleteBinding, At
  <2>2. a \in Runners
    BY <1>4, <2>1, ActorSorts
  <2>. QED
    BY <1>2, <1>5, <2>2, DeleteRunInv
<1>6. ~Crash /\ \A c \in Checks : ~CleanupList(c) /\ ~CleanupNext(c) /\ ~DeleteCheck(c)
  <2>1. ~Fault("crash") /\ ~Fault("deleteCheck")
    BY QuietFaults
  <2>. QED
    BY <1>4, <2>1 DEF Crash, CleanupList, CleanupNext, DeleteCheck, At
<1>. QED
  BY <1>1, <1>2, <1>3, <1>5, <1>6, RunnerRunInv, StartRunInv, OverdueRunInv, GoneRunInv DEF Next

(* A run of a condition that has not failed records its workload in a      *)
(* complete clone of its own, whatever becomes of the runs of the other    *)
(* conditions and of the other checks of the source namespace: any number  *)
(* of them may fail, time out, go on in the namespace they have deleted,   *)
(* and be started again beside themselves, as long as the run types are    *)
(* not cut off in the names of the clones.                                 *)
THEOREM RunsKeepTheirClones ==
  ASSUME NamesFit
  PROVE  Spec => []OwnClone
<1>1. DistinctNames
  BY NamesDistinct
<1>2. TypeInv /\ (Quiet => RunInv) /\ [Next]_vars => (Quiet => RunInv)'
  BY <1>1, RunInvStep
<1>3. TypeInv /\ (Quiet => RunInv) => OwnClone
  <2> SUFFICES ASSUME TypeInv, RunInv, NEW r \in Runners, Recording(r), Key(r) \notin spoiled
               PROVE  Whole(Target(r)) /\ Alone(r)
    BY DEF OwnClone, Quiet
  <2>1. Sound(r) /\ At(r, "record")
    BY DEF RunInv, SoundInv, Recording
  <2>2. Whole(Target(r))
    BY <2>1, RunnerFacts DEF Sound, Stage, At
  <2>3. ASSUME NEW q \in Runners, Recording(q), Target(q) = Target(r) PROVE q = r
    <3>1. NameOf(q) = NameOf(r)
      BY <2>3, RunnerFacts
    <3>2. q \in Pair(r)
      BY <1>1, <3>1 DEF DistinctNames, Pair
    <3>. QED
      BY <2>1, <2>3, <3>2 DEF Sound, Recording, At
  <2>. QED
    BY <2>2, <2>3 DEF Alone
<1>. QED
  BY <1>2, <1>3, InitTypeInv, InitRunInv, TypeInvStep, PTL DEF Spec

---------------------------------------------------------------------------
(* So far runs have failed or timed out, and nothing else went wrong.      *)
DeletionsWork == faults.kinds \subseteq {"timeout", "record"}

(* A binding belongs to a runner that will delete it.                      *)
Owns(r, b) ==
  \/ act[r].pc \in {"bind", "copy", "fetch", "wait", "record", "delete", "list"}
  \/ act[r].pc = "unbind" /\ b \in act[r].left

OwnedInv ==
  \A b \in Bindings, q \in Runners :
    Key(q) \notin spoiled /\ <<b, NameOf(q)>> \in crbs =>
      \E r \in Pair(q) : Owns(r, b)

(* Of the faults only the two.                                             *)
LEMMA DeletingFaults ==
  ASSUME DeletionsWork'
  PROVE  Quiet' /\ \A kind : Fault(kind) => kind \in {"timeout", "record"}
<1>1. ASSUME NEW kind, Fault(kind) PROVE kind \in {"timeout", "record"}
  <2>1. faults'.kinds = faults.kinds \cup {kind}
    BY <1>1 DEF Fault
  <2>. QED
    BY <2>1 DEF DeletionsWork
<1>. QED
  BY <1>1 DEF DeletionsWork, Quiet

(* A runner whose run has not failed gives up no binding but one that is   *)
(* deleted.                                                                *)
LEMMA OwnerStep ==
  ASSUME TypeInv, RunInv, DeletionsWork', NEW r \in Runners, NEW b \in Bindings,
         RunnerStep(r) \/ DeleteStep(r), Owns(r, b), Key(r) \notin spoiled'
  PROVE  Owns(r, b)' \/ <<b, NameOf(r)>> \notin crbs'
<1> DEFINE n == NameOf(r)
<1>1. /\ r \in Actors /\ act \in [Actors -> Actor] /\ Target(r) = n
  BY RunnerFacts
<1>2. Stage(r)
  BY RunnerFramed DEF RunInv, SoundInv, Sound, Framed
<1>3. (\A kind \in {"create", "list", "delete"} : ~Fault(kind)) /\ ~setStatusFailed(r)
  BY DeletingFaults DEF setStatusFailed
<1>4. {"bind", "copy", "fetch", "wait", "record", "delete", "list", "unbind", "idle"} \subseteq Steps
  BY DEF Steps
<1>. HIDE DEF n
<1>5. CASE RunnerStep(r)
  <2>1. CASE CloneBind(r)
    <3>1. act[r].left \subseteq Bindings /\ Bound(n) = Bindings \ act[r].left
      BY <1>2, <2>1 DEF TypeInv, CopyInv, CloneBind, At, Stage, n
    <3>2. \A x \in act[r].left : <<x, n>> \notin crbs
      BY <3>1 DEF Bound
    <3>3. \E step \in {"bind", "copy"} : \E todo : Loop(r, step, todo)
      BY <1>1, <1>3, <2>1, <3>2 DEF CloneBind
    <3>. QED
      BY <1>1, <3>3 DEF Loop, Owns, Actor
  <2>2. CASE CloneCopy(r) \/ Cloned(r)
    <3>1. ns[n] = "present"
      BY <1>2, <2>2 DEF CloneCopy, Cloned, At, Stage, n
    <3>2. (\E todo : Loop(r, "copy", todo)) \/ GoTo(r, "fetch")
      BY <1>1, <2>2, <3>1 DEF CloneCopy, Cloned
    <3>. QED
      BY <1>1, <3>2 DEF Loop, GoTo, Owns, Actor
  <2>3. CASE RunnerFetch(r) \/ RunnerWait(r)
    <3>1. GoTo(r, "wait") \/ GoTo(r, "record")
      BY <1>3, <2>3 DEF RunnerFetch, RunnerWait
    <3>. QED
      BY <1>1, <3>1 DEF GoTo, Owns, Actor
  <2>4. CASE RunnerRecord(r)
    <3>1. act' = [act EXCEPT ![r].pc = "delete", ![r].then = "idle"]
      BY <1>3, <2>4 DEF RunnerRecord
    <3>. QED
      BY <1>1, <3>1 DEF Owns, Actor
  <2>. QED
    BY <1>5, <2>1, <2>2, <2>3, <2>4
    DEF RunnerStep, RunnerStart, RunnerEnsure, CloneCreate, RunnerResume, At, Owns
<1>6. CASE DeleteStep(r)
  <2>1. CASE DeleteNamespace(r)
    <3>1. ns[n] = "present"
      BY <1>2, <2>1 DEF DeleteNamespace, At, Stage, n
    <3>2. GoTo(r, "list")
      BY <1>1, <1>3, <2>1, <3>1 DEF DeleteNamespace
    <3>. QED
      BY <1>1, <3>2 DEF GoTo, Owns, Actor
  <2>2. CASE DeleteList(r)
    <3>1. Loop(r, "unbind", Bound(n)) /\ UNCHANGED crbs
      BY <1>1, <1>3, <2>2 DEF DeleteList, Bound
    <3>2. Moved(r, "unbind", Bound(n))
      BY <1>1, <1>4, <3>1, ActorSteps DEF Bound
    <3>. QED
      BY <3>1, <3>2 DEF Moved, Owns, Bound, n
  <2>3. CASE DeleteBinding(r)
    <3>1. act[r].pc = "unbind" /\ b \in act[r].left
      BY <2>3 DEF DeleteBinding, At, Owns
    <3>2. PICK x \in act[r].left : /\ Loop(r, "unbind", act[r].left \ {x})
                                   /\ crbs' = crbs \ {<<x, n>>}
      BY <1>1, <1>3, <2>3, <3>1 DEF DeleteBinding
    <3>3. Moved(r, "unbind", act[r].left \ {x})
      <4>1. act[r].left \ {x} \in SUBSET (Bindings \cup Resources)
        BY <1>1 DEF Actor
      <4>. QED
        BY <1>1, <1>4, <3>2, <4>1, ActorSteps
    <3>4. CASE x = b
      BY <3>2, <3>4 DEF n
    <3>5. CASE x # b
      BY <3>1, <3>3, <3>5 DEF Moved, Owns
    <3>. QED
      BY <3>4, <3>5
  <2>. QED
    BY <1>6, <2>1, <2>2, <2>3 DEF DeleteStep
<1>. QED
  BY <1>5, <1>6

(* Every step leaves each binding of such a run with an owner.             *)
LEMMA OwnedInvStep ==
  ASSUME DistinctNames, TypeInv, Quiet => RunInv, DeletionsWork => OwnedInv, [Next]_vars, DeletionsWork'
  PROVE  OwnedInv'
<1>0. Quiet /\ RunInv
  BY DeletingFaults, RunInvStep
<1>1. OwnedInv
  <2>1. faults' = faults \/ \E kind : Fault(kind)
    BY DEF Next, vars, StartRuns, Overdue, RunnerStep, RunnerStart, RunnerEnsure, CloneCreate,
           CloneBind, CloneCopy, Cloned, RunnerFetch, RunnerWait, RunnerResume, RunnerRecord,
           DeleteStep, DeleteNamespace, DeleteList, DeleteBinding, CleanupList, CleanupNext,
           NamespaceGone, DeleteCheck, Crash
  <2>2. ASSUME NEW kind, Fault(kind) PROVE DeletionsWork
    BY <2>2 DEF Fault, DeletionsWork
  <2>. QED
    BY <2>1, <2>2 DEF DeletionsWork
<1> SUFFICES ASSUME NEW b \in Bindings, NEW q \in Runners,
                    Key(q) \notin spoiled', <<b, NameOf(q)>> \in crbs'
             PROVE  \E r \in Pair(q) : Owns(r, b)'
  BY DEF OwnedInv, Key, Pair
<1>2. act \in [Actors -> Actor]
  BY DEF TypeInv, TypeOK
<1>3. ASSUME NEW r \in Runners, RunnerStep(r) \/ DeleteStep(r)
      PROVE  \E p \in Pair(q) : Owns(p, b)'
  <2>1. Framed(r) /\ Key(q) \notin spoiled
    BY <1>0, <1>3, RunnerFramed DEF RunInv, Framed
  <2>2. \A p \in Runners : p \in Actors /\ (p # r => act'[p] = act[p])
    BY <2>1, ActorSorts DEF Framed
  <2>3. CASE <<b, NameOf(q)>> \in crbs
    <3>1. PICK p \in Pair(q) : Owns(p, b)
      BY <1>1, <2>1, <2>3 DEF OwnedInv
    <3>2. p \in Runners /\ NameOf(p) = NameOf(q) /\ Key(p) = Key(q)
      BY <3>1 DEF Pair, NameOf, Key
    <3>3. CASE p = r
      BY <1>0, <1>3, <3>1, <3>2, <3>3, OwnerStep
    <3>4. CASE p # r
      BY <2>2, <3>1, <3>2, <3>4 DEF Owns
    <3>. QED
      BY <3>3, <3>4
  <2>4. CASE <<b, NameOf(q)>> \notin crbs
    <3>1. CloneBind(r) /\ crbs' # crbs
      BY <1>3, <2>4
      DEF RunnerStep, RunnerStart, RunnerEnsure, CloneCreate, CloneCopy, Cloned, RunnerFetch,
          RunnerWait, RunnerResume, RunnerRecord,
          DeleteStep, DeleteNamespace, DeleteList, DeleteBinding
    <3>2. PICK x \in act[r].left : crbs' = crbs \cup {<<x, Target(r)>>}
                                   /\ Loop(r, "bind", act[r].left \ {x})
      BY <3>1 DEF CloneBind
    <3>3. NameOf(r) = NameOf(q)
      BY <2>4, <3>2, RunnerFacts
    <3>4. r \in Pair(q)
      BY <3>3 DEF DistinctNames, Pair
    <3>5. Owns(r, b)'
      BY <1>2, <2>2, <3>2 DEF Loop, Owns, Actor
    <3>. QED
      BY <3>4, <3>5
  <2>. QED
    BY <2>3, <2>4
<1>4. ASSUME crbs' = crbs, spoiled \subseteq spoiled',
             \A r \in Runners : act'[r] = act[r] \/ act[r].pc = "idle"
      PROVE  \E p \in Pair(q) : Owns(p, b)'
  <2>1. PICK p \in Pair(q) : Owns(p, b)
    BY <1>1, <1>4 DEF OwnedInv
  <2>2. act'[p] = act[p]
    BY <1>4, <2>1 DEF Owns, Pair
  <2>. QED
    BY <2>1, <2>2 DEF Owns
<1>5. CASE UNCHANGED vars
  BY <1>4, <1>5 DEF vars
<1>6. ASSUME NEW c \in Checks, NEW k \in Conds, StartRuns(c, k) \/ Overdue(c, k)
      PROVE  \E p \in Pair(q) : Owns(p, b)'
  <2>1. StartRuns(c, k) => \A r \in Runners : act'[r] = act[r] \/ act[r].pc = "idle"
    BY StartedRuns DEF TypeInv, At
  <2>. QED
    BY <1>4, <1>6, <2>1 DEF StartRuns, Overdue
<1>7. ASSUME NEW a \in Actors, DeleteStep(a)
      PROVE  \E p \in Pair(q) : Owns(p, b)'
  <2>1. a \in Runners
    BY <1>0, <1>7, ActorSorts
    DEF RunInv, NoSweep, DeleteStep, DeleteNamespace, DeleteList, DeleteBinding, At
  <2>. QED
    BY <1>3, <1>7, <2>1
<1>8. ~Crash /\ \A c \in Checks : ~CleanupList(c) /\ ~CleanupNext(c) /\ ~DeleteCheck(c)
  <2>1. ~Fault("crash") /\ ~Fault("deleteCheck")
    BY DeletingFaults
  <2>. QED
    BY <1>0, <2>1 DEF Crash, CleanupList, CleanupNext, DeleteCheck, At, RunInv, NoSweep
<1>9. ASSUME NEW m \in Names, NamespaceGone(m)
      PROVE  \E p \in Pair(q) : Owns(p, b)'
  BY <1>4, <1>9 DEF NamespaceGone
<1>. QED
  BY <1>3, <1>5, <1>6, <1>7, <1>8, <1>9 DEF Next

(* No ClusterRoleBinding of a condition that has not failed outlives its   *)
(* namespace unnoticed, whatever runs of other conditions and checks do:   *)
(* Delete lists the bindings after the namespace is on its way out, and    *)
(* nobody binds to it any more.                                            *)
THEOREM BindingsAreDeleted ==
  ASSUME NamesFit
  PROVE  Spec => []BindingsFollow
<1>1. DistinctNames
  BY NamesDistinct
<1>2. Init => OwnedInv
  BY DEF Init, OwnedInv
<1>3. TypeInv /\ (Quiet => RunInv) /\ [Next]_vars => (Quiet => RunInv)'
  BY <1>1, RunInvStep
<1>4. TypeInv /\ (Quiet => RunInv) /\ (DeletionsWork => OwnedInv) /\ [Next]_vars =>
        (DeletionsWork => OwnedInv)'
  BY <1>1, OwnedInvStep
<1>5. TypeInv /\ (Quiet => RunInv) /\ (DeletionsWork => OwnedInv) => BindingsFollow
  <2> SUFFICES ASSUME TypeInv, RunInv, OwnedInv, NEW b \in Bindings, NEW q \in Runners,
                      Key(q) \notin spoiled, Orphan(b, NameOf(q))
               PROVE  FALSE
    BY DEF BindingsFollow, Quiet, DeletionsWork
  <2>1. PICK r \in Pair(q) : Owns(r, b)
    BY DEF OwnedInv, Orphan
  <2>2. r \in Runners /\ NameOf(r) = NameOf(q) /\ Key(r) = Key(q)
    BY <2>1 DEF Pair, NameOf, Key
  <2>3. r \in Actors /\ Target(r) = NameOf(q) /\ Stage(r) /\ ns[NameOf(r)] = "absent"
    BY <2>2, RunnerFacts DEF RunInv, SoundInv, Sound, Orphan
  <2>. QED
    BY <2>1, <2>3 DEF Owns, At, Stage, Whole, Orphan
<1>. QED
  BY <1>2, <1>3, <1>4, <1>5, InitTypeInv, InitRunInv, TypeInvStep, PTL DEF Spec
============================================================================
