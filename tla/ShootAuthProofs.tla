-------------------------- MODULE ShootAuthProofs --------------------------
(***************************************************************************)
(* Proofs about the OIDC configuration, for all Shoots, ConfigMaps,        *)
(* contents and controllers: a controller at rest has copied the content   *)
(* for every Shoot, and no Shoot refers to a ConfigMap that is not there.  *)
(***************************************************************************)
EXTENDS ShootAuth, TLAPS

-----------------------------------------------------------------------------
(* Types.                                                                   *)

LEMMA EmptyTypes == NoConfigMap \in ConfigMap /\ Idle \in Pass
  BY DEF NoConfigMap, ConfigMap, Idle, Pass

LEMMA TypeInit == Init => TypeOK
  <1> SUFFICES ASSUME Init PROVE TypeOK
    OBVIOUS
  <1>1. auth \in Contents
    BY ConstantsAssumption DEF Init
  <1>2. \A n \in Names : cm[n] \in ConfigMap
    BY EmptyTypes DEF Init, ConfigMap
  <1>3. cm \in [Names -> ConfigMap]
    BY <1>2 DEF Init
  <1>4. shoot \in [Shoots -> Shoot]
    <2>1. \A s \in Shoots :
            [ref |-> FirstRef[s], labelled |-> FALSE, operation |-> FALSE] \in Shoot
      BY ConstantsAssumption DEF Shoot
    <2>2. QED
      BY <2>1 DEF Init
  <1>5. work \in [Controllers -> Pass] /\ live \in Controllers
    BY EmptyTypes, ConstantsAssumption DEF Init
  <1>6. /\ spec \subseteq Shoots /\ applied \in [Shoots -> Contents \cup {Foreign, None}]
        /\ queue \subseteq Shoots
        /\ hash \in Contents \cup {None} /\ due \in BOOLEAN /\ astray \in BOOLEAN
    BY <1>1 DEF Init
  <1>7. edits \in 0 .. MaxEdits /\ faults \in 0 .. MaxFaults
    BY ConstantsAssumption DEF Init
  <1>8. QED
    BY <1>1, <1>3, <1>4, <1>5, <1>6, <1>7 DEF TypeOK

LEMMA BoundTypes ==
  ASSUME TypeOK, Edit \/ Fault \/ NoFault
  PROVE  edits' \in 0 .. MaxEdits /\ faults' \in 0 .. MaxFaults
  BY ConstantsAssumption DEF TypeOK, Edit, Fault, NoFault

(* Fields of a Shoot.                                                       *)
LEMMA ShootTypes ==
  ASSUME NEW s \in Shoot
  PROVE  /\ \A n \in Names : [s EXCEPT !.ref = n] \in Shoot
         /\ \A b \in BOOLEAN : [s EXCEPT !.operation = b] \in Shoot
         /\ [s EXCEPT !.labelled = TRUE] \in Shoot
  BY DEF Shoot

(* A write of a Shoot is heard of.                                          *)
LEMMA ShootWritten ==
  ASSUME TypeOK, NEW s \in Shoots, NEW new \in Shoot, ShootBecomes(s, new)
  PROVE  /\ shoot' \in [Shoots -> Shoot] /\ queue' \subseteq Shoots /\ queue \subseteq queue'
         /\ shoot'[s] = new /\ \A t \in Shoots \ {s} : shoot'[t] = shoot[t]
         /\ \A t \in Shoots : shoot'[t] # shoot[t] => t \in queue'
  BY DEF TypeOK, ShootBecomes

(* The pass of one controller at a time changes.                            *)
LEMMA PassChanges ==
  ASSUME TypeOK, NEW w \in Controllers, NEW p \in Pass, work' = [work EXCEPT ![w] = p]
  PROVE  /\ work' \in [Controllers -> Pass]
         /\ work'[w] = p /\ \A v \in Controllers \ {w} : work'[v] = work[v]
  BY DEF TypeOK

(* What the steps make of the pass.                                         *)
LEMMA BeginPass ==
  ASSUME TypeOK, NEW s \in Shoots, Begin(s)
  PROVE  \E p \in Pass :
           /\ work' = [work EXCEPT ![live] = p]
           /\ p.pc = "read" /\ p.shoot = s /\ p.read = shoot[s]
  <1> DEFINE p == [Idle EXCEPT !.pc = "read", !.shoot = s, !.read = shoot[s]]
  <1>1. shoot[s] \in Shoot
    BY DEF TypeOK
  <1>2. p \in Pass /\ p.pc = "read" /\ p.shoot = s /\ p.read = shoot[s]
    BY <1>1 DEF Idle, Pass
  <1>3. work' = [work EXCEPT ![live] = p]
    BY DEF Begin
  <1> HIDE DEF p
  <1>4. QED
    BY <1>2, <1>3

LEMMA ReadPass ==
  ASSUME TypeOK, NEW w \in Controllers, PassHolds(w), ReadGreenhouseConfigMap(w), auth # None
  PROVE  \E p \in Pass :
           /\ work' = [work EXCEPT ![w] = p]
           /\ p.pc = "configmap" /\ p.shoot = work[w].shoot /\ p.read = work[w].read
           /\ p.content = auth /\ p.name \in Names
  <1> DEFINE p == [work[w] EXCEPT !.pc = "configmap", !.content = auth,
                                  !.name = ConfigMapName(work[w].read)]
  <1>1. work[w] \in Pass /\ work \in [Controllers -> Pass] /\ auth \in Contents
    BY DEF TypeOK
  <1>2. work[w].read \in Shoot
    BY <1>1 DEF Pass, PassHolds, ReadGreenhouseConfigMap
  <1>3. ConfigMapName(work[w].read) \in Names
    BY <1>2, ConstantsAssumption DEF ConfigMapName, Shoot
  <1>4. /\ p \in Pass /\ p.pc = "configmap" /\ p.shoot = work[w].shoot /\ p.read = work[w].read
        /\ p.content = auth /\ p.name \in Names
    BY <1>1, <1>3 DEF Pass
  <1>5. work' = [work EXCEPT ![w] = p]
    BY <1>1 DEF ReadGreenhouseConfigMap
  <1> HIDE DEF p
  <1>6. QED
    BY <1>4, <1>5

LEMMA WritePass ==
  ASSUME TypeOK, NEW w \in Controllers, WriteGardenConfigMap(w)
  PROVE  \E p \in Pass :
           /\ work' = [work EXCEPT ![w] = p]
           /\ p.pc = "label" /\ p.shoot = work[w].shoot /\ p.read = work[w].read
           /\ p.name = work[w].name
  <1> DEFINE b == cm[work[w].name] # [content |-> work[w].content, labelled |-> TRUE]
             p == [work[w] EXCEPT !.pc = "label", !.content = None, !.changed = b]
  <1>1. work[w] \in Pass /\ work \in [Controllers -> Pass] /\ b \in BOOLEAN
    BY DEF TypeOK
  <1>2. work' = [work EXCEPT ![w] = p]
    BY <1>1 DEF WriteGardenConfigMap
  <1> HIDE DEF b
  <1>3. /\ p \in Pass /\ p.pc = "label" /\ p.shoot = work[w].shoot /\ p.read = work[w].read
        /\ p.name = work[w].name
    BY <1>1 DEF Pass
  <1> HIDE DEF p
  <1>4. QED
    BY <1>2, <1>3

LEMMA LabelPass ==
  ASSUME TypeOK, NEW w \in Controllers, PassHolds(w), LabelShoot(w)
  PROVE  \E p \in Pass :
           /\ work' = [work EXCEPT ![w] = p]
           /\ p.pc = "spec" /\ p.shoot = work[w].shoot /\ p.name = work[w].name
           /\ \/ /\ ~work[w].read.labelled
                 /\ p.read = [shoot[p.shoot] EXCEPT !.labelled = TRUE]
                 /\ ShootBecomes(p.shoot, p.read)
              \/ work[w].read.labelled /\ p.read = work[w].read /\ UNCHANGED <<shoot, queue>>
  <1> DEFINE s == work[w].shoot
             new == [shoot[s] EXCEPT !.labelled = TRUE]
             p(r) == [work[w] EXCEPT !.pc = "spec", !.read = r]
  <1>1. work[w] \in Pass /\ work \in [Controllers -> Pass] /\ s \in Shoots
    BY DEF TypeOK, PassHolds, LabelShoot
  <1>2. new \in Shoot /\ work[w].read \in Shoot
    BY <1>1, ShootTypes DEF TypeOK, Pass, PassHolds, LabelShoot
  <1>3. ASSUME NEW r \in Shoot
        PROVE  /\ p(r) \in Pass /\ p(r).pc = "spec" /\ p(r).shoot = work[w].shoot
               /\ p(r).name = work[w].name /\ p(r).read = r
    BY <1>1 DEF Pass
  <1>4. CASE ~work[w].read.labelled
    <2>1. ShootBecomes(s, new) /\ work' = [work EXCEPT ![w] = p(new)]
      BY <1>1, <1>4 DEF LabelShoot, Current
    <2> HIDE DEF p
    <2>2. QED
      BY <1>2, <1>3, <1>4, <2>1
  <1>5. CASE work[w].read.labelled
    <2>1. UNCHANGED <<shoot, queue>> /\ work' = [work EXCEPT ![w] = p(work[w].read)]
      BY <1>1, <1>5 DEF LabelShoot, Pass
    <2> HIDE DEF p
    <2>2. QED
      BY <1>2, <1>3, <1>5, <2>1
  <1>6. QED
    BY <1>4, <1>5

(* A write of a ConfigMap in the garden.                                    *)
LEMMA ConfigMapWritten ==
  ASSUME TypeOK, NEW w \in Controllers, PassHolds(w), WriteGardenConfigMap(w)
  PROVE  LET n == work[w].name
         IN  /\ n \in Names /\ work[w].content \in Contents
             /\ cm' \in [Names -> ConfigMap] /\ queue' \subseteq Shoots /\ queue \subseteq queue'
             /\ cm'[n].content = work[w].content /\ cm'[n].labelled
             /\ \A m \in Names \ {n} : cm'[m] = cm[m]
             /\ cm'[n].content # cm[n].content => \A s \in Shoots : shoot[s].labelled => s \in queue'
  <1> DEFINE n == work[w].name
             new == [content |-> work[w].content, labelled |-> TRUE]
  <1>1. n \in Names /\ work[w].content \in Contents
    BY DEF TypeOK, Pass, PassHolds, WriteGardenConfigMap
  <1>2. new \in ConfigMap
    BY <1>1 DEF ConfigMap
  <1>3. cm' = [cm EXCEPT ![n] = new] /\ queue' = queue \cup EnqueueShoots(cm[n], new)
    BY DEF WriteGardenConfigMap
  <1>4. QED
    BY <1>1, <1>2, <1>3 DEF TypeOK, EnqueueShoots

LEMMA ConfigMapTampered ==
  ASSUME TypeOK, NEW n \in Names, ConfigMapHolds(n), Tamper(n)
  PROVE  /\ cm' \in [Names -> ConfigMap] /\ queue' \subseteq Shoots /\ queue \subseteq queue'
         /\ cm'[n].content = Foreign /\ \A m \in Names \ {n} : cm'[m] = cm[m]
         /\ \A s \in Shoots : shoot[s].labelled => s \in queue'
  <1> DEFINE new == [cm[n] EXCEPT !.content = Foreign]
  <1>1. cm[n] \in ConfigMap /\ cm[n].content \in Contents
    BY DEF TypeOK, Tamper, ConfigMap
  <1>2. /\ new \in ConfigMap /\ new.content = Foreign /\ new.labelled = cm[n].labelled
    BY <1>1 DEF ConfigMap
  <1>3. cm' = [cm EXCEPT ![n] = new] /\ queue' = queue \cup EnqueueShoots(cm[n], new)
    BY DEF Tamper
  <1>4. cm[n].labelled /\ new.content # cm[n].content
    BY <1>1, <1>2, ConstantsAssumption DEF ConfigMapHolds
  <1> HIDE DEF new
  <1>5. QED
    BY <1>2, <1>3, <1>4 DEF TypeOK, EnqueueShoots

LEMMA TypeStep ==
  ASSUME TypeOK, \A w \in Controllers : PassHolds(w), \A n \in Names : ConfigMapHolds(n), [Next]_vars
  PROVE  TypeOK'
  <1> USE DEF gardenVars, controllerVars, reconcilerVars
  <1>1. ASSUME NEW s \in Shoots, Begin(s)
        PROVE  TypeOK'
    <2>1. work' \in [Controllers -> Pass]
      BY <1>1, BeginPass, PassChanges DEF TypeOK
    <2>2. QED
      BY <1>1, <2>1, BoundTypes DEF Begin, TypeOK
  <1>2. ASSUME NEW w \in Controllers, Finish(w)
        PROVE  work' \in [Controllers -> Pass]
    BY <1>2, EmptyTypes, PassChanges DEF Finish
  <1>3. ASSUME NEW w \in Controllers, work[w].pc # "idle"
        PROVE  Current(w) \in Shoots /\ RetryQueue(w) \subseteq Shoots
    BY <1>3 DEF PassHolds, Current, RetryQueue, TypeOK
  <1>4. ASSUME NEW w \in Controllers, ReadGreenhouseConfigMap(w)
        PROVE  TypeOK'
    <2>1. work' \in [Controllers -> Pass]
      <3>1. CASE auth # None
        BY <1>4, <3>1, ReadPass, PassChanges
      <3>2. CASE auth = None
        BY <1>2, <1>4, <3>2 DEF ReadGreenhouseConfigMap
      <3>3. QED
        BY <3>1, <3>2
    <2>2. queue' \subseteq Shoots
      BY <1>3, <1>4 DEF ReadGreenhouseConfigMap, TypeOK
    <2>3. QED
      BY <1>4, <2>1, <2>2, BoundTypes DEF ReadGreenhouseConfigMap, TypeOK
  <1>5. ASSUME NEW w \in Controllers, WriteGardenConfigMap(w)
        PROVE  TypeOK'
    <2>1. work' \in [Controllers -> Pass]
      BY <1>5, WritePass, PassChanges
    <2>2. cm' \in [Names -> ConfigMap] /\ queue' \subseteq Shoots
      BY <1>5, ConfigMapWritten
    <2>3. QED
      BY <1>5, <2>1, <2>2, BoundTypes DEF WriteGardenConfigMap, TypeOK
  <1>6. ASSUME NEW w \in Controllers, LabelShoot(w)
        PROVE  TypeOK'
    <2>1. PICK p \in Pass :
            /\ work' = [work EXCEPT ![w] = p] /\ p.shoot = work[w].shoot
            /\ \/ p.read = [shoot[p.shoot] EXCEPT !.labelled = TRUE] /\ ShootBecomes(p.shoot, p.read)
               \/ UNCHANGED <<shoot, queue>>
      BY <1>6, LabelPass
    <2>2. p.shoot \in Shoots
      BY <1>6, <2>1 DEF LabelShoot, PassHolds
    <2>3. shoot' \in [Shoots -> Shoot] /\ queue' \subseteq Shoots
      <3>1. [shoot[p.shoot] EXCEPT !.labelled = TRUE] \in Shoot
        BY <2>2, ShootTypes DEF TypeOK
      <3>2. QED
        BY <2>1, <2>2, <3>1, ShootWritten DEF TypeOK
    <2>4. work' \in [Controllers -> Pass]
      BY <2>1, PassChanges
    <2>5. QED
      BY <1>6, <2>3, <2>4, BoundTypes DEF LabelShoot, TypeOK
  <1>7. ASSUME NEW w \in Controllers, UpdateShootSpec(w)
        PROVE  TypeOK'
    <2>1. Current(w) \in Shoots /\ RetryQueue(w) \subseteq Shoots /\ work[w].name \in Names
      BY <1>3, <1>7 DEF UpdateShootSpec, TypeOK, Pass, PassHolds
    <2>2. [shoot[Current(w)] EXCEPT !.ref = work[w].name] \in Shoot
      BY <2>1, ShootTypes DEF TypeOK
    <2>3. shoot' \in [Shoots -> Shoot] /\ queue' \subseteq Shoots /\ spec' \subseteq Shoots
      BY <1>7, <2>1, <2>2, ShootWritten DEF UpdateShootSpec, TypeOK
    <2>4. QED
      BY <1>2, <1>7, <2>3, BoundTypes DEF UpdateShootSpec, TypeOK
  <1>8. ASSUME NEW w \in Controllers, AnnotateShootForReconcile(w)
        PROVE  TypeOK'
    <2>1. Current(w) \in Shoots
      BY <1>3, <1>8 DEF AnnotateShootForReconcile
    <2>2. [shoot[Current(w)] EXCEPT !.operation = TRUE] \in Shoot
      BY <2>1, ShootTypes DEF TypeOK
    <2>3. shoot' \in [Shoots -> Shoot] /\ queue' \subseteq Shoots
      BY <1>8, <2>1, <2>2, ShootWritten DEF AnnotateShootForReconcile, TypeOK
    <2>4. QED
      BY <1>2, <1>8, <2>3, BoundTypes DEF AnnotateShootForReconcile, TypeOK
  <1>9. ASSUME NEW w \in Controllers, PassFails(w) \/ PassAborted(w)
        PROVE  TypeOK'
    <2>1. queue' \subseteq Shoots
      BY <1>3, <1>9 DEF PassFails, PassAborted, TypeOK
    <2>2. QED
      BY <1>2, <1>9, <2>1, BoundTypes DEF PassFails, PassAborted, TypeOK
  <1>10. ASSUME NEW w \in Controllers, RestartShootController(w)
         PROVE  TypeOK'
    BY <1>10 DEF RestartShootController, TypeOK
  <1>11. ASSUME NEW s \in Shoots, GardenerReconciles(s)
         PROVE  TypeOK'
    <2>1. [shoot[s] EXCEPT !.operation = FALSE] \in Shoot
      BY ShootTypes DEF TypeOK
    <2>2. shoot' \in [Shoots -> Shoot] /\ queue' \subseteq Shoots
      BY <1>11, <2>1, ShootWritten DEF GardenerReconciles
    <2>3. applied' \in [Shoots -> Contents \cup {Foreign, None}]
      <3>1. shoot[s].ref # None => cm[shoot[s].ref].content \in Contents \cup {Foreign, None}
        BY DEF TypeOK, Shoot, ConfigMap
      <3>2. QED
        BY <1>11, <3>1 DEF GardenerReconciles, TypeOK
    <2>4. QED
      BY <1>11, <2>2, <2>3 DEF GardenerReconciles, TypeOK
  <1>12. ASSUME NEW s \in Shoots, SetReference(s)
         PROVE  TypeOK'
    <2>1. \A n \in Names : [shoot[s] EXCEPT !.ref = n] \in Shoot
      BY ShootTypes DEF TypeOK
    <2>2. shoot' \in [Shoots -> Shoot] /\ queue' \subseteq Shoots
      BY <1>12, <2>1, ShootWritten DEF SetReference
    <2>3. QED
      BY <1>12, <2>2, BoundTypes DEF SetReference, TypeOK
  <1>13. ASSUME NEW n \in Names, Tamper(n)
         PROVE  TypeOK'
    <2>1. cm' \in [Names -> ConfigMap] /\ queue' \subseteq Shoots
      BY <1>13, ConfigMapTampered
    <2>2. QED
      BY <1>13, <2>1, BoundTypes DEF Tamper, TypeOK
  <1>14. CASE AuthChanges \/ SameAuthConfigMap
    BY <1>14, BoundTypes DEF AuthChanges, SameAuthConfigMap, TypeOK
  <1>15. CASE UNCHANGED vars
    BY <1>15 DEF vars, TypeOK
  <1>16. QED
    BY <1>1, <1>4, <1>5, <1>6, <1>7, <1>8, <1>9, <1>10, <1>11, <1>12, <1>13, <1>14, <1>15
    DEF Next, Step

-----------------------------------------------------------------------------
(* ConfigMaps, labels and passes.                                           *)

LEMMA ObjectsInit == Init => Objects
  <1> SUFFICES ASSUME Init PROVE Objects
    OBVIOUS
  <1>1. TypeOK
    BY TypeInit
  <1>2. \A n \in Names : ConfigMapHolds(n) /\ (n # Default => cm[n].content = Foreign)
    <2> TAKE n \in Names
    <2>1. CASE n = Default
      BY <2>1, ConstantsAssumption DEF Init, NoConfigMap, ConfigMapHolds
    <2>2. CASE n # Default
      BY <2>2, ConstantsAssumption DEF Init, ConfigMapHolds
    <2>3. QED
      BY <2>1, <2>2
  <1>3. \A s \in Shoots : shoot[s].ref \in {None} \cup (Names \ {Default})
    BY ConstantsAssumption DEF Init
  <1>4. NoDanglingReference
    BY <1>2, <1>3, ConstantsAssumption DEF NoDanglingReference
  <1>5. \A w \in Controllers : work[w].pc = "idle"
    BY DEF Init, Idle
  <1>6. QED
    BY <1>1, <1>2, <1>4, <1>5 DEF Objects, PassHolds

(* ConfigMaps do not lose their content.                                    *)
LEMMA ConfigMapStep ==
  ASSUME Objects, [Next]_vars, NEW n \in Names
  PROVE  ConfigMapHolds(n)' /\ (cm[n].content # None => cm'[n].content # None)
  <1> USE DEF gardenVars, Objects
  <1>1. CASE UNCHANGED cm
    BY <1>1 DEF ConfigMapHolds
  <1>2. ASSUME NEW w \in Controllers, WriteGardenConfigMap(w)
        PROVE  ConfigMapHolds(n)' /\ (cm[n].content # None => cm'[n].content # None)
    <2> DEFINE m == work[w].name
    <2>1. /\ m \in Names /\ work[w].content \in Contents
          /\ cm'[m].content = work[w].content /\ cm'[m].labelled
          /\ \A k \in Names \ {m} : cm'[k] = cm[k]
      BY <1>2, ConfigMapWritten
    <2> HIDE DEF m
    <2>2. QED
      BY <2>1, ConstantsAssumption DEF ConfigMapHolds
  <1>3. ASSUME NEW m \in Names, Tamper(m)
        PROVE  ConfigMapHolds(n)' /\ (cm[n].content # None => cm'[n].content # None)
    <2>1. cm'[m].content = Foreign /\ \A k \in Names \ {m} : cm'[k] = cm[k]
      BY <1>3, ConfigMapTampered
    <2>2. QED
      BY <2>1, ConstantsAssumption DEF ConfigMapHolds
  <1>4. CASE UNCHANGED vars
    BY <1>1, <1>4 DEF vars
  <1>5. QED
    BY <1>1, <1>2, <1>3, <1>4
    DEF Next, Step, Begin, ReadGreenhouseConfigMap, LabelShoot, UpdateShootSpec,
        AnnotateShootForReconcile, PassFails, PassAborted, RestartShootController,
        GardenerReconciles, SetReference, SameAuthConfigMap, AuthChanges

(* How the Shoots change: labels stay, and a new reference is one to a      *)
(* ConfigMap that is there. Whoever changes a Shoot, the live controller    *)
(* hears of it.                                                             *)
LEMMA ShootStep ==
  ASSUME Objects, [Next]_vars, NEW s \in Shoots
  PROVE  /\ shoot[s].labelled => shoot'[s].labelled
         /\ \/ shoot'[s].ref = shoot[s].ref
            \/ shoot'[s].ref \in Names /\ cm[shoot'[s].ref].content # None
         /\ shoot'[s] # shoot[s] => s \in queue'
  <1> USE DEF gardenVars, Objects
  <1> DEFINE Good(t) ==
        /\ shoot[t].labelled => shoot'[t].labelled
        /\ \/ shoot'[t].ref = shoot[t].ref
           \/ shoot'[t].ref \in Names /\ cm[shoot'[t].ref].content # None
        /\ shoot'[t] # shoot[t] => t \in queue'
  <1>1. CASE UNCHANGED shoot
    BY <1>1
  <1>2. ASSUME NEW t \in Shoots, NEW new \in Shoot, ShootBecomes(t, new),
               shoot[t].labelled => new.labelled,
               \/ new.ref = shoot[t].ref
               \/ new.ref \in Names /\ cm[new.ref].content # None
        PROVE  Good(s)
    BY <1>2, ShootWritten
  <1>3. \A t \in Shoots : shoot[t] \in Shoot
    BY DEF TypeOK
  <1>4. ASSUME NEW t \in Shoots, NEW b \in BOOLEAN, ShootBecomes(t, [shoot[t] EXCEPT !.operation = b])
        PROVE  Good(s)
    <2>1. /\ [shoot[t] EXCEPT !.operation = b] \in Shoot
          /\ [shoot[t] EXCEPT !.operation = b].labelled = shoot[t].labelled
          /\ [shoot[t] EXCEPT !.operation = b].ref = shoot[t].ref
      BY <1>3 DEF Shoot
    <2>2. QED
      BY <1>2, <1>4, <2>1
  <1>5. ASSUME NEW t \in Shoots, NEW n \in Names, cm[n].content # None,
               ShootBecomes(t, [shoot[t] EXCEPT !.ref = n])
        PROVE  Good(s)
    <2>1. /\ [shoot[t] EXCEPT !.ref = n] \in Shoot
          /\ [shoot[t] EXCEPT !.ref = n].labelled = shoot[t].labelled
          /\ [shoot[t] EXCEPT !.ref = n].ref = n
      BY <1>3 DEF Shoot
    <2>2. QED
      BY <1>2, <1>5, <2>1
  <1>6. ASSUME NEW t \in Shoots, ShootBecomes(t, [shoot[t] EXCEPT !.labelled = TRUE])
        PROVE  Good(s)
    <2>1. /\ [shoot[t] EXCEPT !.labelled = TRUE] \in Shoot
          /\ [shoot[t] EXCEPT !.labelled = TRUE].labelled
          /\ [shoot[t] EXCEPT !.labelled = TRUE].ref = shoot[t].ref
      BY <1>3 DEF Shoot
    <2>2. QED
      BY <1>2, <1>6, <2>1
  <1> HIDE DEF Good
  <1>7. ASSUME NEW w \in Controllers, LabelShoot(w)
        PROVE  Good(s) \/ UNCHANGED shoot
    <2>1. Current(w) \in Shoots
      BY <1>7 DEF LabelShoot, PassHolds, Current
    <2>2. QED
      BY <1>6, <1>7, <2>1 DEF LabelShoot
  <1>8. ASSUME NEW w \in Controllers, UpdateShootSpec(w)
        PROVE  Good(s) \/ UNCHANGED shoot
    <2>1. Current(w) \in Shoots /\ work[w].name \in Names /\ cm[work[w].name].content # None
      BY <1>8 DEF UpdateShootSpec, PassHolds, Current, TypeOK, Pass
    <2>2. QED
      BY <1>5, <1>8, <2>1 DEF UpdateShootSpec
  <1>9. ASSUME NEW w \in Controllers, AnnotateShootForReconcile(w)
        PROVE  Good(s) \/ UNCHANGED shoot
    <2>1. Current(w) \in Shoots
      BY <1>9 DEF AnnotateShootForReconcile, PassHolds, Current
    <2>2. QED
      BY <1>4, <1>9, <2>1 DEF AnnotateShootForReconcile
  <1>10. ASSUME NEW t \in Shoots, GardenerReconciles(t)
         PROVE  Good(s)
    BY <1>4, <1>10 DEF GardenerReconciles
  <1>11. ASSUME NEW t \in Shoots, SetReference(t)
         PROVE  Good(s)
    <2>1. PICK n \in Names \ {Default, shoot[t].ref} : ShootBecomes(t, [shoot[t] EXCEPT !.ref = n])
      BY <1>11 DEF SetReference
    <2>2. cm[n].content # None
      BY <2>1 DEF ConfigMapHolds
    <2>3. QED
      BY <1>5, <2>1, <2>2
  <1>12. CASE UNCHANGED vars
    BY <1>1, <1>12 DEF vars, Good
  <1>13. Good(s) \/ UNCHANGED shoot
    BY <1>7, <1>8, <1>9, <1>10, <1>11, <1>12
    DEF Next, Step, Begin, ReadGreenhouseConfigMap, WriteGardenConfigMap, PassFails, PassAborted,
        RestartShootController, Tamper, SameAuthConfigMap, AuthChanges, vars
  <1>14. QED
    BY <1>1, <1>13 DEF Good

LEMMA ReferenceStep == ASSUME Objects, [Next]_vars PROVE NoDanglingReference'
  <1> SUFFICES ASSUME NEW s \in Shoots, shoot'[s].ref # None
               PROVE  cm'[shoot'[s].ref].content # None
    BY DEF NoDanglingReference
  <1>1. shoot'[s].ref \in Names
    BY TypeStep DEF Objects, TypeOK, Shoot
  <1>2. cm[shoot'[s].ref].content # None
    BY ShootStep DEF Objects, NoDanglingReference
  <1>3. QED
    BY <1>1, <1>2, ConfigMapStep

LEMMA PassStep ==
  ASSUME Objects, [Next]_vars, NEW w \in Controllers
  PROVE  PassHolds(w)'
  <1> USE DEF Objects
  <1>1. \A s \in Shoots : shoot[s].labelled => shoot'[s].labelled
    BY ShootStep
  <1>2. \A n \in Names : cm[n].content # None => cm'[n].content # None
    BY ConfigMapStep
  <1>3. work \in [Controllers -> Pass] /\ work[w] \in Pass /\ live \in Controllers
    BY DEF TypeOK
  <1>4. CASE work'[w] = work[w]
    BY <1>1, <1>2, <1>3, <1>4 DEF PassHolds, Pass
  <1>5. CASE work'[w].pc = "idle"
    BY <1>5 DEF PassHolds
  <1>6. ASSUME NEW v \in Controllers, Finish(v)
        PROVE  PassHolds(w)'
    <2>1. w = v => work'[w].pc = "idle"
      BY <1>3, <1>6 DEF Finish, Idle
    <2>2. w # v => work'[w] = work[w]
      BY <1>3, <1>6 DEF Finish
    <2>3. QED
      BY <1>4, <1>5, <2>1, <2>2
  <1>7. ASSUME NEW s \in Shoots, Begin(s)
        PROVE  PassHolds(w)'
    <2>1. PICK p \in Pass :
            /\ work' = [work EXCEPT ![live] = p]
            /\ p.pc = "read" /\ p.shoot = s /\ p.read = shoot[s]
      BY <1>7, BeginPass
    <2>2. CASE w = live
      <3>1. work'[w] = p
        BY <1>3, <2>1, <2>2
      <3>2. shoot[s] \in Shoot /\ shoot'[s] = shoot[s]
        BY <1>7 DEF TypeOK, Begin, gardenVars
      <3>3. QED
        BY <2>1, <3>1, <3>2 DEF PassHolds
    <2>3. CASE w # live
      BY <1>3, <1>4, <2>1, <2>3
    <2>4. QED
      BY <2>2, <2>3
  <1>8. ASSUME NEW v \in Controllers, ReadGreenhouseConfigMap(v)
        PROVE  PassHolds(w)'
    <2>1. CASE auth = None
      BY <1>6, <1>8, <2>1 DEF ReadGreenhouseConfigMap
    <2>2. CASE auth # None
      <3>1. PICK p \in Pass :
              /\ work' = [work EXCEPT ![v] = p]
              /\ p.pc = "configmap" /\ p.shoot = work[v].shoot /\ p.read = work[v].read
              /\ p.content = auth /\ p.name \in Names
        BY <1>8, <2>2, ReadPass
      <3>2. CASE w = v
        <4>1. work'[w] = p
          BY <1>3, <3>1, <3>2
        <4>2. work[w].pc # "idle"
          BY <1>8, <3>2 DEF ReadGreenhouseConfigMap
        <4>3. QED
          BY <1>1, <2>2, <3>1, <3>2, <4>1, <4>2, ConstantsAssumption DEF PassHolds
      <3>3. CASE w # v
        BY <1>3, <1>4, <3>1, <3>3
      <3>4. QED
        BY <3>2, <3>3
    <2>3. QED
      BY <2>1, <2>2
  <1>9. ASSUME NEW v \in Controllers, WriteGardenConfigMap(v)
        PROVE  PassHolds(w)'
    <2>1. PICK p \in Pass :
            /\ work' = [work EXCEPT ![v] = p]
            /\ p.pc = "label" /\ p.shoot = work[v].shoot /\ p.read = work[v].read
            /\ p.name = work[v].name
      BY <1>9, WritePass
    <2>2. CASE w = v
      <3>1. work'[w] = p
        BY <1>3, <2>1, <2>2
      <3>2. work[w].pc = "configmap"
        BY <1>9, <2>2 DEF WriteGardenConfigMap
      <3>3. cm'[p.name].content # None
        BY <1>9, <2>1, ConfigMapWritten, ConstantsAssumption
      <3>4. QED
        BY <1>1, <2>1, <2>2, <3>1, <3>2, <3>3 DEF PassHolds
    <2>3. CASE w # v
      BY <1>3, <1>4, <2>1, <2>3
    <2>4. QED
      BY <2>2, <2>3
  <1>10. ASSUME NEW v \in Controllers, LabelShoot(v)
         PROVE  PassHolds(w)'
    <2>1. PICK p \in Pass :
            /\ work' = [work EXCEPT ![v] = p]
            /\ p.pc = "spec" /\ p.shoot = work[v].shoot
            /\ p.name = work[v].name
            /\ \/ /\ p.read = [shoot[p.shoot] EXCEPT !.labelled = TRUE]
                  /\ ShootBecomes(p.shoot, p.read)
               \/ p.read = work[v].read /\ UNCHANGED <<shoot, queue>>
      BY <1>10, LabelPass
    <2>2. CASE w = v
      <3>1. work'[w] = p
        BY <1>3, <2>1, <2>2
      <3>2. work[w].pc = "label"
        BY <1>10, <2>2 DEF LabelShoot
      <3>3. p.shoot \in Shoots /\ shoot[p.shoot] \in Shoot
        BY <2>1, <2>2, <3>2 DEF PassHolds, TypeOK
      <3>4. p.read \in Shoot /\ (p.read.labelled => shoot'[p.shoot].labelled)
        <4>1. [shoot[p.shoot] EXCEPT !.labelled = TRUE] \in Shoot
          BY <3>3, ShootTypes
        <4>2. QED
          BY <2>1, <2>2, <3>2, <3>3, <4>1, ShootWritten DEF PassHolds
      <3>5. p.name # None /\ cm'[p.name].content # None
        BY <1>2, <1>3, <2>1, <2>2, <3>2 DEF PassHolds, Pass
      <3>6. QED
        BY <2>1, <3>1, <3>3, <3>4, <3>5 DEF PassHolds
    <2>3. CASE w # v
      BY <1>3, <1>4, <2>1, <2>3
    <2>4. QED
      BY <2>2, <2>3
  <1>11. CASE UNCHANGED work
    BY <1>4, <1>11
  <1>12. QED
    BY <1>6, <1>7, <1>8, <1>9, <1>10, <1>11
    DEF Next, Step, UpdateShootSpec, AnnotateShootForReconcile, PassFails, PassAborted,
        RestartShootController, GardenerReconciles, SetReference, Tamper, SameAuthConfigMap,
        AuthChanges, vars, controllerVars

LEMMA ObjectsStep == ASSUME Objects, [Next]_vars PROVE Objects'
  <1>1. TypeOK'
    BY TypeStep DEF Objects
  <1>2. NoDanglingReference'
    BY ReferenceStep
  <1>3. \A w \in Controllers : PassHolds(w)'
    BY PassStep
  <1>4. \A n \in Names : ConfigMapHolds(n)'
    BY ConfigMapStep
  <1>5. QED
    BY <1>1, <1>2, <1>3, <1>4 DEF Objects

-----------------------------------------------------------------------------
(* No Shoot is forgotten.                                                   *)

(* A change of a ConfigMap's content brings back every Shoot with a label.  *)
LEMMA ContentNoticed ==
  ASSUME Objects, [Next]_vars, NEW s \in Shoots, shoot[s].labelled,
         NEW n \in Names, cm'[n].content # cm[n].content
  PROVE  s \in queue'
  <1> USE DEF Objects
  <1>1. ASSUME NEW w \in Controllers, WriteGardenConfigMap(w)
        PROVE  s \in queue'
    <2>1. n = work[w].name
      BY <1>1, ConfigMapWritten
    <2>2. QED
      BY <1>1, <2>1, ConfigMapWritten
  <1>2. ASSUME NEW m \in Names, Tamper(m)
        PROVE  s \in queue'
    BY <1>2, ConfigMapTampered
  <1>3. QED
    BY <1>1, <1>2
    DEF Next, Step, Begin, ReadGreenhouseConfigMap, LabelShoot, UpdateShootSpec,
        AnnotateShootForReconcile, PassFails, PassAborted, RestartShootController,
        GardenerReconciles, SetReference, SameAuthConfigMap, AuthChanges, gardenVars, vars

(* Only the beginning of a pass takes a request off the queue.              *)
LEMMA QueueKept ==
  ASSUME Objects, [Next]_vars, NEW s \in Shoots, s \in queue, ~Begin(s)
  PROVE  s \in queue'
  <1> USE DEF Objects
  <1>1. ASSUME NEW t \in Shoots, Begin(t)
        PROVE  s \in queue'
    BY <1>1 DEF Begin
  <1>2. ASSUME NEW t, NEW new, ShootBecomes(t, new)
        PROVE  s \in queue'
    BY <1>2 DEF ShootBecomes
  <1>3. ASSUME NEW w \in Controllers, queue' = RetryQueue(w)
        PROVE  s \in queue'
    BY <1>3 DEF RetryQueue
  <1>4. CASE UNCHANGED queue
    BY <1>4
  <1>5. ASSUME NEW w \in Controllers, WriteGardenConfigMap(w)
        PROVE  s \in queue'
    BY <1>5 DEF WriteGardenConfigMap
  <1>6. ASSUME NEW n \in Names, Tamper(n)
        PROVE  s \in queue'
    BY <1>6 DEF Tamper
  <1>7. ASSUME NEW w \in Controllers, RestartShootController(w)
        PROVE  s \in queue'
    BY <1>7 DEF RestartShootController
  <1>8. ASSUME NEW w \in Controllers, ReadGreenhouseConfigMap(w) \/ LabelShoot(w) \/ UpdateShootSpec(w)
                                        \/ AnnotateShootForReconcile(w) \/ PassFails(w) \/ PassAborted(w)
        PROVE  s \in queue'
    BY <1>2, <1>3, <1>4, <1>8
    DEF ReadGreenhouseConfigMap, LabelShoot, UpdateShootSpec, AnnotateShootForReconcile, PassFails,
        PassAborted
  <1>9. ASSUME NEW t \in Shoots, GardenerReconciles(t) \/ SetReference(t)
        PROVE  s \in queue'
    BY <1>2, <1>9 DEF GardenerReconciles, SetReference
  <1>10. CASE SameAuthConfigMap \/ AuthChanges \/ UNCHANGED vars
    BY <1>4, <1>10 DEF SameAuthConfigMap, AuthChanges, vars, controllerVars
  <1>11. QED
    BY <1>1, <1>5, <1>6, <1>7, <1>8, <1>9, <1>10 DEF Next, Step

(* A Shoot that has the content keeps it or comes back.                     *)
LEMMA CopiedKept ==
  ASSUME Objects, [Next]_vars, hash' = hash, NEW s \in Shoots, Copied(s)
  PROVE  s \in queue' \/ Copied(s)'
  <1> SUFFICES ASSUME s \notin queue' PROVE Copied(s)'
    OBVIOUS
  <1>1. shoot'[s] = shoot[s]
    BY ShootStep
  <1>2. shoot[s].labelled /\ shoot[s].ref \in Names
    BY DEF Copied, Objects, TypeOK, Shoot
  <1>3. cm'[shoot[s].ref].content = cm[shoot[s].ref].content
    BY <1>2, ContentNoticed
  <1>4. QED
    BY <1>1, <1>3 DEF Copied

(* So does the Shoot that the live controller works on, while others act.   *)
LEMMA UnderWayKept ==
  ASSUME Objects, [Next]_vars, hash' = hash, live' = live, work'[live] = work[live],
         NEW s \in Shoots, UnderWay(s)
  PROVE  s \in queue' \/ UnderWay(s)'
  <1> SUFFICES ASSUME s \notin queue' PROVE UnderWay(s)'
    OBVIOUS
  <1> DEFINE p == work[live]
  <1>1. shoot'[s] = shoot[s]
    BY ShootStep
  <1>2. p.pc \in {"label", "spec"} => p.name \in Names
    BY DEF Objects, TypeOK, Pass, PassHolds
  <1>3. p.pc \in {"label", "spec"} /\ shoot[s].labelled => cm'[p.name].content = cm[p.name].content
    BY <1>2, ContentNoticed
  <1>4. QED
    BY <1>1, <1>3 DEF UnderWay

(* A step of the live controller leads the Shoot it works on to the content *)
(* or brings it back.                                                       *)
LEMMA LiveStep ==
  ASSUME Objects, [Next]_vars, hash' = hash, live' = live, hash # None, ~astray',
         Step(live), NEW s \in Shoots, UnderWay(s)
  PROVE  s \in queue' \/ Copied(s)' \/ UnderWay(s)'
  <1> SUFFICES ASSUME s \notin queue' PROVE Copied(s)' \/ UnderWay(s)'
    OBVIOUS
  <1> DEFINE p == work[live]
  <1>1. shoot'[s] = shoot[s] /\ shoot[s] \in Shoot
    BY ShootStep DEF Objects, TypeOK
  <1>2. /\ live \in Controllers /\ work \in [Controllers -> Pass] /\ p \in Pass /\ PassHolds(live)
        /\ p.pc # "idle" /\ p.shoot = s /\ p.read = shoot[s] /\ Current(live) = s
    BY DEF Objects, TypeOK, UnderWay, Current
  (* Without a content the request comes back; another one leads astray. *)
  <1>3. CASE ReadGreenhouseConfigMap(live)
    <2>1. auth # None
      BY <1>2, <1>3 DEF ReadGreenhouseConfigMap, RetryQueue
    <2>2. auth = hash
      BY <1>3, <2>1 DEF ReadGreenhouseConfigMap
    <2>3. PICK q \in Pass :
            /\ work' = [work EXCEPT ![live] = q]
            /\ q.pc = "configmap" /\ q.shoot = p.shoot /\ q.read = p.read /\ q.content = auth
      BY <1>2, <1>3, <2>1, ReadPass DEF Objects
    <2>4. work'[live] = q
      BY <1>2, <2>3
    <2>5. QED
      BY <1>1, <1>2, <2>2, <2>3, <2>4 DEF UnderWay
  <1>4. CASE WriteGardenConfigMap(live)
    <2>1. PICK q \in Pass :
            /\ work' = [work EXCEPT ![live] = q]
            /\ q.pc = "label" /\ q.shoot = p.shoot /\ q.read = p.read /\ q.name = p.name
      BY <1>2, <1>4, WritePass DEF Objects
    <2>2. work'[live] = q
      BY <1>2, <2>1
    <2>3. p.content = hash
      BY <1>4 DEF WriteGardenConfigMap, UnderWay
    <2>4. cm'[q.name].content = hash
      BY <1>2, <1>4, <2>1, <2>3, ConfigMapWritten DEF Objects
    <2>5. QED
      BY <1>1, <1>2, <2>1, <2>2, <2>3, <2>4 DEF UnderWay
  <1>5. CASE LabelShoot(live)
    <2>1. PICK q \in Pass :
            /\ work' = [work EXCEPT ![live] = q]
            /\ q.pc = "spec" /\ q.shoot = p.shoot /\ q.name = p.name
            /\ \/ /\ ~p.read.labelled
                  /\ q.read = [shoot[q.shoot] EXCEPT !.labelled = TRUE]
                  /\ ShootBecomes(q.shoot, q.read)
               \/ p.read.labelled /\ q.read = p.read /\ UNCHANGED <<shoot, queue>>
      BY <1>2, <1>5, LabelPass DEF Objects
    <2>2. work'[live] = q
      BY <1>2, <2>1
    (* A new label is an event of the Shoot. *)
    <2>3. CASE ~p.read.labelled
      <3>1. [shoot[s] EXCEPT !.labelled = TRUE] # shoot[s]
        BY <1>1, <1>2, <2>3 DEF Shoot
      <3>2. ShootBecomes(s, [shoot[s] EXCEPT !.labelled = TRUE])
        BY <1>2, <2>1, <2>3
      <3>3. s \in queue'
        BY <3>1, <3>2 DEF ShootBecomes
      <3>4. QED
        BY <3>3
    <2>4. CASE p.read.labelled
      <3>1. q.read = shoot[s] /\ shoot[s].labelled
        BY <1>2, <2>1, <2>4
      <3>2. cm[p.name].content = hash
        BY <1>5, <3>1 DEF UnderWay, LabelShoot
      <3>3. cm' = cm
        BY <1>5 DEF LabelShoot
      <3>4. QED
        BY <1>1, <1>2, <2>1, <2>2, <3>1, <3>2, <3>3 DEF UnderWay
    <2>5. QED
      BY <2>3, <2>4
  (* A new reference is an event of the Shoot, and so is what a conflict is about. *)
  <1>6. CASE UpdateShootSpec(live)
    <2>1. /\ p.read.ref # p.name /\ p.name \in Names
          /\ ShootBecomes(s, [shoot[s] EXCEPT !.ref = p.name])
      BY <1>2, <1>6 DEF UpdateShootSpec, NeedsUpdate, PassHolds, Pass
    <2>2. [shoot[s] EXCEPT !.ref = p.name] # shoot[s]
      BY <1>1, <1>2, <2>1 DEF Shoot
    <2>3. s \in queue'
      BY <2>1, <2>2 DEF ShootBecomes
    <2>4. QED
      BY <2>3
  <1>7. CASE AnnotateShootForReconcile(live)
    <2>1. shoot[s].ref = p.name /\ cm' = cm
      BY <1>2, <1>7 DEF AnnotateShootForReconcile, NeedsUpdate
    <2>2. p.name # None /\ shoot[s].labelled /\ cm[p.name].content = hash
      BY <1>2, <1>7 DEF AnnotateShootForReconcile, PassHolds, UnderWay
    <2>3. QED
      BY <1>1, <2>1, <2>2 DEF Copied
  <1>8. QED
    BY <1>3, <1>4, <1>5, <1>6, <1>7 DEF Step

LEMMA CopyInit == Init => CopyHolds
  BY DEF Init, CopyHolds

(* A change of the content makes a reconcile due, and only one that finds   *)
(* the present content or none puts an end to that.                         *)
LEMMA DueStep ==
  ASSUME Objects, auth \notin {hash, None} => due, [Next]_vars
  PROVE  auth' \notin {hash', None} => due'
  <1> USE DEF reconcilerVars
  <1>1. CASE AuthChanges
    BY <1>1 DEF AuthChanges
  <1>2. ASSUME NEW w \in Controllers, RestartShootController(w)
        PROVE  auth' = hash'
    BY <1>2 DEF RestartShootController
  <1>3. CASE SameAuthConfigMap
    BY <1>3 DEF SameAuthConfigMap
  <1>4. CASE UNCHANGED <<auth, hash, due>>
    BY <1>4
  <1>5. QED
    BY <1>1, <1>2, <1>3, <1>4
    DEF Next, Step, Begin, ReadGreenhouseConfigMap, WriteGardenConfigMap, LabelShoot,
        UpdateShootSpec, AnnotateShootForReconcile, PassFails, PassAborted, GardenerReconciles,
        SetReference, Tamper, vars

LEMMA CopyStep == ASSUME Objects, CopyHolds, [Next]_vars PROVE CopyHolds'
  <1> USE DEF controllerVars, reconcilerVars
  <1> DEFINE Kept == hash # None /\ ~astray =>
                       \A s \in Shoots : s \in queue \/ Copied(s) \/ UnderWay(s)
  <1>1. CASE AuthChanges \/ SameAuthConfigMap \/ UNCHANGED vars
    <2>1. UNCHANGED <<hash, astray, cm, shoot, live, queue, work>>
      BY <1>1 DEF AuthChanges, SameAuthConfigMap, vars, gardenVars
    <2>2. Kept'
      BY <2>1 DEF CopyHolds, Copied, UnderWay
    <2>3. QED
      BY <2>2, DueStep DEF CopyHolds
  <1>2. ASSUME NEW w \in Controllers, RestartShootController(w)
        PROVE  CopyHolds'
    BY <1>2, DueStep DEF RestartShootController, CopyHolds
  <1>3. ASSUME ~AuthChanges, ~SameAuthConfigMap,
               \A w \in Controllers : ~RestartShootController(w), Next
        PROVE  CopyHolds'
    <2>1. UNCHANGED <<hash, live>> /\ (astray => astray')
      <3>1. ASSUME NEW w \in Controllers, ReadGreenhouseConfigMap(w)
            PROVE  UNCHANGED <<hash, live>> /\ (astray => astray')
        <4>1. UNCHANGED <<hash, live>>
          BY <3>1 DEF ReadGreenhouseConfigMap
        <4>2. CASE astray' = (astray \/ (w = live /\ auth # hash))
          BY <4>1, <4>2, Zenon
        <4>3. CASE UNCHANGED astray
          BY <4>1, <4>3, Zenon
        <4>4. QED
          BY <3>1, <4>2, <4>3, Zenon DEF ReadGreenhouseConfigMap
      <3>2. CASE UNCHANGED <<hash, live, astray>>
        BY <3>2
      <3>3. QED
        BY <1>3, <3>1, <3>2
        DEF Next, Step, Begin, WriteGardenConfigMap, LabelShoot, UpdateShootSpec,
            AnnotateShootForReconcile, PassFails, PassAborted, GardenerReconciles, SetReference,
            Tamper
    <2> SUFFICES ASSUME hash # None, ~astray', NEW s \in Shoots,
                        s \in queue \/ Copied(s) \/ UnderWay(s)
                 PROVE  s \in queue' \/ Copied(s)' \/ UnderWay(s)'
      BY <2>1, DueStep DEF CopyHolds
    <2>2. live \in Controllers /\ work \in [Controllers -> Pass]
      BY DEF Objects, TypeOK
    <2>3. CASE Begin(s)
      <3>1. PICK p \in Pass :
              /\ work' = [work EXCEPT ![live] = p]
              /\ p.pc = "read" /\ p.shoot = s /\ p.read = shoot[s]
        BY <2>3, BeginPass DEF Objects
      <3>2. work'[live] = p
        BY <2>2, <3>1
      <3>3. shoot' = shoot
        BY <2>3 DEF Begin, gardenVars
      <3>4. QED
        BY <2>1, <3>1, <3>2, <3>3 DEF UnderWay
    <2>4. CASE s \in queue /\ ~Begin(s)
      BY <2>4, QueueKept
    <2>5. CASE Copied(s)
      BY <2>1, <2>5, CopiedKept
    <2>6. CASE UnderWay(s) /\ ~Begin(s)
      <3>1. work[live].pc # "idle" /\ Current(live) = s
        BY <2>6 DEF UnderWay, Current
      <3>2. CASE work'[live] = work[live]
        BY <2>1, <2>6, <3>2, UnderWayKept
      <3>3. CASE Step(live)
        BY <2>1, <2>6, <3>3, LiveStep
      <3>4. CASE PassFails(live)
        BY <3>1, <3>4 DEF PassFails, RetryQueue
      <3>5. ASSUME NEW w \in Controllers, w # live, Step(w) \/ PassFails(w) \/ PassAborted(w)
            PROVE  work'[live] = work[live]
        <4>1. PassHolds(w)
          BY <3>5 DEF Objects
        <4>2. CASE ReadGreenhouseConfigMap(w)
          BY <2>2, <3>5, <4>2 DEF ReadGreenhouseConfigMap, Finish
        <4>3. CASE WriteGardenConfigMap(w)
          BY <2>2, <3>5, <4>3 DEF WriteGardenConfigMap
        <4>4. CASE LabelShoot(w)
          BY <2>2, <3>5, <4>4 DEF LabelShoot
        <4>5. CASE Finish(w)
          BY <2>2, <3>5, <4>5 DEF Finish
        <4>6. QED
          BY <3>5, <4>2, <4>3, <4>4, <4>5
          DEF Step, UpdateShootSpec, AnnotateShootForReconcile, PassFails, PassAborted
      <3>6. ASSUME NEW t \in Shoots, Begin(t)
            PROVE  FALSE
        BY <3>1, <3>6 DEF Begin
      <3>7. ~PassAborted(live)
        BY DEF PassAborted
      <3>8. CASE UNCHANGED work
        BY <3>2, <3>8
      <3>9. QED
        BY <1>3, <2>2, <3>2, <3>3, <3>4, <3>5, <3>6, <3>7, <3>8
        DEF Next, GardenerReconciles, SetReference, Tamper
    <2>7. QED
      BY <2>3, <2>4, <2>5, <2>6
  <1>4. QED
    BY <1>1, <1>2, <1>3

-----------------------------------------------------------------------------
(* Theorems of the specification.                                           *)

(* Passes, ConfigMaps and references fit each other, and no Shoot is        *)
(* forgotten by ConfigureOIDCAuthentication and the watches that bring      *)
(* Shoots back to it.                                                       *)
THEOREM AuthInvariant == Spec => []IInv
  <1>1. Init => IInv
    BY ObjectsInit, CopyInit DEF IInv
  <1>2. IInv /\ [Next]_vars => IInv'
    BY ObjectsStep, CopyStep DEF IInv
  <1>3. QED
    BY <1>1, <1>2, PTL DEF Spec

(* Every variable of the OIDC configuration keeps its type.                 *)
THEOREM AuthTypes == Spec => []TypeOK
  <1>1. IInv => TypeOK
    BY DEF IInv, Objects
  <1>2. QED
    BY <1>1, AuthInvariant, PTL

(* A live controller at rest has copied the Greenhouse content for every    *)
(* Shoot, whatever replaced controllers, users and failing calls do and     *)
(* however often the content changes and changes back, unless it read a     *)
(* content that the CareInstruction controller never compared.              *)
THEOREM RestingCopied == Spec => []AtRestCopied
  <1>1. IInv => AtRestCopied
    <2> SUFFICES ASSUME IInv, queue = {}, work[live].pc = "idle", ~due, ~astray, auth # None,
                        NEW s \in Shoots
                 PROVE  /\ shoot[s].labelled /\ shoot[s].ref # None
                        /\ cm[shoot[s].ref].content = auth
      BY DEF AtRestCopied
    <2>1. auth = hash
      BY DEF IInv, CopyHolds
    <2>2. Copied(s)
      BY <2>1 DEF IInv, CopyHolds, UnderWay
    <2>3. QED
      BY <2>1, <2>2 DEF Copied
  <1>2. QED
    BY <1>1, AuthInvariant, PTL

(* The ConfigMap is written before the reference to it, by every controller *)
(* and in every interleaving of two of them.                                *)
THEOREM NeverDangling == Spec => []NoDanglingReference
  <1>1. IInv => NoDanglingReference
    BY DEF IInv, Objects
  <1>2. QED
    BY <1>1, AuthInvariant, PTL
=============================================================================
