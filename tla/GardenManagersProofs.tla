------------------------ MODULE GardenManagersProofs ------------------------
(***************************************************************************)
(* Proofs about GardenManagers, for any CareInstructions, specs, gardens,  *)
(* managers and bounds: the variables keep their types, and no shoot       *)
(* controller is ever doubled or orphaned.                                 *)
(***************************************************************************)
EXTENDS GardenManagers, TLAPS

-----------------------------------------------------------------------------
(* Facts about the operators the module is built from.                      *)

(* A spec the API server can hold exists, and its fields have their types.  *)
LEMMA SpecTypes ==
  /\ DefaultSpec \in Specs
  /\ \A s \in Specs : s.garden \in Gardens /\ s.auth \in AuthNames \cup {None}
BY ConstantsAssumption DEF DefaultSpec

(* The keys of a CareInstruction are keys of the maps.                      *)
LEMMA KeyTypes ==
  ASSUME NEW c \in CareInstructions, NEW s \in Specs
  PROVE  /\ GardenKey(c) \in Keys
         /\ AccessKey(c, s) \in Namespaces \X Gardens
         /\ s.auth # None => AuthKey(c, s) \in Namespaces \X AuthNames
BY SpecTypes DEF GardenKey, Keys, AccessKey, AuthKey, Namespaces

(* namespace + "/" + name tells CareInstructions apart.                     *)
LEMMA KeyInjective ==
  ASSUME NEW c \in CareInstructions, NEW d \in CareInstructions,
         GardenKey(c) = GardenKey(d)
  PROVE  c = d
<1>1. /\ c \in [namespace : STRING, name : STRING]
      /\ d \in [namespace : STRING, name : STRING]
  BY ConstantsAssumption
<1>2. c.namespace = d.namespace /\ c.name = d.name
  BY DEF GardenKey
<1> QED BY <1>1, <1>2

(* The values that stand for nothing have their types.                      *)
LEMMA NoValueTypes ==
  /\ NewStatus \in Status
  /\ NoCareInstruction \in CareInstruction
  /\ \A s \in Specs : New(s) \in CareInstruction
  /\ NoGarden \in Garden
  /\ NoManager \in Manager
<1>1. NewStatus \in Status
  BY DEF NewStatus, Status
<1>2. NoCareInstruction \in CareInstruction
  BY <1>1, SpecTypes DEF NoCareInstruction, CareInstruction
<1>3. ASSUME NEW s \in Specs PROVE New(s) \in CareInstruction
  BY <1>2 DEF New, CareInstruction
<1>4. NoGarden \in Garden
  BY SpecTypes DEF NoGarden, Garden
<1>5. NoManager \in Manager
  BY SpecTypes DEF NoManager, Manager
<1> QED BY <1>1, <1>2, <1>3, <1>4, <1>5

(* The functions on the status yield statuses.                              *)
LEMMA StatusTypes ==
  ASSUME NEW st \in Status, NEW want \in Status, NEW server \in Status
  PROVE  /\ InitializeConditionsToUnknown(st) \in Status
         /\ ReconcileStatus(st) \in Status
         /\ MergeStatus(st, want, server) \in Status
         /\ RefreshStatus(st, server) \in Status
         /\ RestartedStatus(st) \in Status
<1>1. InitializeConditionsToUnknown(st) \in Status
  <2>1. /\ Known(st.access) \in {"Absent", "Unknown", "True", "False"}
        /\ Known(st.started) \in {"Absent", "Unknown", "True", "False"}
        /\ Known(st.synced) \in {"Absent", "Unknown", "True", "Mismatch", "Error"}
    BY DEF Known, Status
  <2>2. ASSUME NEW s \in Status, NEW a \in {"Absent", "Unknown", "True", "False"}
        PROVE  [s EXCEPT !.access = a] \in Status
    BY DEF Status
  <2>3. ASSUME NEW s \in Status, NEW a \in {"Absent", "Unknown", "True", "False"}
        PROVE  [s EXCEPT !.started = a] \in Status
    BY DEF Status
  <2>4. ASSUME NEW s \in Status,
               NEW a \in {"Absent", "Unknown", "True", "Mismatch", "Error"}
        PROVE  [s EXCEPT !.synced = a] \in Status
    BY DEF Status
  <2> QED BY <2>1, <2>2, <2>3, <2>4 DEF InitializeConditionsToUnknown
<1>2. ReconcileStatus(st) \in Status
  BY DEF ReconcileStatus, Status
<1>3. MergeStatus(st, want, server) \in Status
  BY DEF MergeStatus, Status
<1>4. RefreshStatus(st, server) \in Status
  BY DEF RefreshStatus
<1>5. RestartedStatus(st) \in Status
  BY DEF RestartedStatus, Status
<1> QED BY <1>1, <1>2, <1>3, <1>4, <1>5

-----------------------------------------------------------------------------
(* Type correctness.                                                        *)

(* The initial states have the types.                                       *)
LEMMA TypeInit == Init => TypeOK
<1> SUFFICES ASSUME Init PROVE TypeOK
  OBVIOUS
<1>1. ServerTypes
  BY NoValueTypes DEF Init, ServerTypes
<1>2. GardenTypes
  BY NoValueTypes DEF Init, GardenTypes, NoManager
<1>3. WorldTypes
  <2>1. FirstConfigMap \in [exists : BOOLEAN, data : Nat, labelled : BOOLEAN]
    BY ConstantsAssumption DEF FirstConfigMap
  <2> QED BY <2>1 DEF Init, WorldTypes
<1>4. WorkerTypes
  BY NoValueTypes DEF Init, IdleWorker, WorkerTypes
<1>5. BoundTypes
  BY ConstantsAssumption DEF Init, BoundTypes
<1> QED BY <1>1, <1>2, <1>3, <1>4, <1>5 DEF TypeOK

(* A part of the types is kept by a step that leaves its variables alone,   *)
(* the bounds by every step that counts.                                    *)
LEMMA TypeUnchanged ==
  ASSUME TypeOK
  PROVE  /\ UNCHANGED serverVars => ServerTypes'
         /\ UNCHANGED <<gardens, mgr>> => GardenTypes'
         /\ UNCHANGED worldVars => WorldTypes'
         /\ UNCHANGED workerVars => WorkerTypes'
         /\ NoFault \/ Fault \/ Edit => BoundTypes'
<1>1. UNCHANGED serverVars => ServerTypes'
  BY DEF TypeOK, ServerTypes, serverVars
<1>2. UNCHANGED <<gardens, mgr>> => GardenTypes'
  BY DEF TypeOK, GardenTypes
<1>3. UNCHANGED worldVars => WorldTypes'
  BY DEF TypeOK, WorldTypes, worldVars
<1>4. UNCHANGED workerVars => WorkerTypes'
  BY DEF TypeOK, WorkerTypes, workerVars
<1>5. NoFault \/ Fault \/ Edit => BoundTypes'
  BY ConstantsAssumption DEF TypeOK, BoundTypes, NoFault, Fault, Edit, boundVars
<1> QED BY <1>1, <1>2, <1>3, <1>4, <1>5

(* The worker is idle again.                                                *)
LEMMA TypeIdle == IdleWorkerNext => WorkerTypes'
BY NoValueTypes DEF IdleWorkerNext, WorkerTypes

(* What a worker that is not idle works on.                                 *)
LEMMA TypeBusy ==
  ASSUME TypeOK, pc # "idle"
  PROVE  /\ cur \in CareInstructions
         /\ GardenKey(cur) \in Keys
         /\ entry \in Garden
         /\ ci[cur] \in CareInstruction /\ ci[cur].spec \in Specs /\ ci[cur].st \in Status
         /\ obj \in CareInstruction /\ obj.spec \in Specs /\ obj.st \in Status
<1>1. cur \in CareInstructions
  BY DEF TypeOK, WorkerTypes
<1>2. GardenKey(cur) \in Keys
  BY <1>1 DEF GardenKey, Keys
<1>3. entry \in Garden
  BY <1>2 DEF TypeOK, GardenTypes, entry
<1>4. ci[cur] \in CareInstruction
  BY <1>1 DEF TypeOK, ServerTypes
<1>5. obj \in CareInstruction
  BY DEF TypeOK, WorkerTypes
<1> QED BY <1>1, <1>2, <1>3, <1>4, <1>5 DEF CareInstruction

(* The content of a ConfigMap, or None.                                     *)
LEMMA TypeHash ==
  ASSUME TypeOK, NEW c \in CareInstructions, NEW s \in Specs
  PROVE  /\ UsesConfigMap(c, s) => AuthKey(c, s) \in Namespaces \X AuthNames
         /\ AuthHash(c, s) \in Nat \cup {None}
BY KeyTypes DEF TypeOK, WorldTypes, UsesConfigMap, AuthHash

(* The object with another status, or without its annotation.               *)
LEMMA TypeObject ==
  ASSUME NEW o \in CareInstruction, NEW st \in Status, NEW s \in Specs
  PROVE  /\ [o EXCEPT !.st = st] \in CareInstruction
         /\ [o EXCEPT !.annotated = FALSE, !.spec = s, !.st = st] \in CareInstruction
BY DEF CareInstruction

(* Cancelling a manager.                                                    *)
LEMMA TypeCancel ==
  ASSUME TypeOK, NEW m
  PROVE  /\ Cancel(m) \in [Managers -> Manager]
         /\ \A n \in Managers : Cancel(m)[n].running => Cancel(m)[n].owner # None
BY DEF TypeOK, GardenTypes, Cancel, Manager

(* Taking a key from the queue and entering EnsureCreated or EnsureDeleted. *)
LEMMA TypeBegin ==
  ASSUME TypeOK, NEW c \in CareInstructions, Begin(c)
  PROVE  TypeOK'
<1>1. c # None /\ seen[c] \in CareInstruction /\ seen[c].st \in Status
  BY ConstantsAssumption DEF TypeOK, ServerTypes, CareInstruction
<1>2. CASE BeginNotFound(c)
  <2>1. ServerTypes'
    BY <1>2 DEF BeginNotFound, TypeOK, ServerTypes
  <2> QED BY <1>2, <2>1, TypeUnchanged
          DEF BeginNotFound, TypeOK, NoFault, boundVars, worldVars, workerVars
<1>3. CASE BeginCreate(c)
  <2>1. ServerTypes'
    <3>1. [ci EXCEPT ![c].finalizer = TRUE] \in [CareInstructions -> CareInstruction]
      BY DEF TypeOK, ServerTypes, CareInstruction
    <3> QED BY <1>3, <3>1 DEF BeginCreate, TypeOK, ServerTypes
  <2>2. [seen[c] EXCEPT !.st = InitializeConditionsToUnknown(@)] \in CareInstruction
    <3>1. InitializeConditionsToUnknown(seen[c].st) \in Status
      BY <1>1, StatusTypes
    <3> QED BY <1>1, <3>1, TypeObject, SpecTypes
  <2>3. WorkerTypes'
    BY <1>1, <1>3, <2>2 DEF BeginCreate, TypeOK, WorkerTypes
  <2> QED BY <1>3, <2>1, <2>3, TypeUnchanged DEF BeginCreate, TypeOK, NoFault
<1>4. CASE BeginDelete(c)
  <2>1. ServerTypes'
    BY <1>4 DEF BeginDelete, TypeOK, ServerTypes
  <2>2. WorkerTypes'
    BY <1>1, <1>4 DEF BeginDelete, TypeOK, WorkerTypes
  <2> QED BY <1>4, <2>1, <2>2, TypeUnchanged DEF BeginDelete, TypeOK, NoFault
<1> QED BY <1>2, <1>3, <1>4 DEF Begin

(* reconcileManager and what precedes it.                                   *)
LEMMA TypeReconcileManager ==
  ASSUME TypeOK,
         \/ EnsureAuthConfigMapLabeled \/ EnsureGardenEntry \/ EnsureGardenEntryFails
         \/ AccessError \/ KeepManager \/ StopManager
         \/ StartManager \/ StartManagerFails
  PROVE  TypeOK'
<1>1. pc # "idle"
  BY DEF At, EnsureAuthConfigMapLabeled, EnsureGardenEntry, EnsureGardenEntryFails,
         AccessError, KeepManager, StopManager, StartManager, StartManagerFails
<1>2. CASE EnsureAuthConfigMapLabeled
  <2>1. WorldTypes'
    <3>1. UsesConfigMap(cur, obj.spec) =>
            [authCM EXCEPT ![AuthKey(cur, obj.spec)].labelled = TRUE] \in
              [Namespaces \X AuthNames ->
                 [exists : BOOLEAN, data : Nat, labelled : BOOLEAN]]
      BY <1>1, TypeBusy, TypeHash DEF TypeOK, WorldTypes
    <3> QED BY <1>2, <3>1 DEF EnsureAuthConfigMapLabeled, TypeOK, WorldTypes
  <2>2. WorkerTypes'
    BY <1>1, <1>2 DEF EnsureAuthConfigMapLabeled, TypeOK, WorkerTypes
  <2> QED BY <1>2, <2>1, <2>2, TypeUnchanged DEF EnsureAuthConfigMapLabeled, TypeOK
<1>3. CASE EnsureGardenEntry
  <2>1. GardenTypes'
    <3>1. [NoGarden EXCEPT !.exists = TRUE, !.spec = obj.spec,
                           !.hash = AuthHash(cur, obj.spec)] \in Garden
      BY <1>1, TypeBusy, TypeHash, NoValueTypes DEF Garden
    <3> QED BY <1>3, <3>1 DEF EnsureGardenEntry, TypeOK, GardenTypes
  <2>2. WorkerTypes'
    BY <1>1, <1>3 DEF EnsureGardenEntry, TypeOK, WorkerTypes
  <2> QED BY <1>3, <2>1, <2>2, TypeUnchanged DEF EnsureGardenEntry, TypeOK
<1>4. ASSUME NEW st \in Status, ManagerError(st), UNCHANGED <<cur, orig, cfg, alias>>
      PROVE  WorkerTypes'
  <2>1. [st EXCEPT !.started = "False"] \in Status
    BY <1>4 DEF Status
  <2>2. obj' \in CareInstruction
    BY <1>1, <1>4, <2>1, TypeBusy, TypeObject DEF ManagerError
  <2> QED BY <1>1, <1>4, <2>2 DEF ManagerError, TypeOK, WorkerTypes
<1>5. CASE EnsureGardenEntryFails
  <2>1. WorkerTypes'
    BY <1>1, <1>4, <1>5, TypeBusy DEF EnsureGardenEntryFails
  <2> QED BY <1>5, <2>1, TypeUnchanged DEF EnsureGardenEntryFails, TypeOK
<1>6. CASE AccessError
  <2>1. [obj.st EXCEPT !.access = "False"] \in Status
    BY <1>1, TypeBusy DEF Status
  <2>2. WorkerTypes'
    BY <1>4, <1>6, <2>1 DEF AccessError
  <2> QED BY <1>6, <2>2, TypeUnchanged DEF AccessError, TypeOK
<1>7. CASE StartManagerFails
  <2>1. WorkerTypes'
    BY <1>1, <1>4, <1>7, TypeBusy DEF StartManagerFails
  <2> QED BY <1>7, <2>1, TypeUnchanged DEF StartManagerFails, TypeOK
<1>8. [obj EXCEPT !.st.access = "True"] \in CareInstruction
      /\ [obj EXCEPT !.st.started = "True"] \in CareInstruction
  BY <1>1, TypeBusy DEF CareInstruction, Status
<1>9. CASE KeepManager
  <2>1. WorkerTypes'
    BY <1>1, <1>8, <1>9 DEF KeepManager, ShootsNClusters, TypeOK, WorkerTypes
  <2> QED BY <1>9, <2>1, TypeUnchanged DEF KeepManager, TypeOK, NoFault
<1>10. CASE StopManager
  <2>1. access[AccessKey(cur, obj.spec)].config \in Configs \cup {None}
    BY <1>1, TypeBusy, KeyTypes DEF TypeOK, WorldTypes
  <2>2. WorkerTypes'
    BY <1>1, <1>8, <1>10, <2>1 DEF StopManager, TypeOK, WorkerTypes
  <2>3. GardenTypes'
    BY <1>10, TypeCancel DEF StopManager, TypeOK, GardenTypes
  <2> QED BY <1>10, <2>2, <2>3, TypeUnchanged DEF StopManager, TypeOK, NoFault
<1>11. CASE StartManager
  <2>1. PICK m \in Managers :
          /\ mgr' = [mgr EXCEPT ![m] =
               [running |-> TRUE, cancelled |-> FALSE, owner |-> cur,
                spec |-> obj.spec, auth |-> None]]
          /\ gardens' = [gardens EXCEPT ![GardenKey(cur)] =
               [@ EXCEPT !.mgr = m, !.run = m, !.config = cfg, !.spec = obj.spec]]
    BY <1>11 DEF StartManager
  <2>2. mgr' \in [Managers -> Manager]
    <3>1. [running |-> TRUE, cancelled |-> FALSE, owner |-> cur,
           spec |-> obj.spec, auth |-> None] \in Manager
      BY <1>1, TypeBusy DEF Manager
    <3> QED BY <2>1, <3>1 DEF TypeOK, GardenTypes
  <2>3. gardens' \in [Keys -> Garden]
    <3>1. cfg \in Configs \cup {None}
      BY DEF TypeOK, WorkerTypes
    <3>2. [gardens[GardenKey(cur)] EXCEPT !.mgr = m, !.run = m, !.config = cfg,
                                          !.spec = obj.spec] \in Garden
      BY <1>1, <3>1, TypeBusy DEF Garden, entry
    <3> QED BY <2>1, <3>2 DEF TypeOK, GardenTypes
  <2>4. GardenTypes'
    <3>1. cur # None
      BY <1>1 DEF TypeOK, WorkerTypes
    <3> QED BY <2>1, <2>2, <2>3, <3>1 DEF TypeOK, GardenTypes
  <2>5. WorkerTypes'
    BY <1>1, <1>8, <1>11 DEF StartManager, ShootsNClusters, TypeOK, WorkerTypes
  <2> QED BY <1>11, <2>4, <2>5, TypeUnchanged DEF StartManager, TypeOK, NoFault
<1> QED BY <1>2, <1>3, <1>5, <1>6, <1>7, <1>9, <1>10, <1>11

(* restartShootController, wherever it is called.                           *)
LEMMA TypeRestart ==
  ASSUME TypeOK, pc # "idle", NEW g \in Garden, NEW o \in CareInstruction,
         RestartShootController(g, o)
  PROVE  GardenTypes' /\ obj' \in CareInstruction
<1>1. [g EXCEPT !.mgr = None] \in Garden
  BY DEF Garden
<1>2. RestartedStatus(o.st) \in Status
  BY StatusTypes DEF CareInstruction
<1>3. [o EXCEPT !.st = RestartedStatus(@)] \in CareInstruction
  BY <1>2, TypeObject, SpecTypes
<1>4. GardenTypes'
  BY <1>1, TypeCancel DEF RestartShootController, TypeOK, GardenTypes
<1> QED BY <1>3, <1>4 DEF RestartShootController

(* reconcileShootsNClusters and the write of the status.                    *)
LEMMA TypeReconcileShoots ==
  ASSUME TypeOK,
         \/ HandleReconcileAnnotation \/ CheckAuthConfigMap \/ CompareClusters
         \/ HandleReconcileAnnotationFails \/ CheckAuthConfigMapFails
         \/ CompareClustersFails \/ PatchStatus \/ PatchStatusFails
  PROVE  TypeOK'
<1>1. pc # "idle"
  BY DEF At, HandleReconcileAnnotation, CheckAuthConfigMap, CompareClusters, SyncFails,
         HandleReconcileAnnotationFails, CheckAuthConfigMapFails,
         CompareClustersFails, PatchStatus, PatchStatusFails
<1>2. CASE HandleReconcileAnnotation
  <2> DEFINE g == [entry EXCEPT !.spec = IF alias THEN ci[cur].spec ELSE @]
             o == [obj EXCEPT !.annotated = FALSE, !.spec = ci[cur].spec,
                              !.st = RefreshStatus(@, ci[cur].st)]
  <2>1. g \in Garden
    BY <1>1, TypeBusy DEF Garden
  <2>2. o \in CareInstruction
    <3>1. RefreshStatus(obj.st, ci[cur].st) \in Status
      BY <1>1, TypeBusy DEF RefreshStatus
    <3> QED BY <1>1, <3>1, TypeBusy, TypeObject
  <2>3. RestartShootController(g, o)
    BY <1>2 DEF HandleReconcileAnnotation
  <2>4. GardenTypes' /\ obj' \in CareInstruction
    <3> HIDE DEF g, o
    <3> QED BY <1>1, <2>1, <2>2, <2>3, TypeRestart
  <2>5. ServerTypes'
    <3>1. [ci EXCEPT ![cur].annotated = FALSE] \in [CareInstructions -> CareInstruction]
      BY DEF TypeOK, ServerTypes, CareInstruction
    <3> QED BY <1>2, <3>1 DEF HandleReconcileAnnotation, TypeOK, ServerTypes
  <2>6. WorkerTypes'
    BY <1>1, <1>2, <2>4 DEF HandleReconcileAnnotation, TypeOK, WorkerTypes
  <2> QED BY <1>2, <2>4, <2>5, <2>6, TypeUnchanged
          DEF HandleReconcileAnnotation, TypeOK, NoFault
<1>3. CASE CheckAuthConfigMap
  <2> DEFINE g == [entry EXCEPT !.hash = AuthHash(cur, obj.spec)]
  <2>1. g \in Garden
    BY <1>1, TypeBusy, TypeHash DEF Garden
  <2>2. GardenTypes' /\ obj' \in CareInstruction
    <3>1. CASE RestartShootController(g, obj)
      <4> HIDE DEF g
      <4> QED BY <1>1, <2>1, <3>1, TypeBusy, TypeRestart
    <3>2. CASE UNCHANGED <<gardens, mgr, obj>>
      BY <1>1, <3>2, TypeBusy, TypeUnchanged
    <3> QED BY <1>3, <3>1, <3>2 DEF CheckAuthConfigMap
  <2>3. WorkerTypes'
    BY <1>1, <1>3, <2>2 DEF CheckAuthConfigMap, TypeOK, WorkerTypes
  <2> QED BY <1>3, <2>2, <2>3, TypeUnchanged DEF CheckAuthConfigMap, TypeOK, NoFault
<1>4. ASSUME NEW why \in {"True", "Mismatch", "Error"}, SyncError(why),
             UNCHANGED <<cur, orig, cfg, alias, retry>>
      PROVE  WorkerTypes'
  <2>1. [obj EXCEPT !.st.synced = why] \in CareInstruction
    BY <1>1, <1>4, TypeBusy DEF CareInstruction, Status
  <2> QED BY <1>1, <1>4, <2>1 DEF SyncError, TypeOK, WorkerTypes
<1>5. CASE CompareClusters
  <2>1. WorkerTypes'
    BY <1>4, <1>5 DEF CompareClusters
  <2> QED BY <1>5, <2>1, TypeUnchanged DEF CompareClusters, TypeOK, NoFault
<1>6. ASSUME NEW p, SyncFails(p) PROVE TypeOK'
  <2>1. WorkerTypes'
    BY <1>4, <1>6 DEF SyncFails
  <2> QED BY <1>6, <2>1, TypeUnchanged DEF SyncFails, TypeOK
<1>7. CASE PatchStatus
  <2> DEFINE st == MergeStatus(orig, ReconcileStatus(obj.st), ci[cur].st)
  <2>1. st \in Status
    <3>1. ReconcileStatus(obj.st) \in Status /\ orig \in Status /\ ci[cur].st \in Status
      BY <1>1, TypeBusy, StatusTypes DEF TypeOK, WorkerTypes
    <3> QED BY <3>1, StatusTypes
  <2>2. ServerTypes'
    <3>1. ci' = [ci EXCEPT ![cur].st = st]
      BY <1>7 DEF PatchStatus
    <3>2. ci' \in [CareInstructions -> CareInstruction]
      <4> HIDE DEF st
      <4> QED BY <2>1, <3>1 DEF TypeOK, ServerTypes, CareInstruction
    <3> QED BY <1>1, <1>7, <3>2, TypeBusy DEF PatchStatus, TypeOK, ServerTypes
  <2>3. GardenTypes'
    <3>1. [gardens EXCEPT ![GardenKey(cur)].spec = ci[cur].spec] \in [Keys -> Garden]
      BY <1>1, TypeBusy DEF TypeOK, GardenTypes, Garden
    <3> QED BY <1>7, <3>1 DEF PatchStatus, TypeOK, GardenTypes
  <2> QED BY <1>7, <2>2, <2>3, TypeIdle, TypeUnchanged DEF PatchStatus, TypeOK, NoFault
<1>8. CASE PatchStatusFails
  <2>1. ServerTypes'
    BY <1>1, <1>8, TypeBusy DEF PatchStatusFails, TypeOK, ServerTypes
  <2> QED BY <1>8, <2>1, TypeIdle, TypeUnchanged DEF PatchStatusFails, TypeOK
<1> QED BY <1>2, <1>3, <1>5, <1>6, <1>7, <1>8
        DEF HandleReconcileAnnotationFails, CheckAuthConfigMapFails, CompareClustersFails

(* EnsureDeleted and a crash.                                               *)
LEMMA TypeDelete ==
  ASSUME TypeOK,
         CleanupCareInstruction \/ RemoveFinalizer \/ RemoveFinalizerFails \/ Crash
  PROVE  TypeOK'
<1>1. CASE CleanupCareInstruction
  <2>1. GardenTypes'
    BY <1>1, TypeCancel, NoValueTypes DEF CleanupCareInstruction, TypeOK, GardenTypes
  <2>2. WorkerTypes'
    BY <1>1 DEF CleanupCareInstruction, At, TypeOK, WorkerTypes
  <2> QED BY <1>1, <2>1, <2>2, TypeUnchanged DEF CleanupCareInstruction, TypeOK, NoFault
<1>2. CASE RemoveFinalizer
  <2>1. ServerTypes'
    <3>1. [ci EXCEPT ![cur].finalizer = FALSE] \in [CareInstructions -> CareInstruction]
      BY DEF TypeOK, ServerTypes, CareInstruction
    <3>2. [ci EXCEPT ![cur] = NoCareInstruction] \in [CareInstructions -> CareInstruction]
      BY NoValueTypes DEF TypeOK, ServerTypes
    <3> QED BY <1>2, <3>1, <3>2 DEF RemoveFinalizer, TypeOK, ServerTypes
  <2> QED BY <1>2, <2>1, TypeIdle, TypeUnchanged DEF RemoveFinalizer, TypeOK, NoFault
<1>3. CASE RemoveFinalizerFails
  <2>1. pc # "idle"
    BY <1>3 DEF RemoveFinalizerFails, At
  <2>2. ServerTypes'
    BY <1>3, <2>1, TypeBusy DEF RemoveFinalizerFails, TypeOK, ServerTypes
  <2> QED BY <1>3, <2>2, TypeIdle, TypeUnchanged DEF RemoveFinalizerFails, TypeOK
<1>4. CASE Crash
  <2>1. ServerTypes'
    BY <1>4 DEF Crash, TypeOK, ServerTypes
  <2>2. GardenTypes'
    BY <1>4, NoValueTypes DEF Crash, GardenTypes, NoManager
  <2> QED BY <1>4, <2>1, <2>2, TypeIdle, TypeUnchanged DEF Crash, TypeOK
<1> QED BY <1>1, <1>2, <1>3, <1>4

(* The garden managers' own steps.                                          *)
LEMMA TypeManager ==
  ASSUME TypeOK, NEW m \in Managers, ManagerSteps(m)
  PROVE  TypeOK'
<1>1. [mgr EXCEPT ![m].running = FALSE] \in [Managers -> Manager]
  BY DEF TypeOK, GardenTypes, Manager
<1>2. CASE ManagerExits(m)
  <2>1. GardenTypes'
    BY <1>1, <1>2 DEF ManagerExits, TypeOK, GardenTypes
  <2> QED BY <1>2, <2>1, TypeUnchanged DEF ManagerExits, TypeOK, NoFault
<1>3. CASE ManagerDies(m)
  <2>1. GardenTypes'
    BY <1>1, <1>3 DEF ManagerDies, TypeOK, GardenTypes
  <2> QED BY <1>3, <2>1, TypeUnchanged DEF ManagerDies, TypeOK
<1>4. CASE InitialShootPass(m)
  <2> DEFINE c == mgr[m].owner
             s == mgr[m].spec
  <2>1. c \in CareInstructions /\ s \in Specs
    BY <1>4 DEF InitialShootPass, Live, TypeOK, GardenTypes, Manager
  <2>2. UsesConfigMap(c, s) /\ mgr' = [mgr EXCEPT ![m].auth = AuthHash(c, s)]
        /\ authCM' = [authCM EXCEPT ![AuthKey(c, s)].labelled = TRUE]
    BY <1>4 DEF InitialShootPass
  <2> HIDE DEF c, s
  <2>3. GardenTypes'
    <3>1. AuthHash(c, s) \in Nat \cup {None}
      BY <2>1, TypeHash
    <3>2. [mgr EXCEPT ![m].auth = AuthHash(c, s)] \in [Managers -> Manager]
      BY <3>1 DEF TypeOK, GardenTypes, Manager
    <3> QED BY <1>4, <2>2, <3>2 DEF InitialShootPass, TypeOK, GardenTypes, Manager
  <2>4. WorldTypes'
    <3>1. [authCM EXCEPT ![AuthKey(c, s)].labelled = TRUE] \in
            [Namespaces \X AuthNames ->
               [exists : BOOLEAN, data : Nat, labelled : BOOLEAN]]
      BY <2>1, <2>2, TypeHash DEF TypeOK, WorldTypes
    <3> QED BY <1>4, <2>2, <3>1 DEF InitialShootPass, TypeOK, WorldTypes
  <2> QED BY <1>4, <2>3, <2>4, TypeUnchanged DEF InitialShootPass, TypeOK, NoFault
<1> QED BY <1>2, <1>3, <1>4 DEF ManagerSteps

(* The watches of the CareInstructions.                                     *)
LEMMA TypeWatch ==
  ASSUME TypeOK, NEW c \in CareInstructions, Deliver(c) \/ Resync(c)
  PROVE  TypeOK'
<1>1. ServerTypes'
  BY DEF Deliver, Resync, TypeOK, ServerTypes
<1> QED BY <1>1, TypeUnchanged DEF Deliver, Resync, TypeOK, NoFault

(* Users' edits of CareInstructions, and events about its clusters.         *)
LEMMA TypeEdit ==
  ASSUME TypeOK, NEW c \in CareInstructions, CareInstructionEdits(c)
  PROVE  TypeOK'
<1>1. CASE CreateCareInstruction(c)
  <2>1. ServerTypes'
    BY <1>1, NoValueTypes DEF CreateCareInstruction, TypeOK, ServerTypes
  <2> QED BY <1>1, <2>1, TypeUnchanged DEF CreateCareInstruction, TypeOK
<1>2. CASE EditSpec(c)
  <2>1. ServerTypes'
    BY <1>2 DEF EditSpec, TypeOK, ServerTypes, CareInstruction
  <2> QED BY <1>2, <2>1, TypeUnchanged DEF EditSpec, TypeOK
<1>3. CASE Annotate(c)
  <2>1. ServerTypes'
    BY <1>3 DEF Annotate, TypeOK, ServerTypes, CareInstruction
  <2> QED BY <1>3, <2>1, TypeUnchanged DEF Annotate, TypeOK
<1>4. CASE DeleteCareInstruction(c)
  <2>1. ServerTypes'
    <3>1. [ci EXCEPT ![c].deleting = TRUE] \in [CareInstructions -> CareInstruction]
      BY DEF TypeOK, ServerTypes, CareInstruction
    <3>2. [ci EXCEPT ![c] = NoCareInstruction] \in [CareInstructions -> CareInstruction]
      BY NoValueTypes DEF TypeOK, ServerTypes
    <3> QED BY <1>4, <3>1, <3>2 DEF DeleteCareInstruction, TypeOK, ServerTypes
  <2> QED BY <1>4, <2>1, TypeUnchanged DEF DeleteCareInstruction, TypeOK
<1>5. CASE ShootAppears(c)
  <2>1. WorldTypes'
    BY <1>5 DEF ShootAppears, TypeOK, WorldTypes
  <2> QED BY <1>5, <2>1, TypeUnchanged DEF ShootAppears, TypeOK
<1>6. CASE ClusterChanges(c)
  <2>1. WorldTypes'
    BY <1>6 DEF ClusterChanges, TypeOK, WorldTypes
  <2>2. ServerTypes'
    BY <1>6 DEF ClusterChanges, TypeOK, ServerTypes
  <2> QED BY <1>6, <2>1, <2>2, TypeUnchanged DEF ClusterChanges, TypeOK
<1> QED BY <1>1, <1>2, <1>3, <1>4, <1>5, <1>6 DEF CareInstructionEdits

(* Changes of the garden's Secret and readiness.                            *)
LEMMA TypeAccess ==
  ASSUME TypeOK, NEW k \in Namespaces \X Gardens,
         SecretChanges(k) \/ GardenReadinessChanges(k)
  PROVE  TypeOK'
<1>1. CASE SecretChanges(k)
  <2>1. WorldTypes'
    BY <1>1 DEF SecretChanges, TypeOK, WorldTypes
  <2>2. ServerTypes'
    BY <1>1 DEF SecretChanges, EnqueueForGardenCluster, TypeOK, ServerTypes
  <2> QED BY <1>1, <2>1, <2>2, TypeUnchanged DEF SecretChanges, TypeOK
<1>2. CASE GardenReadinessChanges(k)
  <2>1. WorldTypes'
    BY <1>2 DEF GardenReadinessChanges, TypeOK, WorldTypes
  <2> QED BY <1>2, <2>1, TypeUnchanged DEF GardenReadinessChanges, TypeOK
<1> QED BY <1>1, <1>2

(* Changes of an authentication ConfigMap.                                  *)
LEMMA TypeAuth ==
  ASSUME TypeOK, NEW k \in Namespaces \X AuthNames,
         AuthConfigMapChanges(k) \/ AuthConfigMapDeleted(k)
  PROVE  TypeOK'
<1>1. CASE AuthConfigMapChanges(k)
  <2>1. WorldTypes'
    <3>1. PICK data \in Contents :
            authCM' = [authCM EXCEPT ![k].exists = TRUE, ![k].data = data]
      BY <1>1 DEF AuthConfigMapChanges
    <3>2. data \in Nat
      BY ConstantsAssumption
    <3>3. authCM' \in [Namespaces \X AuthNames ->
                         [exists : BOOLEAN, data : Nat, labelled : BOOLEAN]]
      BY <3>1, <3>2 DEF TypeOK, WorldTypes
    <3> QED BY <1>1, <3>3 DEF AuthConfigMapChanges, TypeOK, WorldTypes
  <2>2. ServerTypes'
    BY <1>1 DEF AuthConfigMapChanges, EnqueueForAuthConfigMap, TypeOK, ServerTypes
  <2> QED BY <1>1, <2>1, <2>2, TypeUnchanged DEF AuthConfigMapChanges, TypeOK
<1>2. CASE AuthConfigMapDeleted(k)
  <2>1. WorldTypes'
    BY <1>2 DEF AuthConfigMapDeleted, TypeOK, WorldTypes
  <2> QED BY <1>2, <2>1, TypeUnchanged DEF AuthConfigMapDeleted, TypeOK
<1> QED BY <1>1, <1>2

(* Every step keeps the types.                                              *)
LEMMA TypeStep == TypeOK /\ [Next]_vars => TypeOK'
<1> SUFFICES ASSUME TypeOK, [Next]_vars PROVE TypeOK'
  OBVIOUS
<1>1. CASE UNCHANGED vars
  BY <1>1, TypeUnchanged DEF vars, workerVars, NoFault, TypeOK
<1>2. CASE Next
  BY <1>2, TypeBegin, TypeReconcileManager, TypeReconcileShoots, TypeDelete,
     TypeManager, TypeWatch, TypeEdit, TypeAccess, TypeAuth
     DEF Next, WorkerSucceeds, WorkerFails
<1> QED BY <1>1, <1>2

(* Whatever the numbers of CareInstructions, managers, edits and faults,    *)
(* every reachable state of the controller has the declared types; in       *)
(* particular the worker always holds a CareInstruction while it reconciles *)
(* and every running manager has an owner.                                  *)
THEOREM TypeCorrect == Spec => []TypeOK
BY TypeInit, TypeStep, PTL DEF Spec

-----------------------------------------------------------------------------
(* The inductive invariant. A step's effect on a part of it is small: most  *)
(* steps touch neither a manager nor a finalizer.                           *)

(* Initially there is no manager and no finalizer.                          *)
LEMMA InvInit == Init => IInv
<1> SUFFICES ASSUME Init PROVE IInv
  OBVIOUS
<1>1. TypeOK
  BY TypeInit
<1>2. ASSUME NEW c \in CareInstructions PROVE CacheLags(c)
  <2>1. ci[c] = NoCareInstruction \/ \E s \in Specs : ci[c] = New(s)
    BY DEF Init
  <2>2. /\ ~NoCareInstruction.finalizer /\ ~NoCareInstruction.deleting
        /\ \A s \in Specs : ~New(s).finalizer /\ ~New(s).deleting
    BY DEF New, NoCareInstruction
  <2> QED BY <2>1, <2>2 DEF Init, CacheLags, FinalizerHolds
<1>3. ASSUME NEW c \in CareInstructions PROVE EntryHolds(c)
  <2>1. gardens[GardenKey(c)] = NoGarden
    BY DEF Init, GardenKey, Keys
  <2>2. \A m \in Managers : m # None
    BY ConstantsAssumption
  <2> QED BY <2>1, <2>2 DEF EntryHolds, NoGarden
<1>4. ASSUME NEW m \in Managers PROVE Owned(m)
  BY DEF Init, Owned, Live, NoManager
<1>5. WorkerHolds /\ GardenClientSet
  BY DEF Init, IdleWorker, WorkerHolds, GardenClientSet, At
<1> QED BY <1>1, <1>2, <1>3, <1>4, <1>5 DEF IInv

(* Steps that change no manager and no map entry keep the managers owned if *)
(* no finalizer goes, and the entries as they are if the worker is not on   *)
(* its way to start a manager or to remove a finalizer.                     *)
LEMMA InvQuiet ==
  ASSUME IInv, UNCHANGED <<gardens, mgr>>
  PROVE  /\ (\A c \in CareInstructions : ci[c].finalizer => ci'[c].finalizer)
              => \A m \in Managers : Owned(m)'
         /\ UNCHANGED <<pc, cur>> \/ pc' \notin {"start", "finalizer"}
              => \A c \in CareInstructions : EntryHolds(c)'
<1>1. ASSUME \A c \in CareInstructions : ci[c].finalizer => ci'[c].finalizer,
             NEW m \in Managers
      PROVE  Owned(m)'
  BY <1>1 DEF IInv, Owned, Live
<1>2. ASSUME UNCHANGED <<pc, cur>> \/ pc' \notin {"start", "finalizer"},
             NEW c \in CareInstructions
      PROVE  EntryHolds(c)'
  BY <1>2 DEF IInv, EntryHolds, Live
<1> QED BY <1>1, <1>2

(* Steps of the environment: the worker, the managers and the cache stay,   *)
(* an object keeps its finalizer, and a deletion is not taken back.         *)
LEMMA InvEnvironment ==
  ASSUME IInv, TypeOK', UNCHANGED <<gardens, mgr, seen, workerVars>>,
         \A c \in CareInstructions :
           /\ FinalizerHolds(ci'[c])
           /\ ci'[c].finalizer <=> ci[c].finalizer
           /\ ci[c].finalizer /\ ci[c].deleting => ci'[c].deleting
  PROVE  IInv'
<1>1. \A m \in Managers : Owned(m)'
  BY InvQuiet
<1>2. \A c \in CareInstructions : EntryHolds(c)'
  BY InvQuiet DEF workerVars
<1>3. ASSUME NEW c \in CareInstructions PROVE CacheLags(c)'
  BY DEF IInv, CacheLags, FinalizerHolds
<1>4. WorkerHolds'
  BY DEF IInv, WorkerHolds, workerVars, entry, TypeOK, WorkerTypes
<1>5. GardenClientSet'
  BY DEF IInv, GardenClientSet, workerVars, entry, At
<1> QED BY <1>1, <1>2, <1>3, <1>4, <1>5 DEF IInv

(* A user creates, edits, annotates or deletes a CareInstruction, or the    *)
(* world around it changes.                                                 *)
LEMMA InvEdit ==
  ASSUME IInv, TypeOK', NEW c \in CareInstructions, CareInstructionEdits(c)
  PROVE  IInv'
<1>1. UNCHANGED <<gardens, mgr, seen, workerVars>>
  BY DEF CareInstructionEdits, CreateCareInstruction, EditSpec, Annotate,
         DeleteCareInstruction, ShootAppears, ClusterChanges, serverVars
<1>2. ASSUME NEW d \in CareInstructions
      PROVE  /\ FinalizerHolds(ci'[d])
             /\ ci'[d].finalizer <=> ci[d].finalizer
             /\ ci[d].finalizer /\ ci[d].deleting => ci'[d].deleting
  <2>1. FinalizerHolds(ci[d]) /\ FinalizerHolds(ci[c])
    BY DEF IInv, CacheLags
  <2>2. ci \in [CareInstructions -> CareInstruction]
    BY DEF IInv, TypeOK, ServerTypes
  <2>3. CASE CreateCareInstruction(c)
    <3>1. PICK s \in Specs : ci' = [ci EXCEPT ![c] = New(s)]
      BY <2>3 DEF CreateCareInstruction
    <3> QED BY <2>1, <2>2, <2>3, <3>1
            DEF CreateCareInstruction, New, NoCareInstruction, FinalizerHolds
  <2>4. CASE EditSpec(c)
    <3>1. PICK s \in Specs : ci' = [ci EXCEPT ![c].spec = s]
      BY <2>4 DEF EditSpec
    <3> QED BY <2>1, <2>2, <3>1 DEF FinalizerHolds, CareInstruction
  <2>5. CASE Annotate(c)
    BY <2>1, <2>2, <2>5 DEF Annotate, FinalizerHolds, CareInstruction
  <2>6. CASE DeleteCareInstruction(c)
    BY <2>1, <2>2, <2>6
       DEF DeleteCareInstruction, NoCareInstruction, FinalizerHolds, CareInstruction
  <2>7. CASE ShootAppears(c) \/ ClusterChanges(c)
    BY <2>1, <2>7 DEF ShootAppears, ClusterChanges, serverVars
  <2> QED BY <2>3, <2>4, <2>5, <2>6, <2>7 DEF CareInstructionEdits
<1> QED BY <1>1, <1>2, InvEnvironment

(* The garden's credentials or the ConfigMap change, or a resync comes.     *)
LEMMA InvWorld ==
  ASSUME IInv, TypeOK', UNCHANGED <<gardens, mgr, ci, seen, workerVars>>
  PROVE  IInv'
<1>1. \A c \in CareInstructions : FinalizerHolds(ci[c])
  BY DEF IInv, CacheLags
<1> QED BY <1>1, InvEnvironment

(* The cache catches up.                                                    *)
LEMMA InvDeliver ==
  ASSUME IInv, TypeOK', NEW c \in CareInstructions, Deliver(c)
  PROVE  IInv'
<1>1. UNCHANGED <<ci, gardens, mgr, workerVars>>
      /\ seen' = [seen EXCEPT ![c] = ci[c]]
  BY DEF Deliver
<1>2. seen \in [CareInstructions -> CareInstruction]
  BY DEF IInv, TypeOK, ServerTypes
<1>3. \A m \in Managers : Owned(m)'
  BY <1>1, InvQuiet
<1>4. \A d \in CareInstructions : EntryHolds(d)'
  BY <1>1, InvQuiet DEF workerVars
<1>5. ASSUME NEW d \in CareInstructions PROVE CacheLags(d)'
  <2>1. CacheLags(d)
    BY DEF IInv
  <2> QED BY <1>1, <1>2, <2>1 DEF CacheLags, FinalizerHolds
<1>6. WorkerHolds'
  BY <1>1, <1>2 DEF IInv, WorkerHolds, workerVars, entry
<1>7. GardenClientSet'
  BY <1>1 DEF IInv, GardenClientSet, workerVars, entry, At
<1> QED BY <1>3, <1>4, <1>5, <1>6, <1>7 DEF IInv

(* A manager exits, dies or goes over its shoots: it keeps its owner, and   *)
(* none comes to life.                                                      *)
LEMMA InvManager ==
  ASSUME IInv, TypeOK', NEW m \in Managers, ManagerSteps(m)
  PROVE  IInv'
<1>1. UNCHANGED <<ci, seen, gardens, workerVars>>
  BY DEF ManagerSteps, ManagerExits, ManagerDies, InitialShootPass, serverVars
<1>2. \A n \in Managers : mgr'[n].owner = mgr[n].owner /\ (Live(n)' => Live(n))
  BY DEF ManagerSteps, ManagerExits, ManagerDies, InitialShootPass, Live,
         IInv, TypeOK, GardenTypes, Manager
<1>3. ASSUME NEW n \in Managers PROVE Owned(n)'
  BY <1>1, <1>2 DEF IInv, Owned
<1>4. ASSUME NEW c \in CareInstructions PROVE EntryHolds(c)'
  BY <1>1, <1>2 DEF IInv, EntryHolds, workerVars
<1>5. ASSUME NEW c \in CareInstructions PROVE CacheLags(c)'
  BY <1>1 DEF IInv, CacheLags
<1>6. WorkerHolds' /\ GardenClientSet'
  BY <1>1 DEF IInv, WorkerHolds, GardenClientSet, workerVars, entry, At
<1> QED BY <1>3, <1>4, <1>5, <1>6 DEF IInv

(* Steps of the worker that leave the objects, the managers and the map     *)
(* alone, and go to no step with a demand of its own.                       *)
LEMMA InvWorkerQuiet ==
  ASSUME IInv, TypeOK', UNCHANGED <<ci, seen, gardens, mgr, cur>>,
         pc \notin {"idle", "cleanup", "finalizer"}, pc' \in {"entry", "status"}
  PROVE  IInv'
<1>1. \A m \in Managers : Owned(m)'
  BY InvQuiet
<1>2. \A c \in CareInstructions : EntryHolds(c)'
  BY InvQuiet
<1>3. ASSUME NEW c \in CareInstructions PROVE CacheLags(c)'
  BY DEF IInv, CacheLags
<1>4. WorkerHolds' /\ GardenClientSet'
  BY DEF IInv, WorkerHolds, GardenClientSet, At
<1> QED BY <1>1, <1>2, <1>3, <1>4 DEF IInv

(* lifecycle.Reconcile takes a key: the finalizer is on the object before   *)
(* EnsureCreated runs.                                                      *)
LEMMA InvBegin ==
  ASSUME IInv, TypeOK', NEW c \in CareInstructions, Begin(c)
  PROVE  IInv'
<1>1. CASE BeginNotFound(c)
  BY <1>1, InvWorld DEF BeginNotFound, workerVars
<1>2. UNCHANGED <<gardens, mgr, seen>>
  BY DEF Begin, BeginNotFound, BeginCreate, BeginDelete
<1>3. CacheLags(c) /\ ci \in [CareInstructions -> CareInstruction]
  BY DEF IInv, TypeOK, ServerTypes
<1>4. CASE BeginDelete(c)
  <2>1. \A m \in Managers : Owned(m)'
    BY <1>2, <1>4, InvQuiet DEF BeginDelete
  <2>2. \A d \in CareInstructions : EntryHolds(d)'
    BY <1>2, <1>4, InvQuiet DEF BeginDelete
  <2>3. ASSUME NEW d \in CareInstructions PROVE CacheLags(d)'
    BY <1>4 DEF IInv, CacheLags, BeginDelete
  <2>4. WorkerHolds' /\ GardenClientSet'
    BY <1>3, <1>4 DEF WorkerHolds, GardenClientSet, At, CacheLags, BeginDelete
  <2> QED BY <2>1, <2>2, <2>3, <2>4 DEF IInv
<1>5. CASE BeginCreate(c) /\ UNCHANGED <<ci, pc, cur, obj, orig, cfg, alias, retry>>
  BY <1>2, <1>5, InvWorld DEF workerVars
<1>6. CASE BeginCreate(c) /\ pc' = "label" /\ cur' = c
           /\ ci' = [ci EXCEPT ![c].finalizer = TRUE] /\ (seen[c].finalizer \/ ci[c].exists)
  <2>1. ci'[c].finalizer /\ ci'[c].exists /\ ci'[c].deleting = ci[c].deleting
        /\ \A d \in CareInstructions \ {c} : ci'[d] = ci[d]
    BY <1>3, <1>6 DEF BeginCreate, CacheLags, FinalizerHolds, CareInstruction
  <2>2. \A m \in Managers : Owned(m)'
    BY <1>2, <2>1, InvQuiet
  <2>3. \A d \in CareInstructions : EntryHolds(d)'
    BY <1>2, <1>6, InvQuiet
  <2>4. ASSUME NEW d \in CareInstructions PROVE CacheLags(d)'
    BY <1>2, <1>3, <1>6, <2>1 DEF IInv, CacheLags, FinalizerHolds, BeginCreate
  <2>5. WorkerHolds' /\ GardenClientSet'
    BY <1>6, <2>1 DEF WorkerHolds, GardenClientSet, At
  <2> QED BY <2>2, <2>3, <2>4, <2>5 DEF IInv
<1> QED BY <1>1, <1>4, <1>5, <1>6 DEF Begin, BeginCreate

(* An entry other than the one the worker changes keeps its managers.       *)
LEMMA OtherKey ==
  ASSUME NEW c \in CareInstructions, NEW d \in CareInstructions, c # d
  PROVE  GardenKey(c) # GardenKey(d)
BY KeyInjective

(* Steps of the worker that change only the entry of its own key, without   *)
(* losing the manager in it, or cancel that manager.                        *)
LEMMA InvOwnEntry ==
  ASSUME IInv, TypeOK', NEW g \in Garden,
         gardens' = [gardens EXCEPT ![GardenKey(cur)] = g],
         g.run = entry.run, g.exists = entry.exists, g.mgr \in {None, entry.mgr},
         pc # "idle", cur' = cur,
         \A n \in Managers : mgr'[n].owner = mgr[n].owner /\ (Live(n)' => Live(n)),
         g.mgr = None \/ pc' \in {"start", "finalizer"} =>
           \A n \in Managers : g.run = n => ~Live(n)',
         \A c \in CareInstructions : ci[c].finalizer => ci'[c].finalizer
  PROVE  /\ \A n \in Managers : Owned(n)'
         /\ \A c \in CareInstructions : EntryHolds(c)'
<1>1. cur \in CareInstructions /\ GardenKey(cur) \in Keys /\ gardens \in [Keys -> Garden]
  BY TypeBusy DEF IInv, TypeOK, GardenTypes
<1>2. /\ gardens'[GardenKey(cur)] = g
      /\ \A c \in CareInstructions \ {cur} : gardens'[GardenKey(c)] = gardens[GardenKey(c)]
  BY <1>1, OtherKey DEF GardenKey, Keys
<1>3. ASSUME NEW n \in Managers PROVE Owned(n)'
  BY <1>2 DEF IInv, Owned, entry
<1>4. ASSUME NEW c \in CareInstructions PROVE EntryHolds(c)'
  <2>1. CASE c = cur
    BY <1>2, <2>1 DEF IInv, EntryHolds, entry
  <2>2. CASE c # cur
    BY <1>2, <2>2 DEF IInv, EntryHolds
  <2> QED BY <2>1, <2>2
<1> QED BY <1>3, <1>4

(* Cancelling a manager ends its life, and no other's begins.               *)
LEMMA CancelEnds ==
  ASSUME TypeOK, NEW m, mgr' = Cancel(m)
  PROVE  /\ \A n \in Managers : mgr'[n].owner = mgr[n].owner /\ (Live(n)' => Live(n))
         /\ m \in Managers => ~Live(m)'
BY DEF TypeOK, GardenTypes, Manager, Cancel, Live

(* reconcileManager makes an entry only where there was none.               *)
LEMMA InvEnsureGardenEntry ==
  ASSUME IInv, TypeOK', EnsureGardenEntry
  PROVE  IInv'
<1>1. /\ cur \in CareInstructions /\ GardenKey(cur) \in Keys
      /\ gardens \in [Keys -> Garden] /\ TypeOK
  BY TypeBusy DEF IInv, TypeOK, GardenTypes, EnsureGardenEntry, At
<1>2. UNCHANGED <<ci, seen, mgr, cur>> /\ pc = "entry" /\ pc' = "access"
  BY DEF EnsureGardenEntry, At, serverVars
<1>3. \A c \in CareInstructions : CacheLags(c)'
  BY <1>2 DEF IInv, CacheLags
<1>4. GardenClientSet'
  BY <1>2 DEF GardenClientSet, At
<1>5. CASE entry.exists
  <2>1. gardens' = gardens
    BY <1>5 DEF EnsureGardenEntry
  <2>2. \A m \in Managers : Owned(m)'
    BY <1>2, <2>1, InvQuiet
  <2>3. \A c \in CareInstructions : EntryHolds(c)'
    BY <1>2, <2>1, InvQuiet
  <2>4. WorkerHolds'
    BY <1>2, <1>5, <2>1 DEF IInv, WorkerHolds, entry
  <2> QED BY <1>3, <1>4, <2>2, <2>3, <2>4 DEF IInv
<1>6. CASE ~entry.exists
  <2> DEFINE g == [NoGarden EXCEPT !.exists = TRUE, !.spec = obj.spec,
                                   !.hash = AuthHash(cur, obj.spec)]
  <2>1. gardens' = [gardens EXCEPT ![GardenKey(cur)] = g]
    BY <1>6 DEF EnsureGardenEntry
  <2>2. g.exists /\ g.mgr = None /\ g.run = None
    BY DEF NoGarden
  <2> HIDE DEF g
  <2>3. /\ gardens'[GardenKey(cur)] = g
        /\ \A c \in CareInstructions \ {cur} :
             gardens'[GardenKey(c)] = gardens[GardenKey(c)]
    BY <1>1, <2>1, OtherKey DEF GardenKey, Keys
  <2>4. ASSUME NEW m \in Managers PROVE Owned(m)'
    BY <1>2, <1>6, <2>3 DEF IInv, Owned, Live, entry
  <2>5. ASSUME NEW c \in CareInstructions PROVE EntryHolds(c)'
    <3>1. \A m \in Managers : m # None
      BY ConstantsAssumption
    <3>2. CASE c = cur
      BY <1>2, <2>2, <2>3, <3>1, <3>2 DEF EntryHolds
    <3>3. CASE c # cur
      BY <1>2, <2>3, <3>3 DEF IInv, EntryHolds, Live
    <3> QED BY <3>2, <3>3
  <2>6. WorkerHolds'
    BY <1>2, <2>2, <2>3 DEF IInv, WorkerHolds, entry
  <2> QED BY <1>3, <1>4, <2>4, <2>5, <2>6 DEF IInv
<1> QED BY <1>5, <1>6

(* A current manager is kept.                                               *)
LEMMA InvKeepManager ==
  ASSUME IInv, TypeOK', KeepManager
  PROVE  IInv'
<1>1. UNCHANGED <<ci, seen, gardens, mgr, cur>> /\ pc = "access"
      /\ pc' \in {"annotation", "authcm"}
  BY DEF KeepManager, ShootsNClusters, At, serverVars
<1>2. \A m \in Managers : Owned(m)'
  BY <1>1, InvQuiet
<1>3. \A c \in CareInstructions : EntryHolds(c)'
  BY <1>1, InvQuiet
<1>4. \A c \in CareInstructions : CacheLags(c)'
  BY <1>1 DEF IInv, CacheLags
<1>5. WorkerHolds'
  BY <1>1 DEF IInv, WorkerHolds
<1>6. GardenClientSet'
  <2>1. entry.run # None /\ entry.exists
    BY <1>1 DEF KeepManager, ManagerIsCurrent, IInv, WorkerHolds
  <2> QED BY <1>1, <2>1 DEF GardenClientSet, entry
<1> QED BY <1>2, <1>3, <1>4, <1>5, <1>6 DEF IInv

(* A manager that is not is cancelled, and none is alive when the next one  *)
(* is about to start.                                                       *)
LEMMA InvStopManager ==
  ASSUME IInv, TypeOK', StopManager
  PROVE  IInv'
<1>1. UNCHANGED <<ci, seen, gardens, cur>> /\ pc = "access" /\ pc' = "start"
  BY DEF StopManager, At, serverVars
<1>2. TypeOK /\ cur \in CareInstructions /\ entry \in Garden
  BY <1>1, TypeBusy DEF IInv
<1>3. /\ \A n \in Managers : mgr'[n].owner = mgr[n].owner /\ (Live(n)' => Live(n))
      /\ \A n \in Managers : entry.run = n => ~Live(n)'
  <2>1. CASE entry.mgr # None /\ entry.run # None
    <3>1. mgr' = Cancel(entry.run)
      BY <2>1 DEF StopManager
    <3> QED BY <1>2, <3>1, CancelEnds
  <2>2. CASE ~(entry.mgr # None /\ entry.run # None)
    <3>1. mgr' = mgr
      BY <2>2 DEF StopManager
    <3>2. entry.mgr = None
      BY <1>2, <2>2 DEF IInv, EntryHolds, entry
    <3> QED BY <1>2, <3>1, <3>2 DEF IInv, EntryHolds, entry, Live
  <2> QED BY <2>1, <2>2
<1>4. ASSUME NEW m \in Managers PROVE Owned(m)'
  BY <1>1, <1>3 DEF IInv, Owned
<1>5. ASSUME NEW c \in CareInstructions PROVE EntryHolds(c)'
  BY <1>1, <1>2, <1>3 DEF IInv, EntryHolds, entry
<1>6. \A c \in CareInstructions : CacheLags(c)'
  BY <1>1 DEF IInv, CacheLags
<1>7. WorkerHolds' /\ GardenClientSet'
  BY <1>1 DEF IInv, WorkerHolds, GardenClientSet, At, entry
<1> QED BY <1>4, <1>5, <1>6, <1>7 DEF IInv

(* The manager that starts is the only one of its owner.                    *)
LEMMA InvStartManager ==
  ASSUME IInv, TypeOK', StartManager
  PROVE  IInv'
<1>1. /\ UNCHANGED <<ci, seen, cur>> /\ pc = "start"
      /\ pc' \in {"annotation", "authcm"}
  BY DEF StartManager, ShootsNClusters, At, serverVars
<1>2. /\ cur \in CareInstructions /\ GardenKey(cur) \in Keys /\ entry \in Garden
      /\ gardens \in [Keys -> Garden] /\ mgr \in [Managers -> Manager]
  BY <1>1, TypeBusy DEF IInv, TypeOK, GardenTypes
<1>3. PICK m \in Managers :
        /\ Free(m)
        /\ mgr' = [mgr EXCEPT ![m] =
             [running |-> TRUE, cancelled |-> FALSE, owner |-> cur,
              spec |-> obj.spec, auth |-> None]]
        /\ gardens' = [gardens EXCEPT ![GardenKey(cur)] =
             [@ EXCEPT !.mgr = m, !.run = m, !.config = cfg, !.spec = obj.spec]]
  BY DEF StartManager
<1>4. mgr'[m].owner = cur /\ \A n \in Managers \ {m} : mgr'[n] = mgr[n]
  BY <1>2, <1>3
<1>5. LET g == gardens'[GardenKey(cur)]
      IN  g.mgr = m /\ g.run = m /\ g.exists = entry.exists
  BY <1>2, <1>3 DEF Garden, entry
<1>6. \A c \in CareInstructions \ {cur} : gardens'[GardenKey(c)] = gardens[GardenKey(c)]
  BY <1>2, <1>3, OtherKey DEF GardenKey, Keys
<1>7. entry.exists /\ ci[cur].finalizer
  BY <1>1 DEF IInv, WorkerHolds
<1>8. m # None /\ \A c \in CareInstructions : gardens[GardenKey(c)].run # m
  BY <1>3, ConstantsAssumption DEF Free, GardenKey, Keys
<1>9. ASSUME NEW n \in Managers PROVE Owned(n)'
  <2>1. CASE n = m
    BY <1>1, <1>2, <1>4, <1>5, <1>7, <2>1 DEF Owned
  <2>2. CASE n # m
    <3>1. SUFFICES ASSUME Live(n)' PROVE Owned(n)'
      BY DEF Owned
    <3>2. Live(n) /\ mgr'[n] = mgr[n]
      BY <1>4, <2>2, <3>1 DEF Live
    <3>3. mgr[n].owner # cur
      BY <1>1, <1>2, <3>2 DEF IInv, Owned, EntryHolds
    <3> QED BY <1>1, <1>6, <3>2, <3>3 DEF IInv, Owned
  <2> QED BY <2>1, <2>2
<1>10. ASSUME NEW c \in CareInstructions PROVE EntryHolds(c)'
  <2>1. CASE c = cur
    BY <1>1, <1>5, <1>7, <1>8, <2>1 DEF EntryHolds
  <2>2. CASE c # cur
    <3>1. \A n \in Managers : gardens[GardenKey(c)].run = n => (Live(n)' <=> Live(n))
      BY <1>4, <1>8 DEF Live
    <3> QED BY <1>1, <1>6, <2>2, <3>1 DEF IInv, EntryHolds
  <2> QED BY <2>1, <2>2
<1>11. \A c \in CareInstructions : CacheLags(c)'
  BY <1>1 DEF IInv, CacheLags
<1>12. WorkerHolds'
  BY <1>1, <1>7 DEF WorkerHolds
<1>13. GardenClientSet'
  BY <1>1, <1>5, <1>7, <1>8 DEF GardenClientSet, entry
<1> QED BY <1>9, <1>10, <1>11, <1>12, <1>13 DEF IInv

(* restartShootController cancels and clears the manager but keeps the      *)
(* entry, its client and its stop channel.                                  *)
LEMMA InvRestart ==
  ASSUME IInv, TypeOK', pc \in {"annotation", "authcm"}, pc' \in {"authcm", "clusters"},
         UNCHANGED <<seen, cur>>,
         \A c \in CareInstructions :
           /\ FinalizerHolds(ci'[c])
           /\ ci'[c].finalizer <=> ci[c].finalizer
           /\ ci'[c].deleting <=> ci[c].deleting,
         NEW g \in Garden, NEW o \in CareInstruction, RestartShootController(g, o),
         g.run = entry.run, g.exists = entry.exists, g.mgr = entry.mgr
  PROVE  IInv'
<1>1. TypeOK /\ cur \in CareInstructions /\ entry.exists /\ entry.run # None
  BY TypeBusy DEF IInv, GardenClientSet, At
<1>2. /\ mgr' = Cancel(entry.run)
      /\ gardens' = [gardens EXCEPT ![GardenKey(cur)] = [g EXCEPT !.mgr = None]]
  BY <1>1 DEF RestartShootController
<1>3. /\ \A n \in Managers : mgr'[n].owner = mgr[n].owner /\ (Live(n)' => Live(n))
      /\ \A n \in Managers : entry.run = n => ~Live(n)'
  BY <1>1, <1>2, CancelEnds
<1> DEFINE h == [g EXCEPT !.mgr = None]
<1>4. h \in Garden /\ h.run = entry.run /\ h.exists = entry.exists /\ h.mgr = None
  BY DEF Garden
<1>5. gardens' = [gardens EXCEPT ![GardenKey(cur)] = h]
  BY <1>2
<1> HIDE DEF h
<1>6. (\A n \in Managers : Owned(n)') /\ (\A c \in CareInstructions : EntryHolds(c)')
  BY <1>3, <1>4, <1>5, InvOwnEntry
<1>7. ASSUME NEW c \in CareInstructions PROVE CacheLags(c)'
  BY DEF IInv, CacheLags, FinalizerHolds
<1>8. WorkerHolds'
  BY <1>1 DEF IInv, WorkerHolds
<1>9. GardenClientSet'
  <2>1. gardens'[GardenKey(cur)] = h
    BY <1>1, <1>5, TypeBusy DEF TypeOK, GardenTypes
  <2> QED BY <1>1, <1>4, <2>1 DEF GardenClientSet, entry
<1> QED BY <1>6, <1>7, <1>8, <1>9 DEF IInv

(* reconcileShootsNClusters.                                                *)
LEMMA InvReconcileShoots ==
  ASSUME IInv, TypeOK', HandleReconcileAnnotation \/ CheckAuthConfigMap
  PROVE  IInv'
<1>1. /\ pc \in {"annotation", "authcm"} /\ pc' \in {"authcm", "clusters"}
      /\ UNCHANGED <<seen, cur>>
  BY DEF HandleReconcileAnnotation, CheckAuthConfigMap, At, serverVars
<1>2. /\ TypeOK /\ cur \in CareInstructions /\ entry \in Garden
      /\ obj \in CareInstruction /\ ci[cur].spec \in Specs /\ obj.spec \in Specs
      /\ obj.st \in Status /\ ci[cur].st \in Status
      /\ ci \in [CareInstructions -> CareInstruction]
  BY <1>1, TypeBusy DEF IInv, TypeOK, ServerTypes
<1>3. \A c \in CareInstructions : FinalizerHolds(ci[c])
  BY DEF IInv, CacheLags
<1>4. CASE HandleReconcileAnnotation
  <2> DEFINE g == [entry EXCEPT !.spec = IF alias THEN ci[cur].spec ELSE @]
             o == [obj EXCEPT !.annotated = FALSE, !.spec = ci[cur].spec,
                              !.st = RefreshStatus(@, ci[cur].st)]
  <2>1. g \in Garden /\ g.run = entry.run /\ g.exists = entry.exists /\ g.mgr = entry.mgr
    BY <1>2 DEF Garden
  <2>2. o \in CareInstruction
    <3>1. RefreshStatus(obj.st, ci[cur].st) \in Status
      BY <1>2 DEF RefreshStatus
    <3> QED BY <1>2, <3>1, TypeObject
  <2>3. RestartShootController(g, o)
    BY <1>4 DEF HandleReconcileAnnotation
  <2>4. ASSUME NEW c \in CareInstructions
        PROVE  /\ FinalizerHolds(ci'[c])
               /\ ci'[c].finalizer <=> ci[c].finalizer
               /\ ci'[c].deleting <=> ci[c].deleting
    BY <1>2, <1>3, <1>4 DEF HandleReconcileAnnotation, FinalizerHolds, CareInstruction
  <2> HIDE DEF g, o
  <2> QED BY <1>1, <2>1, <2>2, <2>3, <2>4, InvRestart
<1>5. CASE CheckAuthConfigMap
  <2> DEFINE g == [entry EXCEPT !.hash = AuthHash(cur, obj.spec)]
  <2>1. ci' = ci
    BY <1>5 DEF CheckAuthConfigMap, serverVars
  <2>2. g \in Garden /\ g.run = entry.run /\ g.exists = entry.exists /\ g.mgr = entry.mgr
    BY <1>2, TypeHash DEF Garden
  <2>3. CASE RestartShootController(g, obj)
    <3> HIDE DEF g
    <3> QED BY <1>1, <1>2, <1>3, <2>1, <2>2, <2>3, InvRestart
  <2>4. CASE UNCHANGED <<gardens, mgr, obj>>
    <3>1. \A m \in Managers : Owned(m)'
      BY <2>1, <2>4, InvQuiet
    <3>2. \A c \in CareInstructions : EntryHolds(c)'
      BY <1>1, <2>4, InvQuiet
    <3>3. \A c \in CareInstructions : CacheLags(c)'
      BY <1>1, <2>1 DEF IInv, CacheLags
    <3>4. WorkerHolds' /\ GardenClientSet'
      BY <1>1, <2>1, <2>4 DEF IInv, WorkerHolds, GardenClientSet, At, entry
    <3> QED BY <3>1, <3>2, <3>3, <3>4 DEF IInv
  <2> QED BY <1>5, <2>3, <2>4 DEF CheckAuthConfigMap
<1> QED BY <1>4, <1>5

(* Steps that end in an error, and those that only fill in the status.      *)
LEMMA InvOtherSteps ==
  ASSUME IInv, TypeOK',
         \/ EnsureAuthConfigMapLabeled \/ EnsureGardenEntryFails \/ AccessError
         \/ StartManagerFails \/ CompareClusters \/ HandleReconcileAnnotationFails
         \/ CheckAuthConfigMapFails \/ CompareClustersFails
  PROVE  IInv'
<1>1. /\ UNCHANGED <<ci, seen, gardens, mgr, cur>>
      /\ pc \notin {"idle", "cleanup", "finalizer"} /\ pc' \in {"entry", "status"}
  BY DEF EnsureAuthConfigMapLabeled, EnsureGardenEntryFails, AccessError,
         StartManagerFails, CompareClusters, HandleReconcileAnnotationFails,
         CheckAuthConfigMapFails, CompareClustersFails, SyncFails, SyncError,
         ManagerError, At, serverVars
<1> QED BY <1>1, InvWorkerQuiet

(* The end of a reconcile: the status is written, or a patch failed.        *)
LEMMA InvEnd ==
  ASSUME IInv, TypeOK', PatchStatus \/ PatchStatusFails \/ RemoveFinalizerFails
  PROVE  IInv'
<1>1. UNCHANGED <<seen, mgr>> /\ pc # "idle" /\ pc' = "idle"
  BY DEF PatchStatus, PatchStatusFails, RemoveFinalizerFails, IdleWorkerNext, At
<1>2. /\ cur \in CareInstructions /\ GardenKey(cur) \in Keys
      /\ gardens \in [Keys -> Garden] /\ ci \in [CareInstructions -> CareInstruction]
  BY <1>1, TypeBusy DEF IInv, TypeOK, GardenTypes, ServerTypes
<1>3. ASSUME NEW c \in CareInstructions
      PROVE  /\ ci'[c].finalizer = ci[c].finalizer /\ ci'[c].deleting = ci[c].deleting
             /\ ci'[c].exists = ci[c].exists
  BY <1>2 DEF PatchStatus, PatchStatusFails, RemoveFinalizerFails, CareInstruction
<1>4. ASSUME NEW c \in CareInstructions
      PROVE  LET g == gardens'[GardenKey(c)]
                 h == gardens[GardenKey(c)]
             IN  g.exists = h.exists /\ g.mgr = h.mgr /\ g.run = h.run
  <2>1. GardenKey(c) \in Keys
    BY DEF GardenKey, Keys
  <2> QED BY <1>2, <2>1 DEF PatchStatus, PatchStatusFails, RemoveFinalizerFails, Garden
<1>5. ASSUME NEW m \in Managers PROVE Owned(m)'
  BY <1>1, <1>3, <1>4 DEF IInv, Owned, Live
<1>6. ASSUME NEW c \in CareInstructions PROVE EntryHolds(c)'
  BY <1>1, <1>4 DEF IInv, EntryHolds, Live
<1>7. ASSUME NEW c \in CareInstructions PROVE CacheLags(c)'
  BY <1>1, <1>3 DEF IInv, CacheLags, FinalizerHolds
<1>8. WorkerHolds' /\ GardenClientSet'
  BY <1>1 DEF WorkerHolds, GardenClientSet, At
<1> QED BY <1>5, <1>6, <1>7, <1>8 DEF IInv

(* cleanupCareInstruction leaves no live manager behind.                    *)
LEMMA InvCleanup ==
  ASSUME IInv, TypeOK', CleanupCareInstruction
  PROVE  IInv'
<1>1. UNCHANGED <<ci, seen, cur>> /\ pc = "cleanup" /\ pc' = "finalizer"
  BY DEF CleanupCareInstruction, At, serverVars
<1>2. /\ TypeOK /\ cur \in CareInstructions /\ GardenKey(cur) \in Keys
      /\ gardens \in [Keys -> Garden] /\ entry \in Garden
  BY <1>1, TypeBusy DEF IInv, TypeOK, GardenTypes
<1>3. \A c \in CareInstructions : CacheLags(c)'
  BY <1>1 DEF IInv, CacheLags
<1>4. WorkerHolds' /\ GardenClientSet'
  BY <1>1 DEF IInv, WorkerHolds, GardenClientSet, At
<1>5. \A m \in Managers : m # None
  BY ConstantsAssumption
<1>6. CASE entry.exists /\ entry.run # None
  <2>1. mgr' = Cancel(entry.run) /\ gardens' = [gardens EXCEPT ![GardenKey(cur)] = NoGarden]
    BY <1>6 DEF CleanupCareInstruction
  <2>2. /\ \A n \in Managers : mgr'[n].owner = mgr[n].owner /\ (Live(n)' => Live(n))
        /\ \A n \in Managers : entry.run = n => ~Live(n)'
    BY <1>2, <2>1, CancelEnds
  <2>3. /\ gardens'[GardenKey(cur)] = NoGarden
        /\ \A c \in CareInstructions \ {cur} :
             gardens'[GardenKey(c)] = gardens[GardenKey(c)]
    BY <1>2, <2>1, OtherKey DEF GardenKey, Keys
  <2>4. ASSUME NEW n \in Managers PROVE Owned(n)'
    BY <1>1, <2>2, <2>3 DEF IInv, Owned, entry
  <2>5. ASSUME NEW c \in CareInstructions PROVE EntryHolds(c)'
    <3>1. CASE c = cur
      BY <1>5, <2>3, <3>1 DEF EntryHolds, NoGarden
    <3>2. CASE c # cur
      BY <1>1, <2>2, <2>3, <3>2 DEF IInv, EntryHolds
    <3> QED BY <3>1, <3>2
  <2> QED BY <1>3, <1>4, <2>4, <2>5 DEF IInv
<1>7. CASE ~(entry.exists /\ entry.run # None)
  <2>1. UNCHANGED <<gardens, mgr>>
    BY <1>7 DEF CleanupCareInstruction
  <2>2. \A m \in Managers : Owned(m)'
    BY <1>1, <2>1, InvQuiet
  <2>3. entry.run = None
    BY <1>2, <1>7 DEF IInv, EntryHolds, entry
  <2>4. ASSUME NEW c \in CareInstructions PROVE EntryHolds(c)'
    BY <1>1, <1>5, <2>1, <2>3 DEF IInv, EntryHolds, entry, Live
  <2> QED BY <1>3, <1>4, <2>2, <2>4 DEF IInv
<1> QED BY <1>6, <1>7

(* The finalizer goes when no live manager needs the object any more.       *)
LEMMA InvRemoveFinalizer ==
  ASSUME IInv, TypeOK', RemoveFinalizer
  PROVE  IInv'
<1>1. UNCHANGED <<gardens, mgr, seen>> /\ pc = "finalizer" /\ pc' = "idle"
  BY DEF RemoveFinalizer, IdleWorkerNext, At
<1>2. cur \in CareInstructions /\ ci \in [CareInstructions -> CareInstruction]
  BY <1>1, TypeBusy DEF IInv, TypeOK, ServerTypes
<1>3. /\ \A c \in CareInstructions \ {cur} : ci'[c] = ci[c]
      /\ ~ci'[cur].finalizer
      /\ ci'[cur].deleting = FALSE
  BY <1>2 DEF RemoveFinalizer, NoCareInstruction, CareInstruction
<1>4. ASSUME NEW m \in Managers PROVE Owned(m)'
  <2>1. SUFFICES ASSUME Live(m)' PROVE Owned(m)'
    BY DEF Owned
  <2>2. Live(m)
    BY <1>1, <2>1 DEF Live
  <2>3. mgr[m].owner # cur
    BY <1>1, <1>2, <2>2 DEF IInv, Owned, EntryHolds
  <2> QED BY <1>1, <1>3, <2>2, <2>3 DEF IInv, Owned
<1>5. \A c \in CareInstructions : EntryHolds(c)'
  BY <1>1, InvQuiet
<1>6. ASSUME NEW c \in CareInstructions PROVE CacheLags(c)'
  BY <1>1, <1>2, <1>3 DEF IInv, CacheLags, FinalizerHolds, WorkerHolds
<1>7. WorkerHolds' /\ GardenClientSet'
  BY <1>1 DEF WorkerHolds, GardenClientSet, At
<1> QED BY <1>4, <1>5, <1>6, <1>7 DEF IInv

(* A crash takes all managers with it, and the new process lists afresh.    *)
LEMMA InvCrash ==
  ASSUME IInv, TypeOK', Crash
  PROVE  IInv'
<1>1. pc' = "idle" /\ ci' = ci /\ seen' = ci
  BY DEF Crash, IdleWorkerNext
<1>2. ASSUME NEW m \in Managers PROVE Owned(m)'
  BY DEF Crash, Owned, Live, NoManager
<1>3. ASSUME NEW c \in CareInstructions PROVE EntryHolds(c)'
  <2>1. gardens'[GardenKey(c)] = NoGarden
    BY DEF Crash, GardenKey, Keys
  <2>2. \A m \in Managers : m # None
    BY ConstantsAssumption
  <2> QED BY <2>1, <2>2 DEF EntryHolds, NoGarden
<1>4. ASSUME NEW c \in CareInstructions PROVE CacheLags(c)'
  BY <1>1 DEF IInv, CacheLags
<1>5. WorkerHolds' /\ GardenClientSet'
  BY <1>1 DEF WorkerHolds, GardenClientSet, At
<1> QED BY <1>2, <1>3, <1>4, <1>5 DEF IInv

(* The invariant is inductive.                                              *)
LEMMA InvStep == IInv /\ [Next]_vars => IInv'
<1> SUFFICES ASSUME IInv, [Next]_vars PROVE IInv'
  OBVIOUS
<1>1. TypeOK'
  BY TypeStep DEF IInv
<1>2. CASE UNCHANGED vars
  BY <1>1, <1>2, InvWorld DEF vars, serverVars, workerVars
<1>3. CASE WorkerSucceeds \/ WorkerFails \/ Crash
  BY <1>1, <1>3, InvOtherSteps, InvEnsureGardenEntry, InvKeepManager, InvStopManager,
     InvStartManager, InvReconcileShoots, InvEnd, InvCleanup, InvRemoveFinalizer,
     InvCrash
     DEF WorkerSucceeds, WorkerFails
<1>4. CASE \E c \in CareInstructions :
             Begin(c) \/ Deliver(c) \/ Resync(c) \/ CareInstructionEdits(c)
  <2>1. ASSUME NEW c \in CareInstructions, Resync(c) PROVE IInv'
    BY <1>1, <2>1, InvWorld DEF Resync
  <2> QED BY <1>1, <1>4, <2>1, InvBegin, InvDeliver, InvEdit
<1>5. CASE \E m \in Managers : ManagerSteps(m)
  BY <1>1, <1>5, InvManager
<1>6. CASE \/ \E k \in Namespaces \X Gardens :
                SecretChanges(k) \/ GardenReadinessChanges(k)
           \/ \E k \in Namespaces \X AuthNames :
                AuthConfigMapChanges(k) \/ AuthConfigMapDeleted(k)
  <2>1. UNCHANGED <<gardens, mgr, ci, seen, workerVars>>
    BY <1>6 DEF SecretChanges, GardenReadinessChanges, AuthConfigMapChanges,
                AuthConfigMapDeleted, serverVars
  <2> QED BY <1>1, <2>1, InvWorld
<1> QED BY <1>2, <1>3, <1>4, <1>5, <1>6 DEF Next

(* For all constants, cache, map entries, managers and the worker agree in  *)
(* every reachable state: the finalizer is on an object as long as its      *)
(* manager may be alive, and the map entry knows every live manager.        *)
THEOREM ManagersInvariant == Spec => []IInv
BY InvInit, InvStep, PTL DEF Spec

(* For any number of CareInstructions in any namespaces, of managers, edits *)
(* and faults, a CareInstruction never has two shoot controllers whose      *)
(* contexts are open.                                                       *)
THEOREM NeverTwoControllers == Spec => []OneControllerPerCareInstruction
<1>1. IInv => OneControllerPerCareInstruction
  BY DEF IInv, Owned, OneControllerPerCareInstruction
<1> QED BY <1>1, ManagersInvariant, PTL

(* Under the same generality, a live shoot controller has a CareInstruction *)
(* and the gardens map can stop it, through every replacement, restart,     *)
(* failed start, deletion, re-creation and crash.                           *)
THEOREM NeverOrphaned == Spec => []NoOrphanManager
<1>1. IInv => NoOrphanManager
  BY DEF IInv, Owned, CacheLags, FinalizerHolds, NoOrphanManager
<1> QED BY <1>1, ManagersInvariant, PTL

(* reconcileShootsNClusters never dereferences a missing entry or client.   *)
THEOREM NeverNilClient == Spec => []GardenClientSet
<1>1. IInv => GardenClientSet
  BY DEF IInv
<1> QED BY <1>1, ManagersInvariant, PTL

=============================================================================
