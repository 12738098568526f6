----------------------- MODULE GardenManagersRefinement -----------------------
(***************************************************************************)
(* GardenManagers implements ShootControllers: every step of the detailed  *)
(* specification, in a state of the inductive invariant, is a step of the  *)
(* abstract one or leaves its variables unchanged.                         *)
(***************************************************************************)
EXTENDS GardenManagersProofs

AbstractStep == Abstract!Next \/ UNCHANGED <<Exists, Running>>

ExistsSame == \A c \in CareInstructions : ci'[c].exists = ci[c].exists

(* Steps that neither create nor remove an object, nor start or stop a      *)
(* manager, stutter.                                                        *)
LEMMA QuietStep ==
  ASSUME ExistsSame,
         \A m \in Managers : /\ Live(m)' <=> Live(m)
                             /\ Live(m) => mgr'[m].owner = mgr[m].owner
  PROVE  AbstractStep
<1>1. Exists' = Exists
  BY DEF ExistsSame, Exists
<1>2. \A c \in CareInstructions :
        {m \in Managers : Live(m)' /\ mgr'[m].owner = c}
          = {m \in Managers : Live(m) /\ mgr[m].owner = c}
  OBVIOUS
<1>3. Running' = Running
  BY <1>2 DEF Running
<1> QED BY <1>1, <1>3 DEF AbstractStep

(* The same, for steps that leave the managers alone.                       *)
LEMMA SameManagers ==
  ASSUME ExistsSame, mgr' = mgr
  PROVE  AbstractStep
BY QuietStep DEF Live

(* One live manager stops, whether cancelled or dead: the place of its      *)
(* owner becomes empty.                                                     *)
LEMMA StopOne ==
  ASSUME IInv, ExistsSame, NEW m \in Managers, Live(m), ~Live(m)',
         \A n \in Managers : mgr'[n].owner = mgr[n].owner,
         \A n \in Managers \ {m} : Live(n)' <=> Live(n)
  PROVE  AbstractStep
<1> DEFINE c == mgr[m].owner
<1>1. c \in CareInstructions /\ \A n \in Managers : Live(n) /\ mgr[n].owner = c => n = m
  BY DEF IInv, Owned
<1>2. Exists' = Exists
  BY DEF ExistsSame, Exists
<1>3. ASSUME NEW d \in CareInstructions
      PROVE  {n \in Managers : Live(n)' /\ mgr'[n].owner = d}
               = IF d = c THEN {} ELSE {n \in Managers : Live(n) /\ mgr[n].owner = d}
  BY <1>1
<1>4. Running' = [Running EXCEPT ![c] = {}]
  BY <1>1, <1>3 DEF Running
<1>5. Abstract!Stop(c)
  BY <1>2, <1>4 DEF Abstract!Stop
<1> QED BY <1>1, <1>5 DEF AbstractStep, Abstract!Next

(* Cancelling a manager stops it, if it was alive.                          *)
LEMMA CancelStops ==
  ASSUME IInv, ExistsSame, NEW m, mgr' = Cancel(m)
  PROVE  AbstractStep
<1>1. mgr \in [Managers -> Manager]
  BY DEF IInv, TypeOK, GardenTypes
<1>2. \A n \in Managers : mgr'[n].owner = mgr[n].owner
  BY <1>1 DEF Cancel, Manager
<1>3. \A n \in Managers \ {m} : Live(n)' <=> Live(n)
  BY <1>1 DEF Cancel, Live
<1>4. m \in Managers => ~Live(m)'
  BY <1>1 DEF Cancel, Live, Manager
<1>5. CASE m \in Managers /\ Live(m)
  BY <1>2, <1>3, <1>4, <1>5, StopOne
<1>6. CASE ~(m \in Managers /\ Live(m))
  BY <1>2, <1>3, <1>4, <1>6, QuietStep
<1> QED BY <1>5, <1>6

(* A manager is started only for an object that exists and has none alive.  *)
LEMMA StartFits ==
  ASSUME IInv, StartManager
  PROVE  AbstractStep
<1>1. ci' = ci /\ pc = "start"
  BY DEF StartManager, At, serverVars
<1>2. cur \in CareInstructions /\ mgr \in [Managers -> Manager]
  BY <1>1, TypeBusy DEF IInv, TypeOK, GardenTypes
<1>3. PICK m \in Managers :
        /\ Free(m)
        /\ mgr' = [mgr EXCEPT ![m] =
             [running |-> TRUE, cancelled |-> FALSE, owner |-> cur,
              spec |-> obj.spec, auth |-> None]]
  BY DEF StartManager
<1>4. ~Live(m) /\ \A n \in Managers : Live(n) => mgr[n].owner # cur
  <2>1. ~Live(m)
    BY <1>3 DEF Free, Live
  <2>2. \A n \in Managers : gardens[GardenKey(cur)].run = n => ~Live(n)
    BY <1>1, <1>2 DEF IInv, EntryHolds
  <2> QED BY <2>1, <2>2 DEF IInv, Owned
<1>5. mgr'[m].owner = cur /\ Live(m)' /\ \A n \in Managers \ {m} : mgr'[n] = mgr[n]
  BY <1>2, <1>3 DEF Live
<1>6. ASSUME NEW d \in CareInstructions
      PROVE  {n \in Managers : Live(n)' /\ mgr'[n].owner = d}
               = IF d = cur THEN {m} ELSE {n \in Managers : Live(n) /\ mgr[n].owner = d}
  BY <1>4, <1>5 DEF Live
<1>7. Running' = [Running EXCEPT ![cur] = {m}]
  BY <1>2, <1>6 DEF Running
<1>8. /\ Running[cur] = {}
      /\ \A d \in CareInstructions : m \notin Running[d]
  BY <1>2, <1>4 DEF Running
<1>9. Exists[cur]
  <2>1. ci[cur].finalizer
    BY <1>1 DEF IInv, WorkerHolds
  <2> QED BY <1>2, <2>1 DEF IInv, CacheLags, FinalizerHolds, Exists
<1>10. Exists' = Exists
  BY <1>1 DEF Exists
<1>11. Abstract!Start(cur, m)
  BY <1>7, <1>8, <1>9, <1>10 DEF Abstract!Start
<1> QED BY <1>2, <1>11 DEF AbstractStep, Abstract!Next

(* An object goes only if no manager of it is alive.                        *)
LEMMA RemoveFits ==
  ASSUME IInv, mgr' = mgr, NEW c \in CareInstructions,
         \A m \in Managers : Live(m) => mgr[m].owner # c,
         ci' = [ci EXCEPT ![c] = NoCareInstruction]
  PROVE  AbstractStep
<1>1. ci \in [CareInstructions -> CareInstruction]
  BY DEF IInv, TypeOK, ServerTypes
<1>2. Exists' = [Exists EXCEPT ![c] = FALSE]
  BY <1>1 DEF Exists, NoCareInstruction
<1>3. Running' = Running
  BY DEF Running, Live
<1>4. Running[c] = {}
  BY DEF Running
<1>5. Abstract!Remove(c)
  BY <1>2, <1>3, <1>4 DEF Abstract!Remove
<1> QED BY <1>5 DEF AbstractStep, Abstract!Next

(* The worker's other steps: they leave the managers alone and rewrite at   *)
(* most a finalizer, an annotation or the status of an object.              *)
LEMMA WorkerFits ==
  ASSUME IInv, WorkerSucceeds \/ WorkerFails
  PROVE  AbstractStep
<1>1. ci \in [CareInstructions -> CareInstruction]
  BY DEF IInv, TypeOK, ServerTypes
<1>2. CASE \/ EnsureAuthConfigMapLabeled \/ EnsureGardenEntry \/ EnsureGardenEntryFails
           \/ AccessError \/ KeepManager \/ StartManagerFails
           \/ HandleReconcileAnnotationFails \/ CheckAuthConfigMapFails
           \/ CompareClusters \/ CompareClustersFails
           \/ PatchStatusFails \/ RemoveFinalizerFails
  <2>1. UNCHANGED <<ci, mgr>>
    BY <1>2 DEF EnsureAuthConfigMapLabeled, EnsureGardenEntry, EnsureGardenEntryFails,
                AccessError, KeepManager, StartManagerFails, CompareClusters,
                HandleReconcileAnnotationFails, CheckAuthConfigMapFails,
                CompareClustersFails, SyncFails, PatchStatusFails,
                RemoveFinalizerFails, serverVars
  <2> QED BY <2>1, SameManagers DEF ExistsSame
<1>3. CASE PatchStatus
  <2>1. ExistsSame /\ mgr' = mgr
    BY <1>1, <1>3 DEF PatchStatus, ExistsSame, CareInstruction
  <2> QED BY <2>1, SameManagers
<1>4. CASE HandleReconcileAnnotation \/ CheckAuthConfigMap
  <2>1. ExistsSame
    BY <1>1, <1>4 DEF HandleReconcileAnnotation, CheckAuthConfigMap, ExistsSame,
                      CareInstruction, serverVars
  <2>2. mgr' = mgr \/ mgr' = Cancel(entry.run)
    BY <1>4 DEF HandleReconcileAnnotation, CheckAuthConfigMap, RestartShootController
  <2> QED BY <2>1, <2>2, SameManagers, CancelStops
<1>5. CASE StopManager \/ CleanupCareInstruction
  <2>1. ExistsSame
    BY <1>5 DEF StopManager, CleanupCareInstruction, ExistsSame, serverVars
  <2>2. mgr' = mgr \/ mgr' = Cancel(entry.run)
    BY <1>5 DEF StopManager, CleanupCareInstruction
  <2> QED BY <2>1, <2>2, SameManagers, CancelStops
<1>6. CASE RemoveFinalizer
  <2>1. pc = "finalizer" /\ mgr' = mgr /\ cur \in CareInstructions
    BY <1>6, TypeBusy DEF RemoveFinalizer, At, IInv
  <2>2. CASE ci[cur].deleting
    <3>1. \A m \in Managers : Live(m) => mgr[m].owner # cur
      BY <2>1 DEF IInv, Owned, EntryHolds
    <3> QED BY <1>6, <2>1, <2>2, <3>1, RemoveFits DEF RemoveFinalizer
  <2>3. CASE ~ci[cur].deleting
    <3>1. ExistsSame
      BY <1>1, <1>6, <2>3 DEF RemoveFinalizer, ExistsSame, CareInstruction
    <3> QED BY <2>1, <3>1, SameManagers
  <2> QED BY <2>2, <2>3
<1>7. CASE StartManager
  BY <1>7, StartFits
<1> QED BY <1>2, <1>3, <1>4, <1>5, <1>6, <1>7 DEF WorkerSucceeds, WorkerFails

(* A crash stops every manager and leaves the objects.                      *)
LEMMA CrashFits ==
  ASSUME Crash
  PROVE  AbstractStep
<1>1. Exists' = Exists
  BY DEF Crash, Exists
<1>2. \A c \in CareInstructions : {m \in Managers : Live(m)' /\ mgr'[m].owner = c} = {}
  BY DEF Crash, Live, NoManager
<1>3. Running' = [c \in CareInstructions |-> {}]
  BY <1>2 DEF Running
<1> QED BY <1>1, <1>3 DEF AbstractStep, Abstract!Next, Abstract!Crash

(* The goroutines of the managers.                                          *)
LEMMA ManagerFits ==
  ASSUME IInv, NEW m \in Managers, ManagerSteps(m)
  PROVE  AbstractStep
<1>1. mgr \in [Managers -> Manager] /\ ExistsSame
  BY DEF IInv, TypeOK, GardenTypes, ManagerSteps, ManagerExits, ManagerDies,
         InitialShootPass, ExistsSame, serverVars
<1>2. \A n \in Managers : mgr'[n].owner = mgr[n].owner
  BY <1>1 DEF ManagerSteps, ManagerExits, ManagerDies, InitialShootPass, Manager
<1>3. CASE ManagerExits(m) \/ InitialShootPass(m)
  <2>1. \A n \in Managers : Live(n)' <=> Live(n)
    BY <1>1, <1>3 DEF ManagerExits, InitialShootPass, Live, Manager
  <2> QED BY <1>1, <1>2, <2>1, QuietStep
<1>4. CASE ManagerDies(m)
  <2>1. Live(m) /\ ~Live(m)' /\ \A n \in Managers \ {m} : Live(n)' <=> Live(n)
    BY <1>1, <1>4 DEF ManagerDies, Live, Manager
  <2> QED BY <1>1, <1>2, <2>1, StopOne
<1> QED BY <1>3, <1>4 DEF ManagerSteps

(* What users, watches and the queue do to one CareInstruction: an object   *)
(* is created where there is none, or goes at once because it never had a   *)
(* finalizer, and so no manager.                                            *)
LEMMA CareInstructionFits ==
  ASSUME IInv, NEW c \in CareInstructions,
         Begin(c) \/ Deliver(c) \/ Resync(c) \/ CareInstructionEdits(c)
  PROVE  AbstractStep
<1>1. ci \in [CareInstructions -> CareInstruction] /\ mgr' = mgr
  BY DEF IInv, TypeOK, ServerTypes, Begin, BeginNotFound, BeginCreate, BeginDelete,
         Deliver, Resync, CareInstructionEdits, CreateCareInstruction, EditSpec,
         Annotate, DeleteCareInstruction, ShootAppears, ClusterChanges
<1>2. CASE Begin(c) \/ Deliver(c) \/ Resync(c)
  <2>1. ExistsSame
    BY <1>1, <1>2 DEF Begin, BeginNotFound, BeginCreate, BeginDelete, Deliver, Resync,
                      ExistsSame, CareInstruction
  <2> QED BY <1>1, <2>1, SameManagers
<1>3. CASE EditSpec(c) \/ Annotate(c) \/ ShootAppears(c) \/ ClusterChanges(c)
  <2>1. ExistsSame
    BY <1>1, <1>3 DEF EditSpec, Annotate, ShootAppears, ClusterChanges, serverVars,
                      ExistsSame, CareInstruction
  <2> QED BY <1>1, <2>1, SameManagers
<1>4. CASE CreateCareInstruction(c)
  <2>1. PICK s \in Specs : ci' = [ci EXCEPT ![c] = New(s)]
    BY <1>4 DEF CreateCareInstruction
  <2>2. New(s).exists = TRUE
    BY DEF New, NoCareInstruction
  <2>3. Exists' = [Exists EXCEPT ![c] = TRUE] /\ ~Exists[c]
    BY <1>1, <1>4, <2>1, <2>2 DEF CreateCareInstruction, Exists
  <2>4. Running' = Running
    BY <1>1 DEF Running, Live
  <2> QED BY <2>3, <2>4 DEF AbstractStep, Abstract!Next, Abstract!Create
<1>5. CASE DeleteCareInstruction(c)
  <2>1. CASE ci[c].finalizer
    <3>1. ExistsSame
      BY <1>1, <1>5, <2>1 DEF DeleteCareInstruction, ExistsSame, CareInstruction
    <3> QED BY <1>1, <3>1, SameManagers
  <2>2. CASE ~ci[c].finalizer
    <3>1. \A m \in Managers : Live(m) => mgr[m].owner # c
      BY <2>2 DEF IInv, Owned
    <3> QED BY <1>1, <1>5, <2>2, <3>1, RemoveFits DEF DeleteCareInstruction
  <2> QED BY <2>1, <2>2
<1> QED BY <1>2, <1>3, <1>4, <1>5 DEF CareInstructionEdits

(* Every step of the controller and its surroundings fits.                  *)
LEMMA RefineStep == IInv /\ [Next]_vars => AbstractStep
<1> SUFFICES ASSUME IInv, [Next]_vars PROVE AbstractStep
  OBVIOUS
<1>1. CASE UNCHANGED vars
  BY <1>1, SameManagers DEF vars, serverVars, ExistsSame
<1>2. CASE WorkerSucceeds \/ WorkerFails \/ Crash
  BY <1>2, WorkerFits, CrashFits
<1>3. CASE \E c \in CareInstructions :
             Begin(c) \/ Deliver(c) \/ Resync(c) \/ CareInstructionEdits(c)
  BY <1>3, CareInstructionFits
<1>4. CASE \E m \in Managers : ManagerSteps(m)
  BY <1>4, ManagerFits
<1>5. CASE \/ \E k \in Namespaces \X Gardens :
                SecretChanges(k) \/ GardenReadinessChanges(k)
           \/ \E k \in Namespaces \X AuthNames :
                AuthConfigMapChanges(k) \/ AuthConfigMapDeleted(k)
  <2>1. UNCHANGED <<ci, mgr>>
    BY <1>5 DEF SecretChanges, GardenReadinessChanges, AuthConfigMapChanges,
                AuthConfigMapDeleted, serverVars
  <2> QED BY <2>1, SameManagers DEF ExistsSame
<1> QED BY <1>1, <1>2, <1>3, <1>4, <1>5 DEF Next

(* A process that has just started has no manager.                          *)
LEMMA RefineInit == Init => Abstract!Init
<1> SUFFICES ASSUME Init PROVE Abstract!Init
  OBVIOUS
<1>1. \A c \in CareInstructions : ci[c].exists \in BOOLEAN
  BY TypeInit DEF TypeOK, ServerTypes, CareInstruction
<1>2. \A c \in CareInstructions : {m \in Managers : Live(m) /\ mgr[m].owner = c} = {}
  BY DEF Init, Live, NoManager
<1> QED BY <1>1, <1>2 DEF Abstract!Init, Exists, Running

(* For any CareInstructions, specs, managers and bounds: with its queue,    *)
(* lagging cache, map, goroutines, failing calls and crashes the controller *)
(* behaves towards shoot controllers as ShootControllers promises.          *)
THEOREM Refines == Spec => ImplementsShootControllers
<1>1. IInv /\ [Next]_vars => [Abstract!Next]_<<Exists, Running>>
  BY RefineStep DEF AbstractStep
<1> QED BY <1>1, RefineInit, ManagersInvariant, PTL DEF Spec, ImplementsShootControllers, Abstract!Spec
=============================================================================
