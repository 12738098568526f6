-------------------------- MODULE GardenManagersRest --------------------------
(***************************************************************************)
(* Every CareInstruction at rest has a manager with the credentials of its *)
(* garden: whatever takes the manager away, or changes the credentials,    *)
(* leaves something behind that brings another reconcile.                  *)
(***************************************************************************)
EXTENDS GardenManagersProofs

Kept(c) == ManagerKept(c) /\ ConfigKept(c) /\ NewIsQueued(c)

(* The steps of EnsureCreated before the manager has been looked at.        *)
Early == {"label", "entry", "access", "start"}

-----------------------------------------------------------------------------
(* Initially everything that exists is in the queue.                        *)
LEMMA RestInit == Init => RestInv
<1> SUFFICES ASSUME Init PROVE RestInv
  OBVIOUS
<1>1. ASSUME NEW c \in CareInstructions PROVE Kept(c)
  BY DEF Init, Kept, ManagerKept, ConfigKept, NewIsQueued, Passed
<1>2. ReadHolds
  BY DEF Init, IdleWorker, ReadHolds
<1> QED BY <1>1, <1>2 DEF RestInv, Kept

-----------------------------------------------------------------------------
(* Steps of the environment.                                                *)

(* The worker and the map stay. A CareInstruction that the step does not    *)
(* put into the queue is one that the step does not concern, or whose cache *)
(* is behind.                                                               *)
LEMMA RestEnvironment ==
  ASSUME RestInv, UNCHANGED <<gardens, workerVars>>, queue \subseteq queue',
         TypeOK,
         \A c \in CareInstructions \ queue' :
           /\ seen'[c] = seen[c]
           /\ ci'[c].finalizer = ci[c].finalizer
           /\ seen[c].exists /\ seen[c].spec.garden \notin KubeconfigGardens =>
                access'[AccessKey(c, seen[c].spec)].config
                  = access[AccessKey(c, seen[c].spec)].config
           /\ \/ ci'[c].exists /\ ~ci'[c].deleting => Behind(c)'
              \/ /\ ci'[c].exists /\ ~ci'[c].deleting => ci[c].exists /\ ~ci[c].deleting
                 /\ ci'[c].st = ci[c].st
  PROVE  RestInv'
<1>1. ASSUME NEW c \in CareInstructions PROVE Kept(c)'
  <2>1. CASE c \in queue'
    BY <2>1 DEF Kept, ManagerKept, ConfigKept, NewIsQueued, Passed
  <2>2. CASE c \notin queue'
    <3>1. /\ c \notin queue /\ ManagerKept(c) /\ ConfigKept(c) /\ NewIsQueued(c)
      BY <2>2 DEF RestInv
    <3>2. /\ seen'[c] = seen[c] /\ ci'[c].finalizer = ci[c].finalizer
          /\ Passed(c)' <=> Passed(c)
          /\ Counted(c)' <=> Counted(c)
      BY <2>2, <3>1 DEF Passed, Counted, workerVars
    <3>3. NewIsQueued(c)'
      BY <3>1, <3>2 DEF NewIsQueued
    <3>4. ConfigKept(c)'
      BY <2>2, <3>1, <3>2 DEF ConfigKept
    <3>5. ManagerKept(c)'
      BY <2>2, <3>1, <3>2 DEF ManagerKept, Behind
    <3> QED BY <3>3, <3>4, <3>5 DEF Kept
  <2> QED BY <2>1, <2>2
<1>2. ReadHolds'
  <2>1. pc # "idle" => cur \in CareInstructions
    BY DEF TypeOK, WorkerTypes
  <2>2. /\ pc' = pc /\ cur' = cur /\ obj' = obj /\ orig' = orig /\ cfg' = cfg
        /\ entry' = entry
    BY DEF workerVars, entry
  <2> QED BY <2>1, <2>2 DEF RestInv, ReadHolds
<1> QED BY <1>1, <1>2 DEF RestInv, Kept

(* The cache catches up, or a resync comes: the CareInstruction is queued.  *)
LEMMA RestDeliver ==
  ASSUME IInv, RestInv, NEW c \in CareInstructions, Deliver(c) \/ Resync(c)
  PROVE  RestInv'
<1>1. UNCHANGED <<ci, gardens, access, workerVars>> /\ queue' = queue \cup {c}
  BY DEF Deliver, Resync, worldVars
<1>2. seen \in [CareInstructions -> CareInstruction] /\ TypeOK
  BY DEF IInv, TypeOK, ServerTypes
<1>3. \A d \in CareInstructions \ {c} : seen'[d] = seen[d]
  BY <1>2 DEF Deliver, Resync
<1> QED BY <1>1, <1>2, <1>3, RestEnvironment

(* A user creates, edits, annotates or deletes a CareInstruction. One that  *)
(* is created again under its old key is seen as a change.                  *)
LEMMA RestEdit ==
  ASSUME IInv, RestInv, NEW c \in CareInstructions, CareInstructionEdits(c)
  PROVE  RestInv'
<1>1. /\ UNCHANGED <<seen, gardens, access, workerVars>> /\ queue \subseteq queue'
      /\ TypeOK /\ ci \in [CareInstructions -> CareInstruction]
  BY DEF CareInstructionEdits, CreateCareInstruction, EditSpec, Annotate,
         DeleteCareInstruction, ShootAppears, ClusterChanges, serverVars, worldVars,
         IInv, TypeOK, ServerTypes
<1>2. CASE CreateCareInstruction(c)
  <2>1. PICK s \in Specs : ci' = [ci EXCEPT ![c] = New(s)]
    BY <1>2 DEF CreateCareInstruction
  <2>2. ~ci[c].finalizer /\ FinalizerHolds(seen[c]) /\ CacheLags(c) /\ NewIsQueued(c)
    BY <1>2 DEF CreateCareInstruction, IInv, CacheLags, FinalizerHolds, RestInv
  <2>3. /\ ~ci'[c].finalizer /\ ~ci'[c].deleting
        /\ ci'[c].finalizer = ci[c].finalizer
    BY <1>1, <2>1, <2>2 DEF New, NoCareInstruction, CareInstruction
  <2>4. c \notin queue => Behind(c)'
    BY <1>1, <2>2, <2>3 DEF Behind, CacheLags, NewIsQueued
  <2>5. UNCHANGED queue
    BY <1>2 DEF CreateCareInstruction
  <2>6. ASSUME NEW d \in CareInstructions \ queue'
        PROVE  /\ ci'[d].finalizer = ci[d].finalizer
               /\ \/ ci'[d].exists /\ ~ci'[d].deleting => Behind(d)'
                  \/ ci'[d] = ci[d]
    <3>1. CASE d = c
      BY <2>3, <2>4, <2>5, <3>1
    <3>2. CASE d # c
      BY <1>1, <2>1, <3>2
    <3> QED BY <3>1, <3>2
  <2> QED BY <1>1, <2>6, RestEnvironment
<1>3. CASE EditSpec(c)
  <2>1. PICK s \in Specs : ci' = [ci EXCEPT ![c].spec = s]
    BY <1>3 DEF EditSpec
  <2>2. \A d \in CareInstructions :
          /\ ci'[d].finalizer = ci[d].finalizer /\ ci'[d].exists = ci[d].exists
          /\ ci'[d].deleting = ci[d].deleting /\ ci'[d].st = ci[d].st
    BY <1>1, <2>1 DEF CareInstruction
  <2> QED BY <1>1, <2>2, RestEnvironment
<1>4. CASE Annotate(c)
  <2>1. \A d \in CareInstructions :
          /\ ci'[d].finalizer = ci[d].finalizer /\ ci'[d].exists = ci[d].exists
          /\ ci'[d].deleting = ci[d].deleting /\ ci'[d].st = ci[d].st
    BY <1>1, <1>4 DEF CareInstruction, Annotate
  <2> QED BY <1>1, <2>1, RestEnvironment
<1>5. CASE DeleteCareInstruction(c)
  <2>1. /\ ci'[c].finalizer = ci[c].finalizer
        /\ ~(ci'[c].exists /\ ~ci'[c].deleting)
        /\ \A d \in CareInstructions \ {c} : ci'[d] = ci[d]
    BY <1>1, <1>5 DEF DeleteCareInstruction, NoCareInstruction, CareInstruction
  <2> QED BY <1>1, <2>1, RestEnvironment
<1>6. CASE ShootAppears(c) \/ ClusterChanges(c)
  <2>1. UNCHANGED ci
    BY <1>6 DEF ShootAppears, ClusterChanges, serverVars
  <2> QED BY <1>1, <2>1, RestEnvironment
<1> QED BY <1>2, <1>3, <1>4, <1>5, <1>6 DEF CareInstructionEdits

(* Credentials change: the CareInstructions whose cached spec names the     *)
(* garden are queued, unless it is named by a kubeconfig Secret.            *)
LEMMA RestSecret ==
  ASSUME IInv, RestInv, NEW k \in Namespaces \X Gardens, SecretChanges(k)
  PROVE  RestInv'
<1>1. /\ UNCHANGED <<ci, seen, gardens, workerVars>> /\ TypeOK
      /\ queue' = queue \cup EnqueueForGardenCluster(k[2])
  BY DEF SecretChanges, IInv
<1>2. PICK config : access' = [access EXCEPT ![k].config = config]
  BY DEF SecretChanges
<1>3. access \in [Namespaces \X Gardens -> [config : Configs \cup {None}, ready : BOOLEAN]]
  BY <1>1 DEF TypeOK, WorldTypes
<1>4. ASSUME NEW c \in CareInstructions \ queue', seen[c].exists,
             seen[c].spec.garden \notin KubeconfigGardens
      PROVE  access'[AccessKey(c, seen[c].spec)] = access[AccessKey(c, seen[c].spec)]
  <2>1. seen[c].spec \in Specs
    BY <1>1 DEF TypeOK, ServerTypes, CareInstruction
  <2>2. AccessKey(c, seen[c].spec) \in Namespaces \X Gardens
    BY <2>1, KeyTypes
  <2>3. seen[c].spec.garden # k[2]
    BY <1>1, <1>4 DEF EnqueueForGardenCluster
  <2>4. AccessKey(c, seen[c].spec) # k
    BY <2>3 DEF AccessKey
  <2> QED BY <1>2, <1>3, <2>2, <2>4
<1> QED BY <1>1, <1>4, RestEnvironment

(* Readiness, the ConfigMaps and the managers' own steps leave objects,     *)
(* cache, map and credentials alone.                                        *)
LEMMA RestWorld ==
  ASSUME IInv, RestInv,
         \/ \E k \in Namespaces \X Gardens : GardenReadinessChanges(k)
         \/ \E k \in Namespaces \X AuthNames :
              AuthConfigMapChanges(k) \/ AuthConfigMapDeleted(k)
         \/ \E m \in Managers : ManagerSteps(m)
  PROVE  RestInv'
<1>1. /\ UNCHANGED <<ci, seen, gardens, workerVars>> /\ queue \subseteq queue' /\ TypeOK
  BY DEF GardenReadinessChanges, AuthConfigMapChanges, AuthConfigMapDeleted, ManagerSteps,
         ManagerExits, ManagerDies, InitialShootPass, serverVars, IInv
<1>2. \A k \in Namespaces \X Gardens : access'[k].config = access[k].config
  <2>1. access \in [Namespaces \X Gardens -> [config : Configs \cup {None}, ready : BOOLEAN]]
    BY <1>1 DEF TypeOK, WorldTypes
  <2>2. \/ access' = access
        \/ \E k \in Namespaces \X Gardens : access' = [access EXCEPT ![k].ready = ~@]
    BY DEF GardenReadinessChanges, AuthConfigMapChanges, AuthConfigMapDeleted, ManagerSteps,
           ManagerExits, ManagerDies, InitialShootPass, worldVars
  <2> QED BY <2>1, <2>2
<1>3. \A c \in CareInstructions : AccessKey(c, seen[c].spec) \in Namespaces \X Gardens
  BY <1>1, KeyTypes DEF TypeOK, ServerTypes, CareInstruction
<1> QED BY <1>1, <1>2, <1>3, RestEnvironment

(* After a crash everything that exists is in the queue.                    *)
LEMMA RestCrash ==
  ASSUME Crash
  PROVE  RestInv'
<1>1. ASSUME NEW c \in CareInstructions PROVE Kept(c)'
  BY DEF Crash, Kept, ManagerKept, ConfigKept, NewIsQueued, Passed
<1>2. ReadHolds'
  BY DEF Crash, IdleWorkerNext, ReadHolds
<1> QED BY <1>1, <1>2 DEF RestInv, Kept

-----------------------------------------------------------------------------
(* Steps of the worker.                                                     *)

(* A reconcile begins: the key leaves the queue, and what was read is what  *)
(* the cache holds.                                                         *)
LEMMA RestBegin ==
  ASSUME IInv, RestInv, NEW c \in CareInstructions, Begin(c)
  PROVE  RestInv'
<1>1. /\ UNCHANGED <<seen, gardens, access>>
      /\ ci \in [CareInstructions -> CareInstruction]
      /\ seen \in [CareInstructions -> CareInstruction]
      /\ CacheLags(c) /\ cur \notin CareInstructions
      /\ pc = "idle" /\ c \in queue
  BY ConstantsAssumption DEF Begin, BeginNotFound, BeginCreate, BeginDelete, worldVars,
         IInv, TypeOK, ServerTypes, At, RestInv, ReadHolds
<1>2. CASE BeginNotFound(c)
  <2>1. /\ UNCHANGED <<ci, workerVars>> /\ queue' = queue \ {c} /\ ~seen[c].exists
    BY <1>2 DEF BeginNotFound, workerVars
  <2>2. ASSUME NEW d \in CareInstructions PROVE Kept(d)'
    <3>1. ManagerKept(d) /\ ConfigKept(d) /\ NewIsQueued(d)
      BY DEF RestInv
    <3>2. CASE d = c
      BY <1>1, <2>1, <3>2 DEF Kept, ManagerKept, ConfigKept, NewIsQueued, Behind
    <3>3. CASE d # c
      BY <1>1, <2>1, <3>1, <3>3
         DEF Kept, ManagerKept, ConfigKept, NewIsQueued, Behind, Passed, Counted, workerVars
    <3> QED BY <3>2, <3>3
  <2>3. ReadHolds'
    BY <1>1, <2>1 DEF RestInv, ReadHolds, workerVars
  <2> QED BY <2>2, <2>3 DEF RestInv, Kept
<1>3. CASE BeginCreate(c) \/ BeginDelete(c)
  <2> DEFINE there == seen[c].finalizer \/ ci[c].exists
  <2> HIDE DEF there
  <2>1. CASE BeginCreate(c) /\ ~there
    <3>1. UNCHANGED <<queue, ci, workerVars>> /\ TypeOK
      BY <2>1 DEF there, BeginCreate, workerVars, IInv
    <3> QED BY <1>1, <3>1, RestEnvironment
  <2>2. CASE BeginDelete(c) \/ (BeginCreate(c) /\ there)
    <3>1. /\ queue' = queue \ {c} /\ cur' = c /\ orig' = seen[c].st
          /\ \/ pc' = "label" /\ ~seen[c].deleting /\ ci'[c].finalizer
             \/ pc' = "cleanup" /\ seen[c].deleting /\ ci' = ci
          /\ seen[c].exists
          /\ \A d \in CareInstructions \ {c} : ci'[d] = ci[d]
      BY <1>1, <2>2 DEF there, BeginCreate, BeginDelete, CareInstruction
    <3>2. obj'.spec = seen[c].spec /\ obj'.st.restarts = seen[c].st.restarts
      <4>1. seen[c] \in CareInstruction /\ seen[c].st \in Status
        BY <1>1 DEF CareInstruction
      <4>2. InitializeConditionsToUnknown(seen[c].st).restarts = seen[c].st.restarts
        BY <4>1 DEF InitializeConditionsToUnknown, Status
      <4>3. \/ obj' = seen[c]
            \/ obj' = [seen[c] EXCEPT !.st = InitializeConditionsToUnknown(@)]
        BY <2>2 DEF there, BeginCreate, BeginDelete
      <4> QED BY <4>1, <4>2, <4>3 DEF CareInstruction
    <3>3. ASSUME NEW d \in CareInstructions PROVE Kept(d)'
      <4>1. ManagerKept(d) /\ ConfigKept(d) /\ NewIsQueued(d)
        BY DEF RestInv
      <4>2. CASE d = c
        <5>1. ~Passed(c)'
          BY <3>1 DEF Passed
        <5> QED BY <1>1, <3>1, <4>2, <5>1 DEF Kept, ManagerKept, ConfigKept, NewIsQueued
      <4>3. CASE d # c
        <5>1. /\ Passed(d)' => Passed(d)
              /\ ~Counted(d)
          BY <1>1, <3>1, <4>3 DEF Passed, Counted
        <5> QED BY <1>1, <3>1, <4>1, <4>3, <5>1
                DEF Kept, ManagerKept, ConfigKept, NewIsQueued, Behind
      <4> QED BY <4>2, <4>3
    <3>4. ReadHolds'
      <4>1. CASE pc' = "label"
        BY <1>1, <3>1, <3>2, <4>1 DEF ReadHolds
      <4>2. CASE pc' = "cleanup"
        BY <1>1, <3>1, <4>2 DEF ReadHolds
      <4> QED BY <3>1, <4>1, <4>2
    <3> QED BY <3>3, <3>4 DEF RestInv, Kept
  <2> QED BY <1>3, <2>1, <2>2
<1> QED BY <1>2, <1>3 DEF Begin

(* Steps inside a reconcile concern its own CareInstruction only.           *)
LEMMA RestWorker ==
  ASSUME RestInv, NEW c \in CareInstructions, cur = c, cur' \in {c, None},
         UNCHANGED <<seen, access>>, queue \subseteq queue',
         \A d \in CareInstructions \ {c} :
           ci'[d] = ci[d] /\ gardens'[GardenKey(d)] = gardens[GardenKey(d)],
         Kept(c)', ReadHolds'
  PROVE  RestInv'
<1>1. ASSUME NEW d \in CareInstructions, d # c PROVE Kept(d)'
  <2>1. ManagerKept(d) /\ ConfigKept(d) /\ NewIsQueued(d)
    BY DEF RestInv
  <2>2. /\ Passed(d)' => Passed(d)
        /\ ~Counted(d)
        /\ ci'[d] = ci[d] /\ gardens'[GardenKey(d)] = gardens[GardenKey(d)]
    BY <1>1 DEF Passed, Counted
  <2> QED BY <2>1, <2>2 DEF Kept, ManagerKept, ConfigKept, NewIsQueued, Behind
<1> QED BY <1>1 DEF RestInv, Kept

(* Up to the decision about the manager, and when it ends in an error that  *)
(* is retried, nothing is claimed of the CareInstruction in work.           *)
LEMMA RestEarly ==
  ASSUME IInv, RestInv, pc \in Early,
         UNCHANGED <<ci, seen, queue, access, cur, orig>>,
         \A d \in CareInstructions \ {cur} : gardens'[GardenKey(d)] = gardens[GardenKey(d)],
         pc' \in Early \/ (pc' = "status" /\ retry'),
         obj'.spec = obj.spec, obj'.st.restarts = obj.st.restarts,
         pc' = "start" => cfg' = access[AccessKey(cur, obj.spec)].config
  PROVE  RestInv'
<1>1. cur \in CareInstructions /\ ci[cur].finalizer /\ ReadHolds
  BY TypeBusy DEF IInv, WorkerHolds, RestInv, Early
<1>2. ASSUME NEW c \in CareInstructions, c = cur PROVE Kept(c)'
  <2>1. ~Passed(c)'
    BY <1>2 DEF Passed, Early
  <2> QED BY <1>1, <1>2, <2>1 DEF Kept, ManagerKept, ConfigKept, NewIsQueued
<1>3. ReadHolds'
  BY <1>1 DEF ReadHolds, Early
<1> QED BY <1>1, <1>2, <1>3, RestWorker

(* The manager is there and has the credentials that were read.             *)
LEMMA RestManager ==
  ASSUME IInv, RestInv, pc \in {"access", "start"}, pc' = ShootsNClusters,
         UNCHANGED <<ci, seen, queue, access, cur, orig>>,
         \A d \in CareInstructions \ {cur} : gardens'[GardenKey(d)] = gardens[GardenKey(d)],
         obj'.st.restarts = obj.st.restarts,
         gardens'[GardenKey(cur)].mgr # None,
         cur \notin queue /\ obj.spec.garden \notin KubeconfigGardens =>
           gardens'[GardenKey(cur)].config = access[AccessKey(cur, obj.spec)].config
  PROVE  RestInv'
<1>1. cur \in CareInstructions /\ ci[cur].finalizer /\ ReadHolds
  BY TypeBusy DEF IInv, WorkerHolds, RestInv
<1>2. pc' \in {"annotation", "authcm"}
  BY DEF ShootsNClusters
<1>3. cur \notin queue => obj.spec = seen[cur].spec
  BY <1>1 DEF ReadHolds
<1>4. ASSUME NEW c \in CareInstructions, c = cur PROVE Kept(c)'
  BY <1>1, <1>3, <1>4 DEF Kept, ManagerKept, ConfigKept, NewIsQueued, Passed
<1>5. ReadHolds'
  BY <1>1, <1>2 DEF ReadHolds
<1> QED BY <1>1, <1>4, <1>5, RestWorker

(* The steps of reconcileManager.                                           *)
LEMMA RestReconcileManager ==
  ASSUME IInv, RestInv,
         \/ EnsureAuthConfigMapLabeled \/ EnsureGardenEntry \/ EnsureGardenEntryFails
         \/ AccessError \/ KeepManager \/ StopManager \/ StartManager \/ StartManagerFails
  PROVE  RestInv'
<1>1. pc \in Early /\ TypeOK
  BY DEF EnsureAuthConfigMapLabeled, EnsureGardenEntry, EnsureGardenEntryFails, AccessError,
         KeepManager, StopManager, StartManager, StartManagerFails, At, Early, IInv
<1>2. /\ cur \in CareInstructions /\ obj \in CareInstruction /\ obj.st \in Status
      /\ gardens \in [Keys -> Garden] /\ GardenKey(cur) \in Keys
  BY <1>1, TypeBusy DEF Early, TypeOK, GardenTypes
<1>3. \A d \in CareInstructions \ {cur} : GardenKey(d) # GardenKey(cur) /\ GardenKey(d) \in Keys
  BY <1>2, OtherKey DEF Keys
<1>4. UNCHANGED <<ci, seen, queue, access, cur, orig>>
  BY DEF EnsureAuthConfigMapLabeled, EnsureGardenEntry, EnsureGardenEntryFails, AccessError,
         KeepManager, StopManager, StartManager, StartManagerFails, serverVars, worldVars
<1>5. CASE EnsureAuthConfigMapLabeled
  BY <1>1, <1>4, <1>5, RestEarly DEF EnsureAuthConfigMapLabeled, Early
<1>6. CASE EnsureGardenEntry
  <2>1. \A d \in CareInstructions \ {cur} : gardens'[GardenKey(d)] = gardens[GardenKey(d)]
    BY <1>2, <1>3, <1>6 DEF EnsureGardenEntry
  <2> QED BY <1>1, <1>4, <1>6, <2>1, RestEarly DEF EnsureGardenEntry, Early
<1>7. CASE EnsureGardenEntryFails \/ AccessError \/ StartManagerFails
  <2>1. /\ pc' = "status" /\ retry' /\ gardens' = gardens
        /\ \E st \in {obj.st, [obj.st EXCEPT !.access = "False"]} : ManagerError(st)
    BY <1>7 DEF EnsureGardenEntryFails, AccessError, StartManagerFails, ManagerError
  <2>2. obj'.spec = obj.spec /\ obj'.st.restarts = obj.st.restarts
    BY <1>2, <2>1 DEF ManagerError, CareInstruction, Status
  <2> QED BY <1>1, <1>4, <2>1, <2>2, RestEarly
<1>8. CASE StopManager
  <2>1. obj'.spec = obj.spec /\ obj'.st.restarts = obj.st.restarts
    BY <1>2, <1>8 DEF StopManager, CareInstruction, Status
  <2> QED BY <1>1, <1>4, <1>8, <2>1, RestEarly DEF StopManager, Early
<1>9. CASE KeepManager
  <2>1. obj'.st.restarts = obj.st.restarts
    BY <1>2, <1>9 DEF KeepManager, CareInstruction, Status
  <2>2. entry.mgr # None /\ entry.config = access[AccessKey(cur, obj.spec)].config
    BY <1>9 DEF KeepManager, ManagerIsCurrent
  <2> QED BY <1>4, <1>9, <2>1, <2>2, RestManager DEF KeepManager, At, entry
<1>10. CASE StartManager
  <2>1. PICK m \in Managers : gardens' = [gardens EXCEPT ![GardenKey(cur)] =
            [@ EXCEPT !.mgr = m, !.run = m, !.config = cfg, !.spec = obj.spec]]
    BY <1>10 DEF StartManager
  <2>2. obj'.st.restarts = obj.st.restarts
    BY <1>2, <1>10 DEF StartManager, CareInstruction, Status
  <2>3. /\ gardens'[GardenKey(cur)].mgr = m /\ gardens'[GardenKey(cur)].config = cfg
        /\ \A d \in CareInstructions \ {cur} : gardens'[GardenKey(d)] = gardens[GardenKey(d)]
    BY <1>2, <1>3, <2>1 DEF Garden
  <2>4. m # None
    BY ConstantsAssumption
  <2>5. cur \notin queue /\ obj.spec.garden \notin KubeconfigGardens =>
          cfg = access[AccessKey(cur, obj.spec)].config
    BY <1>10 DEF StartManager, At, RestInv, ReadHolds
  <2> QED BY <1>4, <1>10, <2>2, <2>3, <2>4, <2>5, RestManager DEF StartManager, At
<1> QED BY <1>5, <1>6, <1>7, <1>8, <1>9, <1>10

(* The steps of reconcileShootsNClusters. A manager that goes leaves a      *)
(* count that the status patch will write, or a cache that is behind.       *)
LEMMA RestLate ==
  ASSUME IInv, RestInv, pc \in {"annotation", "authcm", "clusters"},
         pc' \in {"authcm", "clusters", "status"},
         UNCHANGED <<seen, queue, access, cur, orig, retry>>,
         \A d \in CareInstructions \ {cur} :
           ci'[d] = ci[d] /\ gardens'[GardenKey(d)] = gardens[GardenKey(d)],
         /\ ci'[cur].exists = ci[cur].exists /\ ci'[cur].deleting = ci[cur].deleting
         /\ ci'[cur].finalizer = ci[cur].finalizer /\ ci'[cur].st = ci[cur].st,
         gardens'[GardenKey(cur)].config = entry.config,
         Passed(cur) /\ ci[cur].exists /\ ~ci[cur].deleting =>
           \/ gardens'[GardenKey(cur)].mgr # None
           \/ Behind(cur) \/ obj'.st.restarts # orig.restarts,
         pc' = "authcm" /\ gardens'[GardenKey(cur)].mgr # None => obj'.st.restarts = orig.restarts
  PROVE  RestInv'
<1>1. cur \in CareInstructions /\ ci[cur].finalizer /\ ReadHolds /\ ConfigKept(cur)
  BY TypeBusy DEF IInv, WorkerHolds, RestInv
<1>2. ASSUME NEW c \in CareInstructions, c = cur PROVE Kept(c)'
  <2>1. /\ Passed(c)' => Passed(cur)
        /\ Behind(c)' <=> Behind(cur)
        /\ Counted(c)' <=> obj'.st.restarts # orig.restarts
    BY <1>2 DEF Passed, Behind, Counted
  <2> QED BY <1>1, <1>2, <2>1 DEF Kept, ManagerKept, ConfigKept, NewIsQueued, entry
<1>3. ReadHolds'
  BY <1>1 DEF ReadHolds, entry
<1> QED BY <1>1, <1>2, <1>3, RestWorker

(* restartShootController: the count goes up by one, from the value in      *)
(* memory, which is the one that was read or the present one of the server. *)
LEMMA RestRestart ==
  ASSUME IInv, RestInv, pc \in {"annotation", "authcm"}, pc' \in {"authcm", "clusters"},
         UNCHANGED <<seen, queue, access, cur, orig, retry>>,
         ci' = ci \/ ci' = [ci EXCEPT ![cur].annotated = FALSE],
         NEW g \in Garden, g.mgr = entry.mgr, g.config = entry.config,
         NEW o \in CareInstruction, RestartShootController(g, o),
         o.st.restarts = obj.st.restarts
           \/ (pc = "annotation" /\ o.st.restarts = ci[cur].st.restarts)
  PROVE  RestInv'
<1>1. /\ cur \in CareInstructions /\ GardenKey(cur) \in Keys /\ entry \in Garden
      /\ ci \in [CareInstructions -> CareInstruction] /\ gardens \in [Keys -> Garden]
      /\ ci[cur].st.restarts \in Nat /\ obj.st.restarts \in Nat /\ o.st \in Status
      /\ orig.restarts \in Nat
  BY TypeBusy DEF IInv, TypeOK, ServerTypes, GardenTypes, WorkerTypes, CareInstruction, Status
<1>2. ReadHolds /\ ManagerKept(cur)
  BY <1>1 DEF RestInv
<1>3. entry.exists /\ entry.run # None
  BY DEF IInv, GardenClientSet, At
<1>4. /\ gardens' = [gardens EXCEPT ![GardenKey(cur)] = [g EXCEPT !.mgr = None]]
      /\ obj' = [o EXCEPT !.st = RestartedStatus(@)]
  BY <1>3 DEF RestartShootController
<1>5. gardens'[GardenKey(cur)].mgr = None /\ gardens'[GardenKey(cur)].config = entry.config
  BY <1>1, <1>4 DEF Garden
<1>6. \A d \in CareInstructions \ {cur} :
        ci'[d] = ci[d] /\ gardens'[GardenKey(d)] = gardens[GardenKey(d)]
  BY <1>1, <1>4, OtherKey DEF Keys
<1>7. /\ ci'[cur].exists = ci[cur].exists /\ ci'[cur].deleting = ci[cur].deleting
      /\ ci'[cur].finalizer = ci[cur].finalizer /\ ci'[cur].st = ci[cur].st
  BY <1>1 DEF CareInstruction
<1>8. ASSUME Passed(cur), ci[cur].exists, ~ci[cur].deleting
      PROVE  Behind(cur) \/ obj'.st.restarts # orig.restarts
  <2>1. cur \notin queue /\ seen[cur].st.restarts = orig.restarts
    BY <1>2, <1>8 DEF Passed, ReadHolds
  <2>2. CASE entry.mgr # None
    <3>1. obj'.st.restarts = o.st.restarts + 1
      BY <1>1, <1>4, <2>2 DEF RestartedStatus, CareInstruction, Status
    <3>2. obj.st.restarts = orig.restarts
      BY <1>2, <2>2 DEF ReadHolds
    <3> QED BY <1>1, <2>1, <3>1, <3>2 DEF Behind
  <2>3. CASE entry.mgr = None
    <3>1. obj'.st.restarts = o.st.restarts
      BY <1>1, <1>4, <2>3 DEF RestartedStatus, CareInstruction
    <3>2. Behind(cur) \/ obj.st.restarts # orig.restarts
      BY <1>2, <1>8, <2>3 DEF ManagerKept, Counted, entry
    <3>3. pc = "annotation" => obj.st.restarts = orig.restarts
      BY <1>2 DEF ReadHolds
    <3> QED BY <3>1, <3>2, <3>3
  <2> QED BY <2>2, <2>3
<1> QED BY <1>5, <1>6, <1>7, <1>8, RestLate

(* reconcileShootsNClusters, its failures included.                         *)
LEMMA RestReconcileShoots ==
  ASSUME IInv, RestInv,
         \/ HandleReconcileAnnotation \/ CheckAuthConfigMap \/ CompareClusters
         \/ HandleReconcileAnnotationFails \/ CheckAuthConfigMapFails \/ CompareClustersFails
  PROVE  RestInv'
<1>1. /\ pc \in {"annotation", "authcm", "clusters"}
      /\ UNCHANGED <<seen, queue, access, cur, orig, retry>>
  BY DEF HandleReconcileAnnotation, CheckAuthConfigMap, CompareClusters,
         HandleReconcileAnnotationFails, CheckAuthConfigMapFails, CompareClustersFails,
         SyncFails, At, serverVars, worldVars
<1>2. /\ TypeOK /\ cur \in CareInstructions /\ entry \in Garden
      /\ obj \in CareInstruction /\ ci[cur].spec \in Specs /\ obj.spec \in Specs
      /\ obj.st \in Status /\ ci[cur].st \in Status
  BY <1>1, TypeBusy DEF IInv
<1>3. ReadHolds /\ ManagerKept(cur)
  BY <1>2 DEF RestInv
<1>4. CASE HandleReconcileAnnotation
  <2> DEFINE st == RefreshStatus(obj.st, ci[cur].st)
             g == [entry EXCEPT !.spec = IF alias THEN ci[cur].spec ELSE @]
             o == [obj EXCEPT !.annotated = FALSE, !.spec = ci[cur].spec,
                              !.st = RefreshStatus(@, ci[cur].st)]
  <2>1. g \in Garden /\ g.mgr = entry.mgr /\ g.config = entry.config
    BY <1>2 DEF Garden
  <2>2. st = obj.st \/ st = ci[cur].st
    BY DEF RefreshStatus
  <2>3. o \in CareInstruction /\ o.st = st
    <3>1. st \in Status
      BY <1>2, <2>2
    <3> HIDE DEF st
    <3>2. o = [obj EXCEPT !.annotated = FALSE, !.spec = ci[cur].spec, !.st = st]
      BY DEF st
    <3> QED BY <1>2, <3>1, <3>2 DEF CareInstruction
  <2>4. /\ RestartShootController(g, o) /\ pc = "annotation" /\ pc' = "authcm"
        /\ ci' = [ci EXCEPT ![cur].annotated = FALSE]
    BY <1>4 DEF HandleReconcileAnnotation, At
  <2> HIDE DEF g, o, st
  <2>5. o.st.restarts = obj.st.restarts \/ o.st.restarts = ci[cur].st.restarts
    BY <2>2, <2>3
  <2> QED BY <1>1, <2>1, <2>3, <2>4, <2>5, RestRestart
<1>5. CASE CheckAuthConfigMap /\ ~UNCHANGED <<gardens, mgr, obj>>
  <2> DEFINE g == [entry EXCEPT !.hash = AuthHash(cur, obj.spec)]
  <2>1. g \in Garden /\ g.mgr = entry.mgr /\ g.config = entry.config
    BY <1>2, TypeHash DEF Garden
  <2>2. RestartShootController(g, obj) /\ pc = "authcm" /\ pc' = "clusters" /\ ci' = ci
    BY <1>5 DEF CheckAuthConfigMap, At, serverVars
  <2> HIDE DEF g
  <2> QED BY <1>1, <1>2, <2>1, <2>2, RestRestart
<1>6. CASE \/ CompareClusters \/ HandleReconcileAnnotationFails \/ CheckAuthConfigMapFails
           \/ CompareClustersFails
           \/ (CheckAuthConfigMap /\ UNCHANGED <<gardens, mgr, obj>>)
  <2>1. /\ UNCHANGED <<ci, gardens>> /\ pc' \in {"clusters", "status"}
        /\ \/ obj' = obj
           \/ \E why \in {"True", "Mismatch", "Error"} : obj' = [obj EXCEPT !.st.synced = why]
    BY <1>6 DEF CompareClusters, HandleReconcileAnnotationFails, CheckAuthConfigMapFails,
                CompareClustersFails, CheckAuthConfigMap, SyncFails, SyncError, serverVars
  <2>2. obj'.st.restarts = obj.st.restarts
    BY <1>2, <2>1 DEF CareInstruction, Status
  <2> QED BY <1>1, <1>3, <2>1, <2>2, RestLate DEF ManagerKept, Counted, entry
<1> QED BY <1>4, <1>5, <1>6

(* The status patch: a count that differs from the one that was read is     *)
(* written, and the cache is then behind; a difference that was there       *)
(* before stays.                                                            *)
LEMMA RestPatch ==
  ASSUME IInv, RestInv, PatchStatus \/ PatchStatusFails
  PROVE  RestInv'
<1> DEFINE want == ReconcileStatus(obj.st)
           new == MergeStatus(orig, want, ci[cur].st)
<1>1. /\ pc = "status" /\ UNCHANGED <<seen, access>> /\ IdleWorkerNext
      /\ queue \subseteq queue' /\ queue' \subseteq queue \cup {cur}
      /\ cur \notin queue' => PatchStatus /\ ~retry
  BY DEF PatchStatus, PatchStatusFails, At, worldVars
<1>2. /\ TypeOK /\ cur \in CareInstructions /\ GardenKey(cur) \in Keys
      /\ obj.st \in Status /\ ci[cur].st \in Status /\ orig \in Status
      /\ ci \in [CareInstructions -> CareInstruction] /\ gardens \in [Keys -> Garden]
      /\ ci[cur].finalizer
  BY <1>1, TypeBusy DEF IInv, TypeOK, ServerTypes, GardenTypes, WorkerTypes, WorkerHolds
<1>3. ReadHolds /\ ManagerKept(cur) /\ ConfigKept(cur)
  BY <1>2 DEF RestInv
<1>4. /\ \A d \in CareInstructions \ {cur} : ci'[d] = ci[d]
      /\ \A k \in Keys : /\ gardens'[k].mgr = gardens[k].mgr
                         /\ gardens'[k].config = gardens[k].config
      /\ \A d \in CareInstructions \ {cur} : gardens'[GardenKey(d)] = gardens[GardenKey(d)]
      /\ /\ ci'[cur].exists = ci[cur].exists /\ ci'[cur].deleting = ci[cur].deleting
         /\ ci'[cur].finalizer = ci[cur].finalizer
      /\ PatchStatus => ci'[cur].st = new
  <2>1. \A d \in CareInstructions \ {cur} : GardenKey(d) # GardenKey(cur) /\ GardenKey(d) \in Keys
    BY <1>2, OtherKey DEF Keys
  <2>2. gardens' = gardens \/ \E s : gardens' = [gardens EXCEPT ![GardenKey(cur)].spec = s]
    BY DEF PatchStatus, PatchStatusFails
  <2>3. /\ \A k \in Keys : /\ gardens'[k].mgr = gardens[k].mgr
                           /\ gardens'[k].config = gardens[k].config
        /\ \A d \in CareInstructions \ {cur} : gardens'[GardenKey(d)] = gardens[GardenKey(d)]
    BY <1>2, <2>1, <2>2 DEF Garden
  <2>4. /\ PatchStatus => ci' = [ci EXCEPT ![cur].st = new]
        /\ PatchStatus \/ ci' = ci
    BY DEF PatchStatus, PatchStatusFails
  <2> HIDE DEF new
  <2> QED BY <1>2, <2>3, <2>4 DEF CareInstruction
<1>5. new.restarts = IF orig.restarts = obj.st.restarts
                     THEN ci[cur].st.restarts ELSE obj.st.restarts
  <2>1. want \in Status /\ want.restarts = obj.st.restarts
    BY <1>2 DEF ReconcileStatus, Status
  <2> HIDE DEF want
  <2> QED BY <1>2, <2>1 DEF MergeStatus, Status
<1> HIDE DEF new, want
<1>6. ASSUME NEW c \in CareInstructions, c = cur PROVE Kept(c)'
  <2>1. NewIsQueued(c)'
    BY <1>2, <1>4, <1>6 DEF NewIsQueued
  <2>2. CASE c \in queue'
    BY <2>1, <2>2 DEF Kept, ManagerKept, ConfigKept, Passed
  <2>3. CASE c \notin queue'
    <3>1. PatchStatus /\ Passed(cur) /\ cur \notin queue
      BY <1>1, <1>6, <2>3 DEF Passed
    <3>2. ConfigKept(c)'
      BY <1>1, <1>2, <1>3, <1>4, <1>6, <3>1 DEF ConfigKept
    <3>3. seen[cur].st.restarts = orig.restarts
      BY <1>1, <1>3, <3>1 DEF ReadHolds
    <3>4. Behind(cur) \/ Counted(cur) => Behind(c)'
      BY <1>1, <1>4, <1>5, <1>6, <3>1, <3>3 DEF Behind, Counted
    <3>5. ManagerKept(c)'
      BY <1>2, <1>3, <1>4, <1>6, <3>1, <3>4 DEF ManagerKept
    <3> QED BY <2>1, <3>2, <3>5 DEF Kept
  <2> QED BY <2>2, <2>3
<1>7. ReadHolds' /\ cur' = None
  BY <1>1 DEF ReadHolds, IdleWorkerNext
<1> QED BY <1>1, <1>2, <1>4, <1>6, <1>7, RestWorker

(* A deletion: the cache shows the object being deleted until the event     *)
(* that brings the next reconcile.                                          *)
LEMMA RestDelete ==
  ASSUME IInv, RestInv,
         CleanupCareInstruction \/ RemoveFinalizer \/ RemoveFinalizerFails
  PROVE  RestInv'
<1>1. /\ pc \in {"cleanup", "finalizer"} /\ UNCHANGED <<seen, access>>
      /\ queue \subseteq queue'
      /\ cur' \in {cur, None}
  BY DEF CleanupCareInstruction, RemoveFinalizer, RemoveFinalizerFails, At, worldVars,
         serverVars, IdleWorkerNext
<1>2. /\ TypeOK /\ cur \in CareInstructions /\ GardenKey(cur) \in Keys
      /\ ci \in [CareInstructions -> CareInstruction] /\ gardens \in [Keys -> Garden]
  BY <1>1, TypeBusy DEF IInv, TypeOK, ServerTypes, GardenTypes
<1>3. cur \notin queue => seen[cur].deleting
  BY <1>1 DEF RestInv, ReadHolds
<1>4. \A d \in CareInstructions \ {cur} :
        ci'[d] = ci[d] /\ gardens'[GardenKey(d)] = gardens[GardenKey(d)]
  BY <1>2, OtherKey DEF CleanupCareInstruction, RemoveFinalizer, RemoveFinalizerFails,
                        serverVars, Keys
<1>5. ASSUME NEW c \in CareInstructions, c = cur PROVE Kept(c)'
  <2>1. CASE c \in queue'
    BY <2>1 DEF Kept, ManagerKept, ConfigKept, NewIsQueued, Passed
  <2>2. CASE c \notin queue'
    <3>1. seen'[c].deleting
      BY <1>1, <1>3, <1>5, <2>2
    <3> QED BY <3>1 DEF Kept, ManagerKept, ConfigKept, NewIsQueued, Behind
  <2> QED BY <2>1, <2>2
<1>6. ReadHolds'
  <2>1. CASE CleanupCareInstruction
    <3>1. pc' = "finalizer" /\ cur' = cur /\ queue' = queue
      BY <2>1 DEF CleanupCareInstruction, serverVars
    <3> QED BY <1>1, <1>3, <3>1 DEF ReadHolds
  <2>2. CASE RemoveFinalizer \/ RemoveFinalizerFails
    BY <2>2 DEF RemoveFinalizer, RemoveFinalizerFails, IdleWorkerNext, ReadHolds
  <2> QED BY <2>1, <2>2
<1> QED BY <1>1, <1>2, <1>4, <1>5, <1>6, RestWorker

-----------------------------------------------------------------------------
(* Every step keeps the invariant.                                          *)
LEMMA RestStep == IInv /\ RestInv /\ [Next]_vars => RestInv'
<1> SUFFICES ASSUME IInv, RestInv, [Next]_vars PROVE RestInv'
  OBVIOUS
<1>1. CASE UNCHANGED vars
  <2>1. UNCHANGED <<ci, seen, queue, gardens, access, workerVars>> /\ TypeOK
    BY <1>1 DEF vars, serverVars, worldVars, workerVars, IInv
  <2> QED BY <2>1, RestEnvironment
<1>2. CASE WorkerSucceeds \/ WorkerFails
  BY <1>2, RestReconcileManager, RestReconcileShoots, RestPatch, RestDelete
     DEF WorkerSucceeds, WorkerFails
<1>3. CASE Crash
  BY <1>3, RestCrash
<1>4. CASE \E c \in CareInstructions :
             Begin(c) \/ Deliver(c) \/ Resync(c) \/ CareInstructionEdits(c)
  BY <1>4, RestBegin, RestDeliver, RestEdit
<1>5. CASE \/ \E m \in Managers : ManagerSteps(m)
           \/ \E k \in Namespaces \X AuthNames :
                AuthConfigMapChanges(k) \/ AuthConfigMapDeleted(k)
  BY <1>5, RestWorld
<1>6. CASE \E k \in Namespaces \X Gardens : SecretChanges(k) \/ GardenReadinessChanges(k)
  BY <1>6, RestSecret, RestWorld
<1> QED BY <1>1, <1>2, <1>3, <1>4, <1>5, <1>6 DEF Next

(* For any number of CareInstructions, managers, edits and faults, what the *)
(* controller owes a CareInstruction is never forgotten: its manager is     *)
(* there, or a key in the queue, a running reconcile or an event that is    *)
(* certain to come will look at it.                                         *)
THEOREM NothingOwed == Spec => []RestInv
<1>1. Init => RestInv
  BY RestInit
<1>2. IInv /\ RestInv /\ [Next]_vars => RestInv'
  BY RestStep
<1> QED BY <1>1, <1>2, ManagersInvariant, PTL DEF Spec

(* Under the same generality, a CareInstruction at rest has a manager, made *)
(* with the present credentials of its garden: restarts, failed starts,     *)
(* stale reads, recreated objects and crashes always end in a reconcile     *)
(* that starts it again.                                                    *)
THEOREM RestingHasManager == Spec => []AtRestHasManager
<1>1. RestInv => AtRestHasManager
  <2> SUFFICES ASSUME RestInv, NEW c \in CareInstructions, AtRest(c),
                      ci[c].exists, ~ci[c].deleting
               PROVE  /\ gardens[GardenKey(c)].mgr # None
                      /\ ci[c].spec.garden \notin KubeconfigGardens =>
                           gardens[GardenKey(c)].config = access[AccessKey(c, ci[c].spec)].config
    BY DEF AtRestHasManager
  <2>1. Passed(c) /\ ~Behind(c) /\ ~Counted(c) /\ seen[c] = ci[c]
    BY DEF AtRest, Passed, Behind, Counted
  <2> QED BY <2>1 DEF RestInv, ManagerKept, ConfigKept
<1> QED BY <1>1, NothingOwed, PTL
=============================================================================
