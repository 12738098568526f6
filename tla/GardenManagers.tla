--------------------------- MODULE GardenManagers ---------------------------
(***************************************************************************)
(* The CareInstruction controller: for every CareInstruction it keeps one  *)
(* garden manager (a controller-runtime manager running a shoot            *)
(* controller against the garden cluster), and replaces, restarts or stops *)
(* that manager as the CareInstruction, the garden credentials and the     *)
(* authentication ConfigMap change.                                        *)
(*                                                                         *)
(* One worker reconciles one CareInstruction at a time; it runs against    *)
(* users editing the API objects, an informer cache that lags the server,  *)
(* garden managers that stop or die in their own goroutines, API calls     *)
(* that fail, and crashes of the whole process.                            *)
(***************************************************************************)
EXTENDS Naturals, FiniteSets

CONSTANTS
  CareInstructions,     \* the keys: records [namespace, name]
  Specs,                \* values of CareInstruction.spec: [garden, auth, rev]
  Gardens,              \* names a spec uses to refer to its garden cluster
  KubeconfigGardens,    \* those that name a kubeconfig Secret directly
  AuthNames,            \* names of authentication ConfigMaps
  Contents,             \* values of an authentication ConfigMap's config.yaml
  Configs,              \* REST configs for a garden cluster
  Managers,             \* identities of garden managers
  None,                 \* Go's nil, or an empty string
  FirstContent,         \* config.yaml at the start, None if there is no ConfigMap yet
  AuthRollback,         \* may config.yaml return to an earlier content?
  MaxEdits,             \* bound: changes made by users and other controllers
  MaxFaults             \* bound: failed API calls, dying managers, crashes

ASSUME ConstantsAssumption ==
  /\ CareInstructions \subseteq [namespace : STRING, name : STRING]
  /\ Specs \subseteq [garden : Gardens, auth : AuthNames \cup {None}, rev : Nat]
  /\ Specs # {}
  /\ KubeconfigGardens \subseteq Gardens
  /\ Contents \subseteq Nat /\ FirstContent \in Contents \cup {None}
  /\ None \notin Managers /\ None \notin Contents
  /\ None \notin AuthNames /\ None \notin CareInstructions
  /\ AuthRollback \in BOOLEAN
  /\ {MaxEdits, MaxFaults} \subseteq Nat

Namespaces == {c.namespace : c \in CareInstructions}

(* Mutant: the map keyed by name alone. *)
GardenKeyByName(c) == <<c.name>>

(* gardens is keyed by namespace + "/" + name. *)
GardenKey(c) == <<c.namespace, c.name>>

Keys == {GardenKey(c) : c \in CareInstructions}

VARIABLES
  ci,       \* the CareInstruction objects on the Greenhouse API server
  seen,     \* the informer cache's copy of them
  queue,    \* the controller's work queue (with the rate-limited retries)
  gardens,  \* CareInstructionReconciler.gardens
  mgr,      \* the garden managers and the goroutines that run them
  access,   \* kubeconfig Secret and readiness of the garden clusters
  authCM,   \* the authentication ConfigMaps
  onboarded,\* do the clusters of a CareInstruction match its shoots?
  pc,       \* where the worker is in Reconcile
  cur,      \* the CareInstruction it reconciles
  obj,      \* the object it read: spec, annotation and status
  orig,     \* the status it read, which the status patch is computed against
  cfg,      \* the REST config GetGardenClusterAccess returned
  alias,    \* does gardens[...].careInstructionSpec point into obj?
  retry,    \* does Reconcile end with an error?
  edits,    \* changes made so far
  faults    \* failures so far

serverVars == <<ci, seen, queue>>
worldVars  == <<access, authCM, onboarded>>
boundVars  == <<edits, faults>>
vars == <<serverVars, gardens, mgr, worldVars, pc, cur, obj, orig, cfg, alias,
          retry, boundVars>>

-----------------------------------------------------------------------------
(* Values.                                                                  *)

(* The known conditions of the status; synced is ShootsReconciled, with the *)
(* reason of a False one: counts or readiness (Mismatch) or an API error.   *)
Status ==
  [access : {"Absent", "Unknown", "True", "False"},
   started : {"Absent", "Unknown", "True", "False"},
   synced : {"Absent", "Unknown", "True", "Mismatch", "Error"},
   ready : {"Absent", "True", "False"},
   restarts : Nat]

NewStatus == [access |-> "Absent", started |-> "Absent", synced |-> "Absent",
              ready |-> "Absent", restarts |-> 0]

CareInstruction ==
  [exists : BOOLEAN, deleting : BOOLEAN, finalizer : BOOLEAN,
   annotated : BOOLEAN, spec : Specs, st : Status]

DefaultSpec == CHOOSE s \in Specs : TRUE

NoCareInstruction ==
  [exists |-> FALSE, deleting |-> FALSE, finalizer |-> FALSE,
   annotated |-> FALSE, spec |-> DefaultSpec, st |-> NewStatus]

New(s) == [NoCareInstruction EXCEPT !.exists = TRUE, !.spec = s]

(* An entry of the gardens map. run stands for cancelFunc, stopChan and     *)
(* gardenClient, which are always assigned together.                        *)
Garden ==
  [exists : BOOLEAN, mgr : Managers \cup {None}, run : Managers \cup {None},
   config : Configs \cup {None}, spec : Specs, hash : Nat \cup {None}]

NoGarden == [exists |-> FALSE, mgr |-> None, run |-> None, config |-> None,
             spec |-> DefaultSpec, hash |-> None]

(* A garden manager. Its stopChan is closed when it is not running; auth is *)
(* the content its first pass over the shoots applied.                      *)
Manager ==
  [running : BOOLEAN, cancelled : BOOLEAN, owner : CareInstructions \cup {None},
   spec : Specs, auth : Nat \cup {None}]

NoManager == [running |-> FALSE, cancelled |-> FALSE, owner |-> None,
              spec |-> DefaultSpec, auth |-> None]

Live(m) == mgr[m].running /\ ~mgr[m].cancelled

(* The garden credentials and the authentication ConfigMap a spec refers to *)
(* live in the CareInstruction's namespace.                                 *)
AccessKey(c, s) == <<c.namespace, s.garden>>

Reachable(k) == access[k].config # None /\ access[k].ready

AuthKey(c, s) == <<c.namespace, s.auth>>

UsesConfigMap(c, s) == s.auth # None /\ authCM[AuthKey(c, s)].exists

(* hashAuthConfigMap, with distinct contents having distinct hashes; None   *)
(* when there is no ConfigMap to hash.                                      *)
AuthHash(c, s) == IF UsesConfigMap(c, s) THEN authCM[AuthKey(c, s)].data ELSE None

-----------------------------------------------------------------------------
(* The status.                                                              *)

(* Mutant: a new condition keeps the empty status. *)
KnownOrEmpty(v) == IF v = "Absent" THEN "" ELSE v

Known(v) == IF v = "Absent" THEN "Unknown" ELSE v

InitializeConditionsToUnknown(st) ==
  [st EXCEPT !.access = Known(@), !.started = Known(@), !.synced = Known(@)]

(* reconcileStatus: Ready unless a known condition is set and not True.     *)
ReconcileStatus(st) ==
  [st EXCEPT !.ready =
     IF {st.access, st.started, st.synced} \subseteq {"Absent", "True"}
     THEN "True" ELSE "False"]

(* What a merge patch of status from read to want leaves on the server: the *)
(* condition list is replaced if it changed, and so is the restart count.   *)
MergeStatus(read, want, server) ==
  LET conditions(st) == <<st.access, st.started, st.synced, st.ready>>
      from == IF conditions(read) = conditions(want) THEN server ELSE want
  IN  [from EXCEPT !.restarts =
         IF read.restarts = want.restarts THEN server.restarts ELSE want.restarts]

(* The status in memory after the server's answer to a patch is decoded     *)
(* over it: a condition list in the answer replaces the one in memory.      *)
RefreshStatus(st, server) ==
  IF server.started = "Absent" THEN st ELSE server

-----------------------------------------------------------------------------
(* Init: the process starts, and its informers list what is there.          *)

(* The authentication ConfigMaps that users have made by then.              *)
FirstConfigMap ==
  [exists |-> FirstContent # None, labelled |-> FALSE,
   data |-> IF FirstContent = None THEN 0 ELSE FirstContent]

IdleWorker ==
  /\ pc = "idle" /\ cur = None
  /\ obj = NoCareInstruction /\ orig = NewStatus /\ cfg = None
  /\ alias = FALSE /\ retry = FALSE

IdleWorkerNext ==
  /\ pc' = "idle" /\ cur' = None
  /\ obj' = NoCareInstruction /\ orig' = NewStatus /\ cfg' = None
  /\ alias' = FALSE /\ retry' = FALSE

Init ==
  /\ ci \in [CareInstructions -> {NoCareInstruction} \cup {New(s) : s \in Specs}]
  /\ seen = ci
  /\ queue = {c \in CareInstructions : ci[c].exists}
  /\ gardens = [k \in Keys |-> NoGarden]
  /\ mgr = [m \in Managers |-> NoManager]
  /\ access \in [Namespaces \X Gardens -> [config : Configs, ready : {TRUE}]]
  /\ authCM = [k \in Namespaces \X AuthNames |-> FirstConfigMap]
  /\ onboarded = [c \in CareInstructions |-> TRUE]
  /\ IdleWorker
  /\ edits = 0
  /\ faults = 0

(* An API call fails, a manager dies or the process crashes.                *)
Fault == faults < MaxFaults /\ faults' = faults + 1 /\ UNCHANGED edits

NoFault == UNCHANGED boundVars

At(p) == pc = p

entry == gardens[GardenKey(cur)]

-----------------------------------------------------------------------------
(* lifecycle.Reconcile: take a key from the queue, read the object from the *)
(* cache, put the finalizer on it, and enter EnsureCreated or EnsureDeleted.*)

BeginNotFound(c) ==
  /\ At("idle") /\ c \in queue
  /\ ~seen[c].exists
  /\ queue' = queue \ {c}
  /\ UNCHANGED <<ci, seen, gardens, mgr, worldVars, pc, cur, obj, orig, cfg,
                 alias, retry, boundVars>>

(* Mutant: the finalizer is not put on the object. *)
BeginCreateUnprotected(c) ==
  /\ At("idle") /\ c \in queue
  /\ seen[c].exists /\ ~seen[c].deleting
  /\ queue' = queue \ {c}
  /\ pc' = "label"
  /\ cur' = c
  /\ obj' = [seen[c] EXCEPT !.st = InitializeConditionsToUnknown(@)]
  /\ orig' = seen[c].st
  /\ UNCHANGED <<ci, seen, gardens, mgr, worldVars, cfg, alias, retry, boundVars>>

BeginCreate(c) ==
  /\ At("idle") /\ c \in queue
  /\ seen[c].exists /\ ~seen[c].deleting
  /\ IF seen[c].finalizer \/ ci[c].exists
     THEN /\ queue' = queue \ {c}
          /\ ci' = [ci EXCEPT ![c].finalizer = TRUE]
          /\ pc' = "label"
          /\ cur' = c
          /\ obj' = [seen[c] EXCEPT !.st = InitializeConditionsToUnknown(@)]
          /\ orig' = seen[c].st
          /\ UNCHANGED <<cfg, alias, retry>>
     ELSE UNCHANGED <<ci, queue, pc, cur, obj, orig, cfg, alias, retry>>
  /\ UNCHANGED <<seen, gardens, mgr, worldVars, boundVars>>

BeginDelete(c) ==
  /\ At("idle") /\ c \in queue
  /\ seen[c].exists /\ seen[c].deleting
  /\ queue' = queue \ {c}
  /\ pc' = "cleanup"
  /\ cur' = c
  /\ obj' = seen[c]
  /\ orig' = seen[c].st
  /\ UNCHANGED <<ci, seen, gardens, mgr, worldVars, cfg, alias, retry, boundVars>>

Begin(c) == BeginNotFound(c) \/ BeginCreate(c) \/ BeginDelete(c)

-----------------------------------------------------------------------------
(* EnsureCreated.                                                           *)

(* ensureAuthConfigMapLabeled; an error is only logged.                     *)
EnsureAuthConfigMapLabeled ==
  /\ At("label")
  /\ pc' = "entry"
  /\ \/ /\ UsesConfigMap(cur, obj.spec)
        /\ authCM' = [authCM EXCEPT ![AuthKey(cur, obj.spec)].labelled = TRUE]
        /\ NoFault
     \/ /\ ~UsesConfigMap(cur, obj.spec)
        /\ UNCHANGED authCM
        /\ NoFault
     \/ UNCHANGED authCM /\ Fault
  /\ UNCHANGED <<serverVars, gardens, mgr, access, onboarded, cur, obj, orig,
                 cfg, alias, retry>>

(* EnsureCreated's answer to an error of reconcileManager.                  *)
ManagerError(st) ==
  /\ pc' = "status"
  /\ obj' = [obj EXCEPT !.st = [st EXCEPT !.started = "False"]]
  /\ retry' = TRUE

(* reconcileManager, first part: seed the hash and make the map entry.      *)
EnsureGardenEntry ==
  /\ At("entry")
  /\ pc' = "access"
  /\ IF entry.exists
     THEN UNCHANGED <<gardens, alias>>
     ELSE /\ gardens' = [gardens EXCEPT ![GardenKey(cur)] =
                [NoGarden EXCEPT !.exists = TRUE, !.spec = obj.spec,
                                 !.hash = AuthHash(cur, obj.spec)]]
          /\ alias' = TRUE
  /\ NoFault
  /\ UNCHANGED <<serverVars, mgr, worldVars, cur, obj, orig, cfg, retry>>

EnsureGardenEntryFails ==
  /\ At("entry")
  /\ ~entry.exists /\ obj.spec.auth # None
  /\ Fault
  /\ ManagerError(obj.st)
  /\ UNCHANGED <<serverVars, gardens, mgr, worldVars, cur, orig, cfg, alias>>

(* reconcileManager, second part: GetGardenClusterAccess, then decide       *)
(* whether the manager must be replaced.                                    *)
AccessError ==
  /\ At("access")
  /\ \/ ~Reachable(AccessKey(cur, obj.spec)) /\ NoFault
     \/ Fault
  /\ ManagerError([obj.st EXCEPT !.access = "False"])
  /\ UNCHANGED <<serverVars, gardens, mgr, worldVars, cur, orig, cfg, alias>>

(* Mutants: the check of stopChan or the check of the spec is missing.      *)
ManagerIsCurrentOrStopped(config) ==
  /\ entry.mgr # None
  /\ obj.st.started = "True"
  /\ entry.config = config
  /\ entry.spec = obj.spec
  /\ entry.run # None

ManagerIsCurrentForAnySpec(config) ==
  /\ entry.mgr # None
  /\ obj.st.started = "True"
  /\ entry.config = config
  /\ entry.run # None
  /\ mgr[entry.run].running

(* Checks 1 to 5 of reconcileManager.                                       *)
ManagerIsCurrent(config) ==
  /\ entry.mgr # None
  /\ obj.st.started = "True"
  /\ entry.config = config
  /\ entry.spec = obj.spec
  /\ entry.run # None
  /\ mgr[entry.run].running

Cancel(m) == [mgr EXCEPT ![m].cancelled = TRUE]

(* Where reconcileShootsNClusters starts.                                   *)
ShootsNClusters == IF obj.annotated THEN "annotation" ELSE "authcm"

KeepManager ==
  /\ At("access")
  /\ Reachable(AccessKey(cur, obj.spec))
  /\ ManagerIsCurrent(access[AccessKey(cur, obj.spec)].config)
  /\ pc' = ShootsNClusters
  /\ obj' = [obj EXCEPT !.st.access = "True"]
  /\ UNCHANGED <<serverVars, gardens, mgr, worldVars, cur, orig, cfg, alias,
                 retry, boundVars>>

(* Mutant: the old manager is forgotten, not cancelled.                     *)
StopManagerUncancelled ==
  /\ At("access")
  /\ Reachable(AccessKey(cur, obj.spec))
  /\ ~ManagerIsCurrent(access[AccessKey(cur, obj.spec)].config)
  /\ pc' = "start"
  /\ obj' = [obj EXCEPT !.st.access = "True"]
  /\ cfg' = access[AccessKey(cur, obj.spec)].config
  /\ UNCHANGED <<serverVars, gardens, mgr, worldVars, cur, orig, alias, retry,
                 boundVars>>

StopManager ==
  /\ At("access")
  /\ Reachable(AccessKey(cur, obj.spec))
  /\ ~ManagerIsCurrent(access[AccessKey(cur, obj.spec)].config)
  /\ pc' = "start"
  /\ obj' = [obj EXCEPT !.st.access = "True"]
  /\ cfg' = access[AccessKey(cur, obj.spec)].config
  /\ mgr' = IF entry.mgr # None /\ entry.run # None THEN Cancel(entry.run) ELSE mgr
  /\ UNCHANGED <<serverVars, gardens, worldVars, cur, orig, alias, retry,
                 boundVars>>

(* reconcileManager, last part: a new client, manager, context and          *)
(* goroutine. A Managers element is free when nothing refers to it.         *)
Free(m) == ~mgr[m].running /\ \A k \in Keys : gardens[k].run # m

StartManager ==
  /\ At("start")
  /\ \E m \in Managers :
       /\ Free(m)
       /\ mgr' = [mgr EXCEPT ![m] =
            [running |-> TRUE, cancelled |-> FALSE, owner |-> cur,
             spec |-> obj.spec, auth |-> None]]
       /\ gardens' = [gardens EXCEPT ![GardenKey(cur)] =
            [@ EXCEPT !.mgr = m, !.run = m, !.config = cfg, !.spec = obj.spec]]
  /\ alias' = TRUE
  /\ obj' = [obj EXCEPT !.st.started = "True"]
  /\ pc' = ShootsNClusters
  /\ UNCHANGED <<serverVars, worldVars, cur, orig, cfg, retry, boundVars>>

StartManagerFails ==
  /\ At("start")
  /\ Fault
  /\ ManagerError(obj.st)
  /\ UNCHANGED <<serverVars, gardens, mgr, worldVars, cur, orig, cfg, alias>>

-----------------------------------------------------------------------------
(* reconcileShootsNClusters, as far as it touches the manager.              *)

(* Mutants: the restart is not counted; the restart drops the map entry.    *)
RestartedStatusUncounted(st) == st

RestartDroppingEntry(g, o) ==
  /\ mgr' = Cancel(entry.run)
  /\ gardens' = [gardens EXCEPT ![GardenKey(cur)] = NoGarden]
  /\ obj' = [o EXCEPT !.st.restarts = @ + 1]

(* restartShootController.                                                  *)
RestartedStatus(st) ==
  IF entry.mgr = None THEN st ELSE [st EXCEPT !.restarts = @ + 1]

RestartShootController(g, o) ==
  IF entry.exists /\ entry.run # None
  THEN /\ mgr' = Cancel(entry.run)
       /\ gardens' = [gardens EXCEPT ![GardenKey(cur)] = [g EXCEPT !.mgr = None]]
       /\ obj' = [o EXCEPT !.st = RestartedStatus(@)]
  ELSE /\ gardens' = [gardens EXCEPT ![GardenKey(cur)] = g]
       /\ obj' = o
       /\ UNCHANGED mgr

(* EnsureCreated's answer to an error of reconcileShootsNClusters: the      *)
(* condition, and no error to the work queue.                               *)
SyncError(why) ==
  /\ pc' = "status"
  /\ obj' = [obj EXCEPT !.st.synced = why]

SyncFails(p) ==
  /\ At(p)
  /\ Fault
  /\ SyncError("Error")
  /\ UNCHANGED <<serverVars, gardens, mgr, worldVars, cur, orig, cfg, alias, retry>>

(* The patch that removes the annotation decodes the server's answer into   *)
(* the object, and so into the spec the gardens entry may point to.         *)
HandleReconcileAnnotation ==
  /\ At("annotation")
  /\ pc' = "authcm"
  /\ ci' = [ci EXCEPT ![cur].annotated = FALSE]
  /\ RestartShootController(
       [entry EXCEPT !.spec = IF alias THEN ci[cur].spec ELSE @],
       [obj EXCEPT !.annotated = FALSE, !.spec = ci[cur].spec,
                   !.st = RefreshStatus(@, ci[cur].st)])
  /\ UNCHANGED <<seen, queue, worldVars, cur, orig, cfg, alias, retry, boundVars>>

HandleReconcileAnnotationFails == SyncFails("annotation")

(* Mutant: the new hash is stored, the controller not restarted.            *)
CheckAuthConfigMapHashOnly ==
  /\ At("authcm")
  /\ pc' = "clusters"
  /\ gardens' = IF UsesConfigMap(cur, obj.spec)
                THEN [gardens EXCEPT ![GardenKey(cur)].hash = AuthHash(cur, obj.spec)]
                ELSE gardens
  /\ UNCHANGED <<serverVars, mgr, obj, worldVars, cur, orig, cfg, alias, retry, boundVars>>

(* ListShoots and the CEL filter, then the ConfigMap: its hash is stored    *)
(* before the controller is restarted.                                      *)
CheckAuthConfigMap ==
  /\ At("authcm")
  /\ pc' = "clusters"
  /\ IF UsesConfigMap(cur, obj.spec) /\ AuthHash(cur, obj.spec) # entry.hash
     THEN RestartShootController([entry EXCEPT !.hash = AuthHash(cur, obj.spec)],
                                 obj)
     ELSE UNCHANGED <<gardens, mgr, obj>>
  /\ UNCHANGED <<serverVars, worldVars, cur, orig, cfg, alias, retry, boundVars>>

CheckAuthConfigMapFails == SyncFails("authcm")

(* Compare the clusters with the shoots: counts, conflicts and readiness.   *)
CompareClusters ==
  /\ At("clusters")
  /\ SyncError(IF onboarded[cur] THEN "True" ELSE "Mismatch")
  /\ UNCHANGED <<serverVars, gardens, mgr, worldVars, cur, orig, cfg, alias,
                 retry, boundVars>>

CompareClustersFails == SyncFails("clusters")

-----------------------------------------------------------------------------
(* lifecycle.Reconcile, after EnsureCreated: reconcileStatus and one merge  *)
(* patch of the status, whose answer is decoded into the object and so into *)
(* the spec the gardens entry may point to. An error of EnsureCreated or of *)
(* the patch puts the key back.                                             *)
PatchStatus ==
  /\ At("status")
  /\ ci' = [ci EXCEPT ![cur].st = MergeStatus(orig, ReconcileStatus(obj.st), @)]
  /\ gardens' = IF alias
                THEN [gardens EXCEPT ![GardenKey(cur)].spec = ci[cur].spec]
                ELSE gardens
  /\ queue' = IF retry THEN queue \cup {cur} ELSE queue
  /\ IdleWorkerNext
  /\ UNCHANGED <<seen, mgr, worldVars, boundVars>>

PatchStatusFails ==
  /\ At("status")
  /\ Fault
  /\ queue' = queue \cup {cur}
  /\ IdleWorkerNext
  /\ UNCHANGED <<ci, seen, gardens, mgr, worldVars>>

-----------------------------------------------------------------------------
(* EnsureDeleted: cleanupCareInstruction, then lifecycle.Reconcile takes    *)
(* the finalizer off and the API server removes the object.                 *)

(* Mutants: the entry is dropped and its manager not cancelled; a Care-     *)
(* Instruction without a manager cannot be cleaned up.                      *)
CleanupUncancelled ==
  /\ At("cleanup")
  /\ pc' = "finalizer"
  /\ gardens' = [gardens EXCEPT ![GardenKey(cur)] = NoGarden]
  /\ UNCHANGED <<serverVars, mgr, worldVars, cur, obj, orig, cfg, alias, retry, boundVars>>

CleanupRequiringManager ==
  /\ At("cleanup")
  /\ entry.exists /\ entry.run # None
  /\ pc' = "finalizer"
  /\ mgr' = Cancel(entry.run)
  /\ gardens' = [gardens EXCEPT ![GardenKey(cur)] = NoGarden]
  /\ UNCHANGED <<serverVars, worldVars, cur, obj, orig, cfg, alias, retry, boundVars>>

CleanupCareInstruction ==
  /\ At("cleanup")
  /\ pc' = "finalizer"
  /\ IF entry.exists /\ entry.run # None
     THEN /\ mgr' = Cancel(entry.run)
          /\ gardens' = [gardens EXCEPT ![GardenKey(cur)] = NoGarden]
     ELSE UNCHANGED <<mgr, gardens>>
  /\ UNCHANGED <<serverVars, worldVars, cur, obj, orig, cfg, alias, retry, boundVars>>

RemoveFinalizer ==
  /\ At("finalizer")
  /\ ci' = IF ci[cur].deleting
           THEN [ci EXCEPT ![cur] = NoCareInstruction]
           ELSE [ci EXCEPT ![cur].finalizer = FALSE]
  /\ IdleWorkerNext
  /\ UNCHANGED <<seen, queue, gardens, mgr, worldVars, boundVars>>

RemoveFinalizerFails ==
  /\ At("finalizer")
  /\ Fault
  /\ queue' = queue \cup {cur}
  /\ IdleWorkerNext
  /\ UNCHANGED <<ci, seen, gardens, mgr, worldVars>>

-----------------------------------------------------------------------------
(* The goroutines that run the garden managers.                             *)

workerVars == <<pc, cur, obj, orig, cfg, alias, retry>>

ManagerExits(m) ==
  /\ mgr[m].running /\ mgr[m].cancelled
  /\ mgr' = [mgr EXCEPT ![m].running = FALSE]
  /\ UNCHANGED <<serverVars, gardens, worldVars, workerVars, boundVars>>

(* mgr.Start returns an error: a cache that does not sync, a lost garden.   *)
ManagerDies(m) ==
  /\ Live(m)
  /\ Fault
  /\ mgr' = [mgr EXCEPT ![m].running = FALSE]
  /\ UNCHANGED <<serverVars, gardens, worldVars, workerVars>>

(* A started manager reconciles every shoot: each reads the ConfigMap named *)
(* by the spec the manager was made with, labels it and applies it.         *)
InitialShootPass(m) ==
  /\ Live(m)
  /\ mgr[m].auth = None
  /\ UsesConfigMap(mgr[m].owner, mgr[m].spec)
  /\ mgr' = [mgr EXCEPT ![m].auth = AuthHash(mgr[m].owner, mgr[m].spec)]
  /\ authCM' = [authCM EXCEPT ![AuthKey(mgr[m].owner, mgr[m].spec)].labelled = TRUE]
  /\ UNCHANGED <<serverVars, gardens, access, onboarded, workerVars, boundVars>>

(* Nothing is left to do for c: no reconcile runs or waits, and no event of *)
(* c is on its way.                                                         *)
AtRest(c) == cur # c /\ c \notin queue /\ seen[c] = ci[c]

-----------------------------------------------------------------------------
(* Watches: the CareInstructions' own, and the periodic resync. The resync  *)
(* comes every 10 hours, long after the cache has caught up.                *)

Deliver(c) ==
  /\ seen[c] # ci[c]
  /\ seen' = [seen EXCEPT ![c] = ci[c]]
  /\ queue' = queue \cup {c}
  /\ UNCHANGED <<ci, gardens, mgr, worldVars, workerVars, boundVars>>

Resync(c) ==
  /\ AtRest(c) /\ seen[c].exists
  /\ queue' = queue \cup {c}
  /\ UNCHANGED <<ci, seen, gardens, mgr, worldVars, workerVars, boundVars>>

-----------------------------------------------------------------------------
(* Users and other controllers.                                             *)

Edit == edits < MaxEdits /\ edits' = edits + 1 /\ UNCHANGED faults

CreateCareInstruction(c) ==
  /\ Edit
  /\ ~ci[c].exists
  /\ \E s \in Specs : ci' = [ci EXCEPT ![c] = New(s)]
  /\ UNCHANGED <<seen, queue, gardens, mgr, worldVars, workerVars>>

EditSpec(c) ==
  /\ Edit
  /\ ci[c].exists
  /\ \E s \in Specs \ {ci[c].spec} : ci' = [ci EXCEPT ![c].spec = s]
  /\ UNCHANGED <<seen, queue, gardens, mgr, worldVars, workerVars>>

Annotate(c) ==
  /\ Edit
  /\ ci[c].exists /\ ~ci[c].annotated
  /\ ci' = [ci EXCEPT ![c].annotated = TRUE]
  /\ UNCHANGED <<seen, queue, gardens, mgr, worldVars, workerVars>>

DeleteCareInstruction(c) ==
  /\ Edit
  /\ ci[c].exists /\ ~ci[c].deleting
  /\ ci' = IF ci[c].finalizer THEN [ci EXCEPT ![c].deleting = TRUE]
                              ELSE [ci EXCEPT ![c] = NoCareInstruction]
  /\ UNCHANGED <<seen, queue, gardens, mgr, worldVars, workerVars>>

(* Mutant: only CareInstructions with a started manager are enqueued.       *)
EnqueueIfStarted(g) ==
  {c \in CareInstructions :
     /\ seen[c].exists /\ g \notin KubeconfigGardens /\ seen[c].spec.garden = g
     /\ seen[c].st.started = "True"}

(* enqueueCareInstructionForGardenCluster compares the Secret's name with   *)
(* gardenClusterName only, in every namespace.                              *)
EnqueueForGardenCluster(g) ==
  {c \in CareInstructions :
     seen[c].exists /\ g \notin KubeconfigGardens /\ seen[c].spec.garden = g}

SecretChanges(k) ==
  /\ Edit
  /\ \E config \in (Configs \cup {None}) \ {access[k].config} :
       access' = [access EXCEPT ![k].config = config]
  /\ queue' = queue \cup EnqueueForGardenCluster(k[2])
  /\ UNCHANGED <<ci, seen, gardens, mgr, authCM, onboarded, workerVars>>

(* Readiness of a garden Cluster, which no watch of the controller reports. *)
GardenReadinessChanges(k) ==
  /\ Edit
  /\ k[2] \notin KubeconfigGardens
  /\ access' = [access EXCEPT ![k].ready = ~@]
  /\ UNCHANGED <<serverVars, gardens, mgr, authCM, onboarded, workerVars>>

(* enqueueCareInstructionForAuthConfigMap, behind the label predicate.      *)
EnqueueForAuthConfigMap(k) ==
  {c \in CareInstructions :
     /\ authCM[k].labelled
     /\ seen[c].exists /\ c.namespace = k[1] /\ seen[c].spec.auth = k[2]}

AuthConfigMapChanges(k) ==
  /\ Edit
  /\ \E data \in Contents \ {authCM[k].data} :
       /\ AuthRollback \/ data > authCM[k].data
       /\ authCM' = [authCM EXCEPT ![k].exists = TRUE, ![k].data = data]
  /\ queue' = queue \cup EnqueueForAuthConfigMap(k)
  /\ UNCHANGED <<ci, seen, gardens, mgr, access, onboarded, workerVars>>

AuthConfigMapDeleted(k) ==
  /\ Edit
  /\ authCM[k].exists
  /\ authCM' = [authCM EXCEPT ![k].exists = FALSE, ![k].labelled = FALSE]
  /\ UNCHANGED <<serverVars, gardens, mgr, access, onboarded, workerVars>>

(* A Shoot appears in the garden: the CareInstruction is not told.          *)
ShootAppears(c) ==
  /\ Edit
  /\ onboarded[c]
  /\ onboarded' = [onboarded EXCEPT ![c] = FALSE]
  /\ UNCHANGED <<serverVars, gardens, mgr, access, authCM, workerVars>>

(* A labelled Cluster is created, deleted or changes its readiness:         *)
(* enqueueCareInstructionForCreatedClusters.                                *)
ClusterChanges(c) ==
  /\ Edit
  /\ onboarded' = [onboarded EXCEPT ![c] = ~@]
  /\ queue' = queue \cup {c}
  /\ UNCHANGED <<ci, seen, gardens, mgr, access, authCM, workerVars>>

(* The process dies and starts again: managers, map and queue are lost, the *)
(* informer lists everything.                                               *)
Crash ==
  /\ Fault
  /\ gardens' = [k \in Keys |-> NoGarden]
  /\ mgr' = [m \in Managers |-> NoManager]
  /\ seen' = ci
  /\ queue' = {c \in CareInstructions : ci[c].exists}
  /\ IdleWorkerNext
  /\ UNCHANGED <<ci, worldVars>>

-----------------------------------------------------------------------------
(* The specification.                                                       *)

(* The worker's steps inside one reconcile.                                 *)
WorkerSucceeds ==
  \/ EnsureAuthConfigMapLabeled \/ EnsureGardenEntry
  \/ AccessError \/ KeepManager \/ StopManager \/ StartManager
  \/ HandleReconcileAnnotation \/ CheckAuthConfigMap \/ CompareClusters
  \/ PatchStatus
  \/ CleanupCareInstruction \/ RemoveFinalizer

WorkerFails ==
  \/ EnsureGardenEntryFails \/ StartManagerFails
  \/ HandleReconcileAnnotationFails \/ CheckAuthConfigMapFails
  \/ CompareClustersFails
  \/ PatchStatusFails \/ RemoveFinalizerFails

ManagerSteps(m) == ManagerExits(m) \/ ManagerDies(m) \/ InitialShootPass(m)

CareInstructionEdits(c) ==
  \/ CreateCareInstruction(c) \/ EditSpec(c) \/ Annotate(c)
  \/ DeleteCareInstruction(c) \/ ShootAppears(c) \/ ClusterChanges(c)

Next ==
  \/ WorkerSucceeds
  \/ WorkerFails
  \/ Crash
  \/ \E c \in CareInstructions :
       Begin(c) \/ Deliver(c) \/ Resync(c) \/ CareInstructionEdits(c)
  \/ \E m \in Managers : ManagerSteps(m)
  \/ \E k \in Namespaces \X Gardens : SecretChanges(k) \/ GardenReadinessChanges(k)
  \/ \E k \in Namespaces \X AuthNames :
       AuthConfigMapChanges(k) \/ AuthConfigMapDeleted(k)

Spec == Init /\ [][Next]_vars

(* The worker never blocks, the work queue is first-in first-out, a watch   *)
(* delivers, a cancelled manager exits, a started one reconciles its        *)
(* shoots, and the informers resync (every 10 hours by default).            *)
Fairness ==
  /\ WF_vars(WorkerSucceeds)
  /\ \A c \in CareInstructions :
       SF_vars(Begin(c)) /\ WF_vars(Deliver(c)) /\ WF_vars(Resync(c))
  /\ \A m \in Managers : WF_vars(ManagerExits(m)) /\ WF_vars(InitialShootPass(m))

FairSpec == Spec /\ Fairness

-----------------------------------------------------------------------------
(* Properties.                                                              *)

ServerTypes ==
  /\ ci \in [CareInstructions -> CareInstruction]
  /\ seen \in [CareInstructions -> CareInstruction]
  /\ queue \subseteq CareInstructions

GardenTypes ==
  /\ gardens \in [Keys -> Garden]
  /\ mgr \in [Managers -> Manager]
  /\ \A m \in Managers : mgr[m].running => mgr[m].owner # None

WorldTypes ==
  /\ access \in [Namespaces \X Gardens -> [config : Configs \cup {None}, ready : BOOLEAN]]
  /\ authCM \in [Namespaces \X AuthNames ->
                   [exists : BOOLEAN, data : Nat, labelled : BOOLEAN]]
  /\ onboarded \in [CareInstructions -> BOOLEAN]

WorkerTypes ==
  /\ pc \in {"idle", "label", "entry", "access", "start", "annotation", "authcm",
             "clusters", "status", "cleanup", "finalizer"}
  /\ cur \in CareInstructions \cup {None}
  /\ pc # "idle" => cur # None
  /\ obj \in CareInstruction
  /\ orig \in Status
  /\ cfg \in Configs \cup {None}
  /\ alias \in BOOLEAN
  /\ retry \in BOOLEAN

BoundTypes == edits \in 0 .. MaxEdits /\ faults \in 0 .. MaxFaults

(* The variables have their types.                                          *)
TypeOK == ServerTypes /\ GardenTypes /\ WorldTypes /\ WorkerTypes /\ BoundTypes

(* However reconciles that replace, restart, fail half-way or clean up      *)
(* interleave with managers that are slow to exit, no CareInstruction ever  *)
(* has two shoot controllers whose contexts are open.                       *)
OneControllerPerCareInstruction ==
  \A m, n \in Managers :
    Live(m) /\ Live(n) /\ mgr[m].owner = mgr[n].owner => m = n

(* A shoot controller that nobody has cancelled belongs to a CareInstruction*)
(* that still exists, and the gardens map still holds the cancelFunc that   *)
(* stops it: cleanupCareInstruction and the replacement of a manager never  *)
(* lose a running one, also when a CareInstruction of that name exists in   *)
(* another namespace.                                                       *)
NoOrphanManager ==
  \A m \in Managers : Live(m) =>
    /\ ci[mgr[m].owner].exists
    /\ gardens[GardenKey(mgr[m].owner)].run = m

(* reconcileShootsNClusters dereferences gardens[key] and its gardenClient  *)
(* without a check: whenever it runs, reconcileManager has set both, in     *)
(* this pass or in an earlier one.                                          *)
GardenClientSet ==
  At("annotation") \/ At("authcm") \/ At("clusters")
    => entry.exists /\ entry.run # None

(* restartShootController stops the manager and only its status write makes *)
(* anyone start it again, and a failed start only retries. Still every      *)
(* CareInstruction at rest has a manager, with the garden's current         *)
(* credentials if these come from a Cluster's Secret.                       *)
AtRestHasManager ==
  \A c \in CareInstructions :
    AtRest(c) /\ ci[c].exists /\ ~ci[c].deleting =>
      LET g == gardens[GardenKey(c)]
          k == AccessKey(c, ci[c].spec)
      IN  /\ g.mgr # None
          /\ Reachable(k) /\ ci[c].spec.garden \notin KubeconfigGardens
               => g.config = access[k].config

(* reconcileManager: "If the manager could not be created, we need to       *)
(* recreate the client and manager": no CareInstruction comes to rest with  *)
(* a manager that was cancelled for a replacement that was never made.      *)
AtRestNotCancelled ==
  \A c \in CareInstructions :
    AtRest(c) /\ ci[c].exists /\ ~ci[c].deleting =>
      ~\E m \in Managers : gardens[GardenKey(c)].mgr = m /\ mgr[m].cancelled

(* c should have a shoot controller; m is the one it has.                   *)
Wanted(c) ==
  ci[c].exists /\ ~ci[c].deleting /\ Reachable(AccessKey(c, ci[c].spec))

Runs(c, m) == gardens[GardenKey(c)].mgr = m /\ Live(m)

(* What the controller is for: from some point on, a CareInstruction whose  *)
(* garden is reachable has a running, uncancelled manager with the current  *)
(* credentials, whatever failed, died or crashed before.                    *)
Converges ==
  \A c \in CareInstructions :
    <>[](Wanted(c) =>
           /\ \E m \in Managers : Runs(c, m)
           /\ gardens[GardenKey(c)].config = access[AccessKey(c, ci[c].spec)].config)

(* A CareInstruction that is being deleted disappears in the end: cleanup   *)
(* does not depend on the garden, and the finalizer is always taken off.    *)
DeletionCompletes ==
  \A c \in CareInstructions : ci[c].deleting ~> ~ci[c].deleting

(* From some point on the shoot controller of a CareInstruction runs with   *)
(* the spec on the API server: "If the CareInstruction.Spec has changed, we *)
(* need to recreate the client and manager".                                *)
SpecApplied ==
  \A c \in CareInstructions :
    <>[](Wanted(c) => \E m \in Managers : Runs(c, m) /\ mgr[m].spec = ci[c].spec)

(* The worker's object, which the gardens entry points into, is no longer   *)
(* the one on the server: a patch answer will carry another spec.           *)
Overtaken == alias /\ obj.spec # ci[cur].spec

(* An edit that does not overtake the reconcile that starts a manager does  *)
(* reach the running shoot controller, whatever failed, died or crashed.    *)
SpecAppliedUnlessOvertaken == []~Overtaken => SpecApplied

(* From some point on the shoots carry the ConfigMap's present content: a   *)
(* change of config.yaml restarts the shoot controller, and the restarted   *)
(* controller applies the content it finds.                                 *)
AuthApplied ==
  \A c \in CareInstructions :
    <>[](Wanted(c) /\ UsesConfigMap(c, ci[c].spec) =>
           \E m \in Managers : Runs(c, m) /\ mgr[m].auth = AuthHash(c, ci[c].spec))

-----------------------------------------------------------------------------
(* The abstract specification.                                              *)

Exists == [c \in CareInstructions |-> ci[c].exists]

Running ==
  [c \in CareInstructions |-> {m \in Managers : Live(m) /\ mgr[m].owner = c}]

Abstract == INSTANCE ShootControllers WITH exists <- Exists, running <- Running

(* Every behaviour of the controller is one of ShootControllers: a shoot    *)
(* controller is started only where none is running and the CareInstruction *)
(* exists, through all replacements, restarts, failed starts and crashes,   *)
(* and a CareInstruction does not go before its controller is stopped.      *)
ImplementsShootControllers == Abstract!Spec

-----------------------------------------------------------------------------
(* The inductive invariant behind the safety theorems.                      *)

(* A finalizer is on an object that exists, and an object that is being     *)
(* deleted exists only because of its finalizer.                            *)
FinalizerHolds(o) == (o.finalizer => o.exists) /\ (o.deleting => o.finalizer)

(* The cache lags the server, but a deletion it shows is not undone, and a  *)
(* finalizer it shows is gone only with the object's deletion.              *)
CacheLags(c) ==
  /\ FinalizerHolds(ci[c]) /\ FinalizerHolds(seen[c])
  /\ seen[c].deleting /\ ci[c].finalizer => ci[c].deleting
  /\ seen[c].finalizer /\ ~seen[c].deleting => ci[c].finalizer

(* The object the worker creates for cannot vanish, the one it deletes for  *)
(* has no finalizer but the one about to be removed.                        *)
WorkerHolds ==
  /\ pc \notin {"idle", "cleanup", "finalizer"} => ci[cur].finalizer
  /\ pc \in {"cleanup", "finalizer"} =>
       /\ ci[cur].finalizer => ci[cur].deleting
       /\ seen[cur].finalizer => seen[cur].deleting
  /\ pc \in {"access", "start"} => entry.exists

(* A live manager is the one its owner's entry can cancel.                  *)
Owned(m) ==
  Live(m) =>
    /\ mgr[m].owner \in CareInstructions
    /\ ci[mgr[m].owner].finalizer
    /\ gardens[GardenKey(mgr[m].owner)].exists
    /\ gardens[GardenKey(mgr[m].owner)].run = m

(* An entry that shows no manager has none alive; once the worker is about  *)
(* to start a manager, or to take the finalizer off, none is.               *)
EntryHolds(c) ==
  LET g == gardens[GardenKey(c)]
      dead == \A m \in Managers : g.run = m => ~Live(m)
  IN  /\ g.run # None => g.exists
      /\ g.mgr = None \/ g.mgr = g.run
      /\ g.mgr = None => dead
      /\ cur = c /\ pc \in {"start", "finalizer"} => dead

(* Cache, map entries, managers and worker agree: the invariant that every  *)
(* step of the controller preserves and that implies the safety properties. *)
IInv ==
  /\ TypeOK
  /\ \A c \in CareInstructions : CacheLags(c) /\ EntryHolds(c)
  /\ \A m \in Managers : Owned(m)
  /\ WorkerHolds
  /\ GardenClientSet

-----------------------------------------------------------------------------
(* The inductive invariant behind AtRestHasManager.                         *)

(* No event, retry or step of a running reconcile will look at the manager  *)
(* of c.                                                                    *)
Passed(c) ==
  /\ c \notin queue
  /\ cur = c => \/ pc \in {"annotation", "authcm", "clusters"}
                \/ pc = "status" /\ ~retry

(* The cache is behind in a way that no edit of a user makes up for, so the *)
(* event that brings c back is certain.                                     *)
Behind(c) ==
  \/ ~seen[c].exists \/ seen[c].deleting
  \/ seen[c].finalizer # ci[c].finalizer
  \/ seen[c].st.restarts # ci[c].st.restarts

(* The status patch of the running reconcile will count a restart.          *)
Counted(c) == cur = c /\ obj.st.restarts # orig.restarts

ManagerKept(c) ==
  Passed(c) /\ ci[c].exists /\ ~ci[c].deleting =>
    gardens[GardenKey(c)].mgr # None \/ Behind(c) \/ Counted(c)

(* Garden access is that of the spec in the cache, the one whose Secret is  *)
(* watched.                                                                 *)
ConfigKept(c) ==
  Passed(c) /\ seen[c].exists /\ ~seen[c].deleting
    /\ seen[c].spec.garden \notin KubeconfigGardens =>
    gardens[GardenKey(c)].config = access[AccessKey(c, seen[c].spec)].config

(* An object that was never reconciled is in the queue as soon as the cache *)
(* shows it.                                                                *)
NewIsQueued(c) ==
  seen[c].exists /\ ~seen[c].deleting /\ ~seen[c].finalizer /\ ~ci[c].finalizer => c \in queue

(* Unless an event has put it back into the queue, what the worker read is  *)
(* what the cache holds; restarts are counted from there.                   *)
ReadHolds ==
  /\ pc = "idle" => cur = None
  /\ pc \in {"label", "entry", "access", "start", "annotation"} =>
       obj.st.restarts = orig.restarts
  /\ pc = "authcm" /\ entry.mgr # None => obj.st.restarts = orig.restarts
  /\ pc # "idle" /\ cur \notin queue =>
       /\ pc \notin {"cleanup", "finalizer"} =>
            seen[cur].exists /\ seen[cur].st.restarts = orig.restarts
       /\ pc \in {"label", "entry", "access", "start"} => obj.spec = seen[cur].spec
       /\ pc = "start" /\ obj.spec.garden \notin KubeconfigGardens =>
            cfg = access[AccessKey(cur, obj.spec)].config
       /\ pc \in {"cleanup", "finalizer"} => seen[cur].deleting

(* Nothing the controller owes a CareInstruction is forgotten: the manager  *)
(* is there, or what brings a reconcile is.                                 *)
RestInv ==
  /\ \A c \in CareInstructions : ManagerKept(c) /\ ConfigKept(c) /\ NewIsQueued(c)
  /\ ReadHolds
=============================================================================
