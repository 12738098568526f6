# Formal model of shoot-grafter

TLA+ modules for the controllers of shoot-grafter, TLC configurations that check
them on small instances, and TLAPS proofs of their safety properties for all
constants. `PROJECT.json` lists the components, the runs, the mutants that show
each property to be sensitive, the map from definitions to source lines, the
findings, the hazards and the theorems.

## The system

| Part | State | Operations | Module |
|---|---|---|---|
| CareInstruction controller (`controller/careinstruction`) | map `gardens`: one garden manager with cancelFunc, stopChan, REST config, remembered spec and ConfigMap hash per CareInstruction; conditions and restart count in the status | lifecycle.Reconcile calls EnsureCreated (reconcileManager, reconcileShootsNClusters) or EnsureDeleted; watches of Secrets, Clusters, ConfigMaps | `GardenManagers` |
| Garden manager | a goroutine per manager with its own context | started by reconcileManager, stopped by cancel, may die | `GardenManagers` |
| Report on Shoots and Clusters (`reconcileShootsNClusters`, `shootstatus.go`, `metrics.go`) | counts, list of Shoots and condition in the status; four gauges | comparison of Shoots and Clusters, buildShootStatuses, UpdateCareInstructionMetrics | `ShootReport` |
| Reconcile annotation on Clusters | annotation on Cluster and Shoot | `careinstruction_controller.go:465-485` | `ShootReport` |
| Shoot controller, onboarding (`controller/shoot/shoot_controller.go`) | the Greenhouse Secret of a Shoot; the Cluster Greenhouse derives from it | Reconcile of one Shoot: ownership check, deletion of the Cluster, selectors, address, CA, Secret | `ShootOnboarding` |
| Shoot controller, annotations of the Secret | annotations of the spec, of the controller and of others; list of tracked keys | the mutation in CreateOrUpdate | `ShootAccess` |
| Shoot controller, RBAC (`rbac.go`, `client.go`) | a ClusterRoleBinding in the shoot | getShootClusterClient, SetRBAC | `ShootAccess` |
| Shoot controller, OIDC (`auth.go`) | ConfigMaps in the garden, reference and annotation of the Shoots | ConfigureOIDCAuthentication, AnnotateShootForReconcile, EnqueueShoots | `ShootAuth` |
| Predicates (`internal/clientutil`) | none | filters of watch events | guards of the event actions of all five |
| main, webhook, generated code, charts | none of their own | wiring | not modelled |

**Interaction.** The CareInstruction controller starts and cancels garden managers;
a manager runs one shoot controller. Shoot controllers write Secrets; Greenhouse
makes Clusters from them; Clusters wake the CareInstruction controller, which
reports on them. A change of the authentication ConfigMap wakes the CareInstruction
controller, which restarts the shoot controller, which copies the content to the
garden and asks Gardener to reconcile the Shoots. An annotation on a Cluster takes
the same way to its Shoot.

**What is hard.** All state of the managers is in memory and changes in steps
between which calls fail; decisions use conditions and objects from a cache that
lags; managers stop in goroutines nobody waits for, with calls in flight; several
shoot controllers write one Secret while ownership is read from the Cluster; some
errors are logged and not returned, so that only another event brings a retry.

**What makes each part correct.** At most one open shoot controller per
CareInstruction, none without an owner, one that runs with the current spec,
credentials and ConfigMap in the end, deletions that complete; a complete Shoot
onboarded with its present address, its Cluster removed with it and with nothing
else, an owner that does not change by itself; a Secret with the annotations of the
spec in force and with those of others; administrators' access in the shoot; every
Shoot configured with the Greenhouse content; a report that says what is there, and
requests that are neither lost nor left.

## Modules

### GardenManagers

One worker (`pc`, `cur`, `obj`, `orig`) walks through `Reconcile`; each action is
the code between two calls that another actor can get in between.

| Source | Actions |
|---|---|
| lifecycle.Reconcile (external, as the code uses it) | BeginNotFound, BeginCreate, BeginDelete, PatchStatus, RemoveFinalizer |
| EnsureCreated, ensureAuthConfigMapLabeled | EnsureAuthConfigMapLabeled, ManagerError, SyncError |
| reconcileManager | EnsureGardenEntry, AccessError, KeepManager or StopManager (checks 1 to 5 are `ManagerIsCurrent`), StartManager |
| reconcileShootsNClusters, as far as it concerns the manager | HandleReconcileAnnotation, CheckAuthConfigMap, CompareClusters |
| restartShootController | RestartShootController, part of the two actions that call it |
| EnsureDeleted, cleanupCareInstruction | CleanupCareInstruction, RemoveFinalizer |
| the goroutine of a manager | ManagerExits, ManagerDies, InitialShootPass |
| watches | Deliver, Resync, and the queue in SecretChanges, AuthConfigMapChanges, ClusterChanges |

`seen` is the informer cache. It catches up with the newest version at once
(`Deliver`); versions in between are not shown one by one. `run` in a map entry
stands for cancelFunc, stopChan and gardenClient, which the code assigns together.
`alias` says that the entry's `careInstructionSpec` points into the object being
reconciled, so that patch answers reach it: client.Patch decodes its answer into the
object it is given, the status patch of the lifecycle package included. `AuthRollback`
says whether a ConfigMap may return to old content, `FirstContent` what the ConfigMap
has at the start. Distinct contents have distinct hashes. Whether clusters match the shoots is one
bit per CareInstruction (`onboarded`); the comparison itself is in ShootReport.

**ShootControllers** is the abstract specification: a CareInstruction that exists
has a place for one shoot controller; a controller is started only into an empty
place, and a CareInstruction goes only when its place is empty. It knows neither
reconciles nor conditions, caches or map entries. The refinement mapping takes
`exists` from the objects on the server and `running` from the managers that run and
are not cancelled (`Exists`, `Running`, `ImplementsShootControllers`).

### ShootOnboarding

The shoot controllers of several CareInstructions and the objects of one shoot
name; all lookups are by that name. A pass is CheckOwnership, GetShoot, then
RequestClusterDeletion, or GetCA, WriteSecret and Configure (OIDC and RBAC, seen
only as a step that may fail). The Secret is abstracted to owner label, address and
CA. CareInstructions in `ByLabel` have a label selector, which filters the events of
the watch, deletions included; those in `ByState` have a CEL expression over
`lastOperation.state`, which the watch predicate evaluates on creations and updates.
PropagateLabels and FinishClusterDeletion are Greenhouse, as the code and the user
guide describe it. A Shoot that Gardener has finished may be there from the start.

`Restarts` has the CareInstructions whose controller may be replaced, as
GardenManagers does. The stop only cancels a context: a write of the Secret or a
deletion of the Cluster that the old controller had sent (`late`) is carried out at any
time, before, during or after the passes of the successor, or not at all. The write is
refused if the Secret is another one by then. One such call per CareInstruction is
kept.

`touched` says that the Secret was last written or removed out of turn, so that no
pass is to come that would put it right: by a user who moved the Shoot (`Moves`), by a
controller that lost the ownership meanwhile (`Contested`), by a late call that
nobody of the successor follows (`Awaited`), or by Greenhouse, when a Cluster that is
being deleted goes while the Shoot is there again. The properties about the Secret
hold up to that; each of these cases leaves an older or no Secret until the next event
of the Shoot. The next write in turn clears it.

`Hasty = FALSE` delays only DeleteShoot: the final removal of a Shoot, which takes
Gardener minutes, comes after Greenhouse and the controllers caught up with its Secret
(`CaughtUp`). Recreations are free, also while a controller that found the Shoot gone
is about to delete the Cluster. The Cluster is read as it is when ownership is
checked; a cache that lags by more than the rest of the pass is not modelled.

### ShootAccess

The two ends of the connection of one Shoot. At the Greenhouse end, MergeSecret is
the merge of the annotations: keys tracked from an earlier spec go, wanted ones are
set, reserved ones overwrite them, the workerless flag follows the Shoot, and the new
keys are tracked. It merges into the Secret of an informer cache (`cached`) and is
refused if that is not the current one (WriteSecretConflicts). At the shoot's end,
GetShootClusterClient, GetBinding, DeleteBinding and CreateOrUpdateBinding are
SetRBAC, whose errors end the pass without a retry. An edit of the spec replaces the
controller; the old one has at most the call in flight left (`Continue`). `touched`
says that someone changed the Secret and no pass of the live controller is going to
write it: another user, a replaced controller's last write, or a change that the
cache did not show in time. `Maintenance` is Gardener's regular reconcile, the event
such a change waits for. That an edit replaces the controller is GardenManagers'
`SpecAppliedUnlessOvertaken`; an edit that `spec_missed` loses is not one here.

### ShootAuth

The shoot controller of one CareInstruction configuring its Shoots, with the
incarnations that a restart replaces: the old one finishes its pass or is cut short,
only the live one takes requests. `work[w].read` is the Shoot as the pass last read
it; the label patch refreshes it, and UpdateShootSpec is refused if it is not the
current one. The CareInstruction controller remembers the content it last saw
(`hash`). A change of the ConfigMap makes a reconcile of it due, which restarts the
shoot controller only if the content differs from that (RestartShootController), and
else does nothing (SameAuthConfigMap). A content that comes and goes before the
reconcile therefore brings no restart; if the live controller read it meanwhile it is
`astray`, until the next restart, and what it copied may stay. `FirstRef` gives the
references that Shoots have at the start. Events are put in the queue with the write
that causes them, which tells no more Shoots than the delayed event would. `Copied` is what a pass is to
achieve for a Shoot: label, reference and content. `Overlap` and `Tampering` switch
the replacement in mid-pass and the edits by others.

### ShootReport

One pass of reconcileShootsNClusters is Begin, HandleReconcileAnnotation, ListShoots
(garden, fresh), ListClusters (cache), AnnotateShoot and RemoveClusterAnnotation for
each annotated Cluster, Compare, and the status patch of the lifecycle package. Any
call may end it (`CallFails`); the deferred function then still sets the gauges, and
the status is patched with the counts as far as they were computed. The patch is
computed against the status the cache showed (`MergeStatus`), so that the server may
hold a mixture of two passes. `event` says that the CareInstruction was written since
the cache last caught up with it, also if a later write restored the old value: the
watch still delivers. `owed` remembers requests that no Shoot has received.
The cache of the Clusters has no such mark; a Cluster that changes and changes back
before it is delivered sends no event in the model, which only takes passes away.
Passes come from the queue: changes of the status or the annotation that the cache
delivers, Cluster events that pass the predicates, and the resync.

The MC modules hold the constants of the instances. Definitions marked "Mutant" are
plausible mistakes in the definition that follows; no specification uses them.

## Runs

| Run | Shows |
|---|---|
| `managers_safety` | one CareInstruction with ConfigMap, two REST configs, three managers, 2 edits, 1 fault: types; the garden client is set when dereferenced; nobody at rest without a manager or with old Secret credentials; every step is one of ShootControllers or leaves its state alone; the inductive invariant `RestInv` |
| `managers_namespaces` | two CareInstructions of one name in two namespaces, 2 edits: one controller each, no orphan, neither at rest without a manager, and the inductive invariant `IInv` |
| `managers_liveness` | kubeconfig garden, a spec with and one without a ConfigMap, 1 edit, 1 fault, fairness: convergence after death, crash or failure; deletions complete; an edit of the ConfigMap reaches the running controller, and so does one of the spec that does not overtake the reconcile that starts a manager |
| `onboarding` | two CareInstructions on one garden, one with a label selector and both with a CEL expression, two addresses, two CAs, a Shoot that is there at first or not, replaced controllers with a call in flight, 3 edits of which one may be a fault: a complete, selected Shoot has its Secret whenever its controller rests and is onboarded in the end, with current data; Clusters of removed Shoots go, one that was onboarded by hand does not; `IInv` |
| `auth` | two Shoots and two ConfigMap names, overlapping controllers, edits by others, 2 edits of which one may be a fault, contents that change back: no reference to a ConfigMap that is not there; every Shoot has the content when the live controller is at rest; the copies end up as the Greenhouse content, whoever wrote last; the content reaches the API servers of Shoots that share no ConfigMap and meet no failure; `IInv` |
| `report` | one Shoot and its Cluster, 2 edits, 2 faults, crashes: the report converges to what is there; status and gauges agree at rest; one failed call is made up for; a request on a Cluster is not lost before its Shoot has it, and does not stay on the Cluster; `IInv` |
| `access` | three specs, two incarnations, 2 edits, 2 faults: every value a spec gave is tracked; annotations of others survive; the Secret is right at rest; both ends are right in the end; `IInv` |

Runs that show a disagreement with a comment or document (each is a finding in
`PROJECT.json`, with the quotation):

| Run | Disagreement |
|---|---|
| `spec_missed` | an edit of the spec during the reconcile that starts a manager never reaches that manager |
| `cancelled_kept` | a cancelled manager is kept after a failed start |
| `orphan_cluster` | a Shoot removed while its controller is replaced leaves its Cluster |
| `ownership_race` | two owners that passed the check overwrite each other |
| `auth_shared` | Shoots that share a ConfigMap: only the first is reconciled |

### What else a reader of the code should know

Behaviour that shows when a constant of a passing run is changed or a condition of its
property is dropped, or that the properties had to be stated around.

Manager lifecycle (`careinstruction_controller.go`):

* `spec_missed`: line 341 keeps a pointer into the object being reconciled, a status
  patch answer that carries a newer spec is decoded through it, and the comparison at
  line 219 then finds no change to apply. `SpecAppliedUnlessOvertaken` holds: it takes
  an edit between the read of the object and the end of that reconcile (`Overtaken`).
* `AuthRollback = TRUE` with one spec and three edits violates
  `AuthApplied`: a controller that starts while a new content is there copies it, and
  when the ConfigMap is back at the old content by the next comparison with the
  remembered hash (line 432), nothing restarts;
  `docs/user-guides/usage-examples.md:131-132` promises that changes are propagated.
* `RestartCount` counts restarts of the shoot controller at line 570 only, not the
  replacements by reconcileManager, where `careinstruction_types.go:140` speaks of
  every restart.

Report:

* An error of reconcileShootsNClusters is logged with "will retry" (line 121) and
  line 131 returns no error for it. The event of the status write is the retry; a
  second failure that leaves the same status makes no event, and the report waits for
  the resync.
* Early errors leave zeroed counts in the status and in the gauges, but the onboarded
  gauges of the Shoots as they were. If the pass takes the reconcile annotation off the
  CareInstruction, the answer to that patch puts the persisted counts back into the
  object that lines 370-373 zeroed (lines 383-391).
* The status patch against a cache that lags may leave a mixture of two passes on the
  server. `AtRestReport` shows that the next pass repairs it.
* The onboarded gauge of a Shoot that left the list is never deleted (`metrics.go:97-111`).
* `status.shoots` has no entry for a selected Shoot that has no Cluster yet; only the
  counts tell.
* A Cluster whose owner label is removed sends no event (`predicates.go:31`).
* An annotated Cluster whose Shoot is gone keeps its annotation, with ShootsReconciled
  False, until someone takes it off. A cache that still shows the annotation can
  forward an old request again, and takes a new one off with it. A request that is made
  between the two patches goes with the annotation that is taken off, although the
  Shoot was annotated before it; `RequestKept` counts it as answered.

Onboarding (`shoot_controller.go`):

* In the ownership race (lines 157, 286) the loser's write may also leave an older
  address in the Secret, which nobody corrects until the next event: `SecretCurrent`
  excludes races.
* The deletion of a Cluster is by name (line 398), on the strength of a Shoot that was
  not found earlier. A controller that stalls between the two while the Shoot is
  recreated and onboarded again deletes the Cluster of the new Shoot; so does its
  deletion in flight when it is stopped. `DeletesOnlyOnboarded` promises only that a
  Cluster stays that was onboarded by hand before the controllers started; one that is
  onboarded by hand between check and deletion is lost as well.
* A Shoot that is recreated while its old Cluster is being deleted writes into the
  Secret that goes with that Cluster. Nothing watches the Secret, so it stays missing
  until the next event of the Shoot.
* The late write of a replaced controller may land after the last pass of its
  successor and put an older address or CA back until the next event.
* LabelSelectorPredicate also filters delete events (lines 66-72): a Shoot that loses
  the label and is then deleted leaves its Cluster.
* An owner that no longer selects a Shoot does not update its Secret any more.
* A CEL expression over fields of the status other than those the noise filter
  compares may become true without an event.
* A Shoot moved to another CareInstruction by its label on the Secret is relabelled by
  the old owner when that reconciles before Greenhouse propagated the label (line
  321), against the move that the usage examples describe.

Annotations, RBAC and OIDC:

* A replaced controller's write in flight, or a pass on a cache that lags, can leave
  annotations of the old spec on the Secret until the next event of the Shoot.
* SetRBAC swallows its errors (`rbac.go`): a failure between the deletion and the
  re-creation of the ClusterRoleBinding leaves the shoot without it until the next
  event; a binding that someone else deleted first ends SetRBAC as well. Disabling
  RBAC in the spec leaves the binding in place.
* `Applied` is violated by a failing call too: AnnotateShootForReconcile
  (`auth.go:138`) is called only when this pass changed the ConfigMap, so a failure
  between the two writes loses the annotation.
* A reference to a ConfigMap that a user sets during the pass is overwritten, because
  the label patch refreshes the object that UpdateShootSpec later sends
  (`auth.go:108-129`).

### Bounds, deadlock, fairness

**Bounds.** `MaxEdits` and `MaxFaults` bound what users, Gardener, Greenhouse and
failures do; the controllers are unbounded. Two edits and one fault suffice for a
change during the handling of another change with a failure in between. In
ShootOnboarding and ShootAuth the failed calls count among the edits. `onboarding`
starts with the Shoot complete or absent; the first address and the first CA that
Gardener gives a new Shoot, and the ends of operations, are no edits, so that three
are left to disturb it; `report` and
`access` have two faults because the second failure is the one that makes no event.
Three managers are the current one, one that is slow to exit and a new one; two REST
configs, contents, owners, addresses or Shoots are what a conflict takes. The three
specs in `access` give a plain key two values, claim a reserved key and the workerless
key, and differ in enableRBAC. `report` has one name: Shoots meet only in the counts. The restart count is
bounded by the edits. Managers and REST configs are symmetric; symmetry is used only
in the two runs without fairness, where every property, the refinement included, is
about single states and steps.

**Deadlock** is not checked: when the edits are used up and every object is gone or
settled, the system is at rest.

**Fairness.** Weak fairness for the steps of a pass (a worker does not stop in the
middle, API calls return or are aborted with the context of a replaced controller). In
GardenManagers, where one worker has the keys of several CareInstructions, strong
fairness for taking each key (the queue is first-in first-out and retries are rate
limited, not dropped), and weak fairness for watch delivery, the 10-hourly resync of
controller-runtime, the exit of a cancelled manager and the first pass of a new one;
the same for deliveries and resync in ShootReport, and in ShootAccess for deliveries,
the restart by the CareInstruction controller and Gardener's regular reconcile. In
ShootOnboarding and ShootAuth all that the system does is one action, `Progress`,
under weak fairness: controllers, the restart of a stopped one, the late call (carried
out or lost), Greenhouse, and Gardener ending operations or reconciling what it is
asked to do not all stop while one of them has something to do. Retries without end,
of a CA or a Greenhouse ConfigMap that is missing, could starve the others under it;
no property promises anything while these are missing. No fairness for edits and
faults.

## Proofs

Every safety property of the runs, invariant or action property, is proved for every
value of the constants, from the named assumptions of the modules. These say that
`None` and the foreign values differ from all others, that sets that a `CHOOSE` takes
from are not empty, that the names in ShootReport are finitely many (it counts them)
and that the bounds are numbers. Each inductive invariant is also an invariant of a
run.

| Module | Theorems |
|---|---|
| `GardenManagersProofs` | `TypeCorrect`, `ManagersInvariant`, `NeverTwoControllers`, `NeverOrphaned`, `NeverNilClient` |
| `GardenManagersRefinement` | `Refines` |
| `GardenManagersRest` | `NothingOwed`, `RestingHasManager` |
| `ShootAccessProofs` | `AccessTypes`, `AccessInvariant`, `NothingForgotten`, `RestingSecretRight`, `OthersKept` |
| `ShootReportProofs` | `ReportTypes`, `ReportInvariant`, `RequestsKept`, `RestingReportAgrees`, `FirstFailureRetried` |
| `ShootOnboardingProofs` | `OnboardingTypes`, `OnboardingInvariant`, `RestingOnboarded`, `HandMadeKept` |
| `ShootAuthProofs` | `AuthTypes`, `AuthInvariant`, `RestingCopied`, `NeverDangling` |

**GardenManagersProofs.** None of the three safety invariants is inductive. That a
replacement leaves no second controller depends on the map entry naming every live
manager (`Owned`), on an entry without `mgr` having none alive, and on the manager
being cancelled by the time the worker is about to start another (`EntryHolds`). That
a deletion loses none depends on the finalizer: a CareInstruction with a live manager
has it, the worker that creates holds it (`WorkerHolds`), and a cache that shows a
deletion is never contradicted by the server (`CacheLags`). `IInv` is their
conjunction with the types; there is one lemma per action or group of actions, and
`InvStep` puts them together. The keys of two CareInstructions are shown to differ
(`KeyInjective`), which is where the namespace in the key matters.

**GardenManagersRefinement** shows `Spec => ImplementsShootControllers`. The mapping
is total, so only the steps need an argument. Steps that change neither the objects'
existence nor a context stutter (`QuietStep`, `SameManagers`). A cancel or a death
empties the place of one CareInstruction, because by `Owned` its entry names every
controller that runs for it (`StopOne`, `CancelStops`). StartManager finds the place
empty because `EntryHolds` says so at that point of the pass (`StartFits`);
RemoveFinalizer, because the clean-up has cancelled the entry's manager and no other
is running (`RemoveFits`). A CareInstruction without finalizer has no controller, so
its direct removal fits too.

**GardenManagersRest** is about a restart, which takes the manager away and leaves it
to the event of a status write to bring it back. The difficulty is that the status is
read from the cache, counted up in memory, perhaps after a patch answer replaced it by
the server's, and merged into a server status that may be another one again.
`RestInv` says that a CareInstruction that nothing queued or running will look at
(`Passed`) has its manager, or has a cache that is behind in a way that users cannot
make up for (`Behind`: restart count, finalizer, deletion, existence; a spec that is
edited back and forth does not count), or is in a pass that will write another restart
count than it read (`Counted`). `RestRestart` shows that a restart counts so, whatever
was read, and `RestPatch` that the merge keeps the difference. For the credentials
(`ConfigKept`) the spec in the cache is the one that matters, as the watch of the
Secrets goes by it. `NewIsQueued` excludes that an object that is deleted and created
again between two reads looks as if it had been reconciled.

**ShootAccessProofs.** `Tidy` says of a Secret that values of specs are tracked and
that only keys of specs are; the merge preserves it whatever spec it works with, which
gives `NothingForgotten` for writes of replaced controllers too. `LiveHolds` says that
unless a pass is queued, running or to be replaced the Secret is right: the optimistic
lock makes a write one of what was read, and a refused one comes back.

**ShootReportProofs.** `RequestHolds` follows one request from the list to the removal
of its annotation; `CountHolds` ties the counts to the sets they count. `ReportHolds`
carries `RestingReportAgrees`: a pass that no event will follow has read what the
server holds, so the merge patch writes the status of this pass and no mixture, or
changes nothing because it agreed before. `FailureHolds` shows that a first failure
always changes the condition, so that the write is an event.

**ShootOnboardingProofs.** For `RestingOnboarded` three facts are needed. A pass has
read the present address and CA, or the Shoot is in the queue (`PassHolds`): a change
of the Shoot that makes it complete and selected passes the filters of every
controller that runs (`GardenerNotifies`), a CA changes only during an operation whose
end does, and a controller that was stopped lists the Shoot when it starts. A
controller that leaves a Cluster alone leaves one whose owner is that of the Secret
(`LabelHolds`), so the Secret is another one's. And a Secret goes, or is written by a
late call after the last pass, only with `touched`. For `HandMadeKept` a controller on
its way to the deletion, or its late call, has believed since the ownership check that
the Cluster is its own, and a Cluster that carries the label of a CareInstruction
carries one until it is gone (`OwnersHold`).

**ShootAuthProofs.** `CopyHolds` says that every Shoot is in the queue, has the content
the CareInstruction controller remembers, or is in a pass of the live controller that
will give it that content (`UnderWay`), unless that controller is astray; and that the
remembered content is the one of the ConfigMap unless a reconcile is due. A pass that
reads another content than the remembered one is what makes it astray. What can undo a copy is a write
into the ConfigMap by others or by a replaced controller, or a write of the Shoot. The
second always brings the Shoot back; the first does because ConfigMaps the controllers
wrote carry the watched label (`ConfigMapHolds`), the Shoot's label is never taken
off (`PassHolds`), and a pass that has not labelled its Shoot yet writes it later. A
pass points its Shoot only at a ConfigMap that it wrote before, and none is deleted
(`NeverDangling`).

**Model-checked only:** the properties with fairness (`Converges`,
`DeletionCompletes`, `SpecAppliedUnlessOvertaken`, `AuthApplied`, `Onboarded`, `SecretCurrent`,
`CleanedUpIfAttentive`, `SoleOwner`, `AppliedIfUndisturbed`, `ReportConverges`,
`RequestForwarded`, `AccessSettles`). Liveness and `ENABLED` are out of the prover's
reach.

## Not modelled

* Flag parsing and wiring in `main.go`; the webhook, which only fills in an empty
  selector and is not registered; generated code; charts and test helpers; events and
  logs.
* Labels of the Secret other than the owner's: additionalLabels are only ever added,
  so that those dropped from a spec stay.
* Someone editing the annotation that tracks keys, and two organisations whose
  controllers write the one ClusterRoleBinding name of a shoot in turn.
* Metric labels, and the gauges of a CareInstruction that changes its garden
  namespace.

What is left to do: an abstract specification for the shoot controllers of several
CareInstructions, as ShootControllers is one for their managers, and a cache of the
Clusters in ShootOnboarding.
