-------------------------- MODULE ShootOnboarding --------------------------
(***************************************************************************)
(* The shoot controllers of several CareInstructions of one namespace, and *)
(* the objects of one shoot name: the Shoot and its CA ConfigMap in each   *)
(* garden, the Greenhouse Secret a shoot controller writes, and the        *)
(* Cluster that Greenhouse derives from the Secret. Every lookup in the    *)
(* controller is by this name, so shoots of different names do not meet.   *)
(***************************************************************************)
EXTENDS Naturals, FiniteSets

CONSTANTS
  Owners,        \* CareInstructions, one shoot controller each
  Gardens,       \* garden clusters
  GardenOf,      \* the garden a CareInstruction points to
  ByLabel,       \* CareInstructions whose shootSelector has a labelSelector
  ByState,       \* those with object.status.lastOperation.state == "Succeeded"
  URLs,          \* external addresses of a shoot's API server
  CAs,           \* contents of ca.crt
  None,          \* an absent label, address or owner
  Restarts,      \* those whose shoot controller may be stopped and started again
  Hasty,         \* may a Shoot go before Greenhouse has caught up with it?
  Moves,         \* do users move Shoots to another CareInstruction?
  MaxEdits,      \* bound: changes made by users and Gardener, and failed calls
  MaxFaults      \* bound: the failed API calls among them

ASSUME ConstantsAssumption ==
  /\ GardenOf \in [Owners -> Gardens]
  /\ ByLabel \subseteq Owners /\ ByState \subseteq Owners
  /\ None \notin Owners /\ None \notin URLs /\ None \notin CAs
  /\ URLs # {} /\ CAs # {} /\ {"missing", "empty"} \cap CAs = {}
  /\ Restarts \subseteq Owners /\ Hasty \in BOOLEAN /\ Moves \in BOOLEAN
  /\ MaxEdits \in Nat /\ MaxFaults \in Nat

VARIABLES
  shoot,    \* by garden: existence, selected label, address, state of lastOperation
  ca,       \* by garden: ca.crt of <shoot>.ca-cluster, or why there is none
  secret,   \* the Greenhouse Secret: owner label, address and CA
  cluster,  \* the Greenhouse Cluster: owner label, and whether it is being deleted
  up,       \* is the shoot controller running?
  queue,    \* the controllers whose work queue holds the shoot
  pc,       \* where a controller is in Reconcile
  owned,    \* did it read a Cluster with its own label? (until it read the Shoot)
  read,     \* the address and the CA it read (until it wrote them)
  late,     \* the call of a stopped controller that is still under way
  touched,  \* was the Secret last written or removed out of turn?
  edits, faults

objectVars == <<shoot, ca, secret, cluster>>
controllerVars == <<up, queue, pc, owned, read>>
vars == <<objectVars, controllerVars, late, touched, edits, faults>>

Shoot == [exists : BOOLEAN, labelled : BOOLEAN, url : URLs \cup {None}, processing : BOOLEAN]

NoShoot == [exists |-> FALSE, labelled |-> FALSE, url |-> None, processing |-> FALSE]

Secret == [exists : BOOLEAN, owner : Owners \cup {None},
           url : URLs \cup {None}, ca : CAs \cup {None}]

NoSecret == [exists |-> FALSE, owner |-> None, url |-> None, ca |-> None]

Cluster == [exists : BOOLEAN, owner : Owners \cup {None}, deleting : BOOLEAN]

NoCluster == [exists |-> FALSE, owner |-> None, deleting |-> FALSE]

Reading == [url : URLs \cup {None}, ca : CAs \cup {None}]

Nothing == [url |-> None, ca |-> None]

(* A write or a deletion that was sent, with what it writes and the Secret  *)
(* it is based on.                                                          *)
Call == [pc : {"idle", "secret", "delete"}, read : Reading, found : Secret]

NoCall == [pc |-> "idle", read |-> Nothing, found |-> NoSecret]

(* The LabelSelectorPredicate, and the CEL expression of the shootSelector. *)
MatchesLabels(o, s) == o \in ByLabel => s.labelled

MatchesCELFilter(o, s) == o \in ByState => ~s.processing

Selected(o, s) == MatchesLabels(o, s) /\ MatchesCELFilter(o, s)

(* A Shoot that Gardener finished before the controllers started.           *)
FirstURL == CHOOSE u \in URLs : TRUE

FirstCA == CHOOSE c \in CAs : TRUE

FinishedShoot(l) == [exists |-> TRUE, labelled |-> l, url |-> FirstURL, processing |-> FALSE]

(* The Shoot may be there already, then a new controller lists it if it is  *)
(* selected; a Cluster of its name may have been onboarded by hand.         *)
Init ==
  /\ \E present \in SUBSET Gardens, l \in BOOLEAN :
       /\ shoot = [g \in Gardens |-> IF g \in present THEN FinishedShoot(l) ELSE NoShoot]
       /\ ca = [g \in Gardens |-> IF g \in present THEN FirstCA ELSE "missing"]
  /\ queue = {o \in Owners : shoot[GardenOf[o]].exists /\ Selected(o, shoot[GardenOf[o]])}
  /\ secret = NoSecret
  /\ cluster \in {NoCluster, [NoCluster EXCEPT !.exists = TRUE]}
  /\ up = [o \in Owners |-> TRUE]
  /\ pc = [o \in Owners |-> "idle"]
  /\ owned = [o \in Owners |-> FALSE]
  /\ read = [o \in Owners |-> Nothing]
  /\ late = [o \in Owners |-> NoCall]
  /\ touched = FALSE
  /\ edits = 0
  /\ faults = 0

Edit == edits + faults < MaxEdits /\ edits' = edits + 1 /\ UNCHANGED faults

Fault ==
  /\ faults < MaxFaults /\ edits + faults < MaxEdits
  /\ faults' = faults + 1 /\ UNCHANGED edits

NoFault == UNCHANGED <<edits, faults>>

-----------------------------------------------------------------------------
(* ShootController.Reconcile.                                               *)

Goto(o, p) == pc' = [pc EXCEPT ![o] = p]

(* Reconcile returns: with an error, a conflict or RequeueAfter the request *)
(* comes back.                                                              *)
Done(o) ==
  /\ Goto(o, "idle")
  /\ owned' = [owned EXCEPT ![o] = FALSE]
  /\ read' = [read EXCEPT ![o] = Nothing]

Retry(o) == Done(o) /\ queue' = queue \cup {o}

GetFails(o) ==
  /\ pc[o] \in {"shoot", "ca"}
  /\ Fault
  /\ Retry(o)
  /\ UNCHANGED <<objectVars, up, late, touched>>

OwnedByOther(o) == cluster.exists /\ cluster.owner \notin {None, o}

(* Mutant: a Cluster without the label counts as owned.                     *)
CheckOwnershipOfUnlabelled(o) ==
  /\ pc[o] = "idle" /\ o \in queue /\ up[o]
  /\ queue' = queue \ {o}
  /\ IF OwnedByOther(o)
     THEN UNCHANGED <<pc, owned>>
     ELSE Goto(o, "shoot") /\ owned' = [owned EXCEPT ![o] = cluster.exists]
  /\ NoFault
  /\ UNCHANGED <<objectVars, up, read, late, touched>>

(* The early check: leave the Clusters of other CareInstructions alone.     *)
CheckOwnership(o) ==
  /\ pc[o] = "idle" /\ o \in queue /\ up[o]
  /\ queue' = queue \ {o}
  /\ IF OwnedByOther(o)
     THEN UNCHANGED <<pc, owned>>
     ELSE /\ Goto(o, "shoot")
          /\ owned' = [owned EXCEPT ![o] = cluster.exists /\ cluster.owner = o]
  /\ NoFault
  /\ UNCHANGED <<objectVars, up, read, late, touched>>

GetShoot(o) ==
  LET s == shoot[GardenOf[o]]
  IN  /\ pc[o] = "shoot"
      /\ \/ /\ ~s.exists /\ owned[o]
            /\ Goto(o, "delete")
            /\ UNCHANGED <<owned, read>>
         \/ /\ IF s.exists THEN s.url = None ELSE ~owned[o]
            /\ Done(o)
         \/ /\ s.exists /\ s.url # None
            /\ Goto(o, "ca")
            /\ read' = [read EXCEPT ![o].url = s.url]
            /\ owned' = [owned EXCEPT ![o] = FALSE]
      /\ NoFault
      /\ UNCHANGED <<objectVars, up, queue, late, touched>>

(* Delete by name: whatever Cluster has the name now. A Cluster that is     *)
(* gone already is no error.                                                *)
RequestClusterDeletion(o) ==
  /\ pc[o] = "delete"
  /\ cluster' = [cluster EXCEPT !.deleting = cluster.exists]
  /\ Done(o)
  /\ NoFault
  /\ UNCHANGED <<shoot, ca, secret, up, queue, late, touched>>

RequestClusterDeletionFails(o) ==
  /\ pc[o] = "delete"
  /\ Fault
  /\ Retry(o)
  /\ UNCHANGED <<objectVars, up, late, touched>>

(* Mutant: an empty ca.crt is not noticed.                                  *)
GetCAUnchecked(o) ==
  LET content == ca[GardenOf[o]]
  IN  /\ pc[o] = "ca"
      /\ \/ content = "missing" /\ Retry(o)
         \/ /\ content # "missing"
            /\ Goto(o, "secret")
            /\ read' = [read EXCEPT ![o].ca = content]
            /\ UNCHANGED <<owned, queue>>
      /\ NoFault
      /\ UNCHANGED <<objectVars, up, late, touched>>

(* A ConfigMap that is missing is an error, one without ca.crt is not.      *)
GetCA(o) ==
  LET content == ca[GardenOf[o]]
  IN  /\ pc[o] = "ca"
      /\ \/ content = "missing" /\ Retry(o)
         \/ content = "empty" /\ Done(o) /\ UNCHANGED queue
         \/ /\ content \in CAs
            /\ Goto(o, "secret")
            /\ read' = [read EXCEPT ![o].ca = content]
            /\ UNCHANGED <<owned, queue>>
      /\ NoFault
      /\ UNCHANGED <<objectVars, up, late, touched>>

(* The merge of the Secret: its label, its address and its ca.crt.          *)
Merged(o, r) == [exists |-> TRUE, owner |-> o, url |-> r.url, ca |-> r.ca]

(* Secret or Cluster went to another CareInstruction since o checked: what  *)
(* o writes then is not its own, and the other one does not return for it.  *)
Contested(o) == OwnedByOther(o) \/ (secret.exists /\ secret.owner # o)

(* Mutant: a Secret that exists keeps its address and CA.                   *)
WriteSecretOnce(o) ==
  /\ pc[o] = "secret"
  /\ secret' = IF secret.exists THEN [secret EXCEPT !.owner = o] ELSE Merged(o, read[o])
  /\ touched' = Contested(o)
  /\ Goto(o, "configure") /\ read' = [read EXCEPT ![o] = Nothing]
  /\ NoFault
  /\ UNCHANGED <<shoot, ca, cluster, up, queue, owned, late>>

(* CreateOrUpdate of the Secret: read, merge and write at one version.      *)
WriteSecret(o) ==
  /\ pc[o] = "secret"
  /\ secret' = Merged(o, read[o])
  /\ touched' = Contested(o)
  /\ Goto(o, "configure") /\ read' = [read EXCEPT ![o] = Nothing]
  /\ NoFault
  /\ UNCHANGED <<shoot, ca, cluster, up, queue, owned, late>>

(* A concurrent write of the Secret, or another error.                      *)
WriteSecretFails(o) ==
  /\ pc[o] = "secret"
  /\ Fault
  /\ Retry(o)
  /\ UNCHANGED <<objectVars, up, late, touched>>

(* OIDC (module ShootAuth) and RBAC change none of the objects here, but an *)
(* error of the former or of the shoot client brings the request back.      *)
Configure(o) ==
  /\ pc[o] = "configure"
  /\ Done(o)
  /\ NoFault
  /\ UNCHANGED <<objectVars, up, queue, late, touched>>

ConfigureFails(o) ==
  /\ pc[o] = "configure"
  /\ Fault
  /\ Retry(o)
  /\ UNCHANGED <<objectVars, up, late, touched>>

-----------------------------------------------------------------------------
(* The watch of the Shoots.                                                 *)

(* Mutant: the state of lastOperation counts as noise.                      *)
PassesAddressFilter(old, new) == old.labelled # new.labelled \/ old.url # new.url

(* PredicateShootStatusNoise: an update passes if the labels, the address   *)
(* or the state of lastOperation changed (or anything else that carries     *)
(* nothing this module models).                                             *)
PassesNoiseFilter(old, new) ==
  \/ old.labelled # new.labelled
  \/ old.url # new.url
  \/ old.processing # new.processing

(* Mutant: the CEL predicate filters deletions too.                         *)
HearsOfSelected(o, s) == Selected(o, s)

(* Deletions: newCELPredicate lets all of them pass, the label predicate    *)
(* those of Shoots that matched to the last.                                *)
HearsDeletion(o, s) == MatchesLabels(o, s)

Watching(g) == {o \in Owners : up[o] /\ GardenOf[o] = g}

(* Creations and updates pass if the new Shoot is selected, updates only if *)
(* they are more than noise.                                                *)
Notified(g, new) ==
  {o \in Watching(g) :
     \/ new.exists /\ ~shoot[g].exists /\ Selected(o, new)
     \/ new.exists /\ shoot[g].exists /\ PassesNoiseFilter(shoot[g], new) /\ Selected(o, new)
     \/ ~new.exists /\ HearsDeletion(o, shoot[g])}

ShootBecomes(g, new) ==
  /\ shoot' = [shoot EXCEPT ![g] = new]
  /\ queue' = queue \cup Notified(g, new)

-----------------------------------------------------------------------------
(* Greenhouse, as the controller relies on it: the Cluster is made from the *)
(* Secret and takes over its owner label; with the Cluster goes the Secret. *)
(* No controller watches the Secret: one that goes while the Shoot is there *)
(* is missed until the next event.                                          *)

PropagateLabels ==
  /\ secret.exists /\ ~cluster.deleting
  /\ cluster # [exists |-> TRUE, owner |-> secret.owner, deleting |-> FALSE]
  /\ cluster' = [exists |-> TRUE, owner |-> secret.owner, deleting |-> FALSE]
  /\ UNCHANGED <<shoot, ca, secret, controllerVars, late, touched, edits, faults>>

FinishClusterDeletion ==
  /\ cluster.deleting
  /\ cluster' = NoCluster
  /\ secret' = NoSecret
  /\ touched' = \E g \in Gardens : shoot[g].exists
  /\ UNCHANGED <<shoot, ca, controllerVars, late, edits, faults>>

-----------------------------------------------------------------------------
(* Gardener and users.                                                      *)

(* Greenhouse and the shoot controllers have caught up with the Secret. The *)
(* deletion of a Shoot takes Gardener minutes: unless it is Hasty, this is  *)
(* the case by then.                                                        *)
CaughtUp ==
  /\ secret.exists => cluster.owner = secret.owner
  /\ ~cluster.deleting
  /\ \A o \in Owners : pc[o] \notin {"ca", "secret"} /\ late[o].pc # "secret"

(* A new Shoot is Processing; its address and its CA come later (these do   *)
(* not count as edits), and maybe the label that selectors look for.        *)
CreateShoot(g) ==
  /\ Edit
  /\ ~shoot[g].exists
  /\ \E l \in BOOLEAN :
       ShootBecomes(g, [exists |-> TRUE, labelled |-> l, url |-> None, processing |-> TRUE])
  /\ UNCHANGED <<ca, secret, cluster, up, pc, owned, read, late, touched>>

AdvertiseAddress(g) ==
  /\ IF shoot[g].url = None THEN NoFault ELSE Edit
  /\ shoot[g].exists
  /\ \E u \in URLs \ {shoot[g].url} : ShootBecomes(g, [shoot[g] EXCEPT !.url = u])
  /\ UNCHANGED <<ca, secret, cluster, up, pc, owned, read, late, touched>>

ChangeLabels(g) ==
  /\ Edit
  /\ shoot[g].exists
  /\ ShootBecomes(g, [shoot[g] EXCEPT !.labelled = ~@])
  /\ UNCHANGED <<ca, secret, cluster, up, pc, owned, read, late, touched>>

(* Gardener writes the CA during an operation, in a ConfigMap that the      *)
(* shoot controller does not watch.                                         *)
ChangeCA(g) ==
  /\ IF ca[g] \notin CAs THEN NoFault ELSE Edit
  /\ shoot[g].exists /\ shoot[g].processing
  /\ \E content \in (CAs \cup {"empty"}) \ {ca[g]} : ca' = [ca EXCEPT ![g] = content]
  /\ UNCHANGED <<shoot, secret, cluster, controllerVars, late, touched>>

StartOperation(g) ==
  /\ Edit
  /\ shoot[g].exists /\ ~shoot[g].processing
  /\ ShootBecomes(g, [shoot[g] EXCEPT !.processing = TRUE])
  /\ UNCHANGED <<ca, secret, cluster, up, pc, owned, read, late, touched>>

FinishOperation(g) ==
  /\ shoot[g].exists /\ shoot[g].processing
  /\ ShootBecomes(g, [shoot[g] EXCEPT !.processing = FALSE])
  /\ UNCHANGED <<ca, secret, cluster, up, pc, owned, read, late, touched, edits, faults>>

DeleteShoot(g) ==
  /\ Edit
  /\ shoot[g].exists
  /\ Hasty \/ CaughtUp
  /\ ShootBecomes(g, NoShoot)
  /\ ca' = [ca EXCEPT ![g] = "missing"]
  /\ UNCHANGED <<secret, cluster, up, pc, owned, read, late, touched>>

(* The documented way to move a shoot: relabel its Secret, then trigger the *)
(* new CareInstruction, whose shoot controller lists the Shoot again.       *)
RelabelSecret(o) ==
  /\ Edit
  /\ Moves
  /\ shoot[GardenOf[o]].exists
  /\ secret.exists /\ secret.owner # o
  /\ secret' = [secret EXCEPT !.owner = o]
  /\ touched' = TRUE
  /\ queue' = queue \cup {w \in Watching(GardenOf[o]) \cap {o} : Selected(w, shoot[GardenOf[o]])}
  /\ UNCHANGED <<shoot, ca, cluster, up, pc, owned, read, late>>

-----------------------------------------------------------------------------
(* The CareInstruction controller replaces the garden manager.              *)

(* The context of the garden manager is cancelled, and with it the pass and *)
(* the calls it has not sent; one that was sent may still be carried out.   *)
(* Bound: one such call per CareInstruction.                                *)
StopController(o) ==
  /\ Edit
  /\ o \in Restarts /\ up[o] /\ late[o] = NoCall
  /\ up' = [up EXCEPT ![o] = FALSE]
  /\ queue' = queue \ {o}
  /\ late' = [late EXCEPT ![o] =
       IF pc[o] \in {"secret", "delete"}
       THEN [pc |-> pc[o], read |-> read[o], found |-> secret] ELSE NoCall]
  /\ Done(o)
  /\ UNCHANGED <<objectVars, touched>>

Landed(o) == late' = [late EXCEPT ![o] = NoCall]

(* A pass of the controller that runs now is still to write the Secret.     *)
Awaited(o) == ~up[o] \/ o \in queue \/ pc[o] \in {"shoot", "ca", "secret"}

(* The API server accepts the write if the Secret is the one it was based   *)
(* on.                                                                      *)
LateWrite(o) ==
  /\ late[o].pc = "secret" /\ secret = late[o].found
  /\ secret' = Merged(o, late[o].read)
  /\ touched' = (touched \/ Contested(o) \/ ~Awaited(o))
  /\ Landed(o)
  /\ UNCHANGED <<shoot, ca, cluster, controllerVars, edits, faults>>

LateDelete(o) ==
  /\ late[o].pc = "delete"
  /\ cluster' = [cluster EXCEPT !.deleting = cluster.exists]
  /\ Landed(o)
  /\ UNCHANGED <<shoot, ca, secret, controllerVars, touched, edits, faults>>

LateLost(o) ==
  /\ late[o] # NoCall
  /\ Landed(o)
  /\ UNCHANGED <<objectVars, controllerVars, touched, edits, faults>>

(* A new garden manager lists the Shoots that exist and are selected.       *)
StartController(o) ==
  /\ ~up[o]
  /\ up' = [up EXCEPT ![o] = TRUE]
  /\ LET s == shoot[GardenOf[o]]
     IN  queue' = IF s.exists /\ Selected(o, s) THEN queue \cup {o} ELSE queue
  /\ UNCHANGED <<objectVars, pc, owned, read, late, touched, edits, faults>>

-----------------------------------------------------------------------------
LateCall(o) == LateWrite(o) \/ LateDelete(o) \/ LateLost(o)

Reconcile(o) ==
  \/ CheckOwnership(o) \/ GetShoot(o) \/ RequestClusterDeletion(o)
  \/ GetCA(o) \/ WriteSecret(o) \/ Configure(o)

ReconcileFails(o) ==
  GetFails(o) \/ RequestClusterDeletionFails(o) \/ WriteSecretFails(o) \/ ConfigureFails(o)

Greenhouse == PropagateLabels \/ FinishClusterDeletion

Gardener(g) ==
  \/ CreateShoot(g) \/ AdvertiseAddress(g) \/ ChangeLabels(g) \/ ChangeCA(g)
  \/ StartOperation(g) \/ FinishOperation(g) \/ DeleteShoot(g)

Next ==
  \/ \E o \in Owners :
       \/ Reconcile(o) \/ ReconcileFails(o)
       \/ RelabelSecret(o) \/ StopController(o) \/ StartController(o) \/ LateCall(o)
  \/ \E g \in Gardens : Gardener(g)
  \/ Greenhouse

Spec == Init /\ [][Next]_vars

(* The system does not stop while there is something to do: controllers     *)
(* work off their queues, a stopped one is started again by the             *)
(* CareInstruction controller, its last call is carried out or not,         *)
(* Greenhouse acts, and Gardener ends the operations it begins.             *)
Progress ==
  \/ \E o \in Owners : Reconcile(o) \/ StartController(o) \/ LateCall(o)
  \/ \E g \in Gardens : FinishOperation(g)
  \/ Greenhouse

Fairness == WF_vars(Progress)

FairSpec == Spec /\ Fairness

-----------------------------------------------------------------------------
(* The variables have their types.                                          *)
TypeOK ==
  /\ shoot \in [Gardens -> Shoot]
  /\ ca \in [Gardens -> CAs \cup {"missing", "empty"}]
  /\ secret \in Secret /\ cluster \in Cluster
  /\ up \in [Owners -> BOOLEAN]
  /\ queue \subseteq Owners
  /\ pc \in [Owners -> {"idle", "shoot", "delete", "ca", "secret", "configure"}]
  /\ owned \in [Owners -> BOOLEAN]
  /\ read \in [Owners -> Reading]
  /\ late \in [Owners -> Call]
  /\ touched \in BOOLEAN
  /\ edits \in 0 .. MaxEdits /\ faults \in 0 .. MaxFaults

(* The Shoot in g is complete.                                              *)
Onboardable(g) == shoot[g].exists /\ shoot[g].url # None /\ ca[g] \in CAs

(* A CareInstruction selects the Shoot in g and finds no other owner.       *)
Wanted(g) ==
  \E o \in Owners :
    GardenOf[o] = g /\ Selected(o, shoot[g]) /\ cluster.owner \in {None, o}

(* The Shoot is in no other garden.                                         *)
Alone(g) == \A h \in Gardens \ {g} : ~shoot[h].exists

(* A complete Shoot that is selected ends up as a Cluster of one of the     *)
(* CareInstructions of its garden. The CA ConfigMap is not watched, an      *)
(* empty one is not retried, and events of a Shoot that is not selected are *)
(* lost: a later event has to pass the noise filter and the selectors. Only *)
(* a Secret that was last touched out of turn may be missing for good.      *)
Onboarded ==
  \A g \in Gardens :
    <>[](Onboardable(g) /\ Wanted(g) /\ Alone(g) /\ ~touched =>
           cluster.exists /\ cluster.owner \in Owners)

(* As long as the owner selects the Shoot, the Secret ends up with its      *)
(* present address and CA, whatever changed while a pass was under way or   *)
(* a controller was replaced, also by one whose predecessor still writes.   *)
(* Not so if the last to write was a controller that another one raced, a   *)
(* user, or a replaced controller after its successor.                      *)
SecretCurrent ==
  \A g \in Gardens :
    <>[](Onboardable(g) /\ Wanted(g) /\ Alone(g) /\ ~touched =>
           secret.url = shoot[g].url /\ secret.ca = ca[g])

(* The Shoot of o is complete and selected, and no operation is under way.  *)
Ready(o) ==
  LET s == shoot[GardenOf[o]]
  IN  Onboardable(GardenOf[o]) /\ ~s.processing /\ Selected(o, s)

Fresh(o) ==
  secret.exists /\ (secret.owner = o =>
    secret.url = shoot[GardenOf[o]].url /\ secret.ca = ca[GardenOf[o]])

(* Whenever a controller has nothing to do and the Shoot it selects is      *)
(* complete, there is a Secret, and one of its own has the present address  *)
(* and CA: no event that mattered was filtered or lost, and no pass wrote   *)
(* what it read too early without another one to come.                      *)
AtRestOnboarded ==
  \A o \in Owners : Ready(o) /\ ~Awaited(o) /\ ~touched => Fresh(o)

(* "Cleans up Greenhouse clusters when the corresponding Gardener Shoot is  *)
(* removed": no Cluster with an owner stays once the Shoot is in no garden. *)
CleanedUp ==
  <>[]((\A g \in Gardens : ~shoot[g].exists) => cluster.owner = None)

(* The shoot controller of o runs and would hear of the Shoot's deletion.   *)
Attentive(o) ==
  up[o] /\ (shoot[GardenOf[o]].exists => MatchesLabels(o, shoot[GardenOf[o]]))

(* The Cluster of a removed Shoot goes, also after failed calls, moves and  *)
(* while the CEL expression does not match, provided that the controller of *)
(* its owner was never stopped and the Shoot never lost the label while the *)
(* Cluster was its own.                                                     *)
CleanedUpIfAttentive ==
  [](\A o \in Owners : cluster.owner = o => Attentive(o)) => CleanedUp

(* A Cluster is asked to be deleted only if a CareInstruction onboarded it: *)
(* the owner label is read in one call, the deletion is by name in another, *)
(* which may be carried out long after its controller was stopped. One that *)
(* was onboarded by hand stays. (That the Shoot is still gone by then is    *)
(* not promised.)                                                           *)
DeletesOnlyOnboarded ==
  [][\A o \in Owners : (RequestClusterDeletion(o) \/ LateDelete(o)) /\ cluster.exists
       => cluster.owner \in Owners]_vars

(* "Ownership follows this label, not the CareInstruction selectors, so     *)
(* changing selectors alone moves nothing": a Cluster changes hands only    *)
(* when a user relabels its Secret.                                         *)
OwnershipStable ==
  [][~Moves /\ cluster.owner # None /\ cluster'.owner # None
       => cluster'.owner = cluster.owner]_vars

-----------------------------------------------------------------------------
(* The inductive invariant behind DeletesOnlyOnboarded and AtRestOnboarded. *)

(* Secrets are those of CareInstructions; a Cluster that has an owner has a *)
(* Secret, and while somebody believes that the Cluster is its own, a       *)
(* Cluster of that name is one a CareInstruction onboarded.                 *)
OwnersHold ==
  /\ secret.exists => secret.owner \in Owners
  /\ cluster.owner # None => cluster.exists /\ secret.exists
  /\ cluster.exists /\ (\E o \in Owners : owned[o] \/ late[o].pc = "delete")
       => cluster.owner \in Owners
  /\ \A o \in Owners : pc[o] = "delete" => owned[o]
  /\ \A o \in Owners : pc[o] # "idle" => up[o]

(* Without a touch out of turn, the Cluster follows its Secret.             *)
LabelHolds ==
  ~touched /\ cluster.owner # None => cluster.owner = secret.owner

(* A pass has read the present address and CA, or another one is to come.   *)
PassHolds ==
  \A o \in Owners : pc[o] \in {"ca", "secret"} /\ Ready(o) =>
    \/ o \in queue
    \/ /\ read[o].url = shoot[GardenOf[o]].url
       /\ pc[o] = "secret" => read[o].ca = ca[GardenOf[o]]

(* What every step preserves, whatever fails and whoever is restarted.      *)
IInv == TypeOK /\ OwnersHold /\ LabelHolds /\ PassHolds /\ AtRestOnboarded
=============================================================================
