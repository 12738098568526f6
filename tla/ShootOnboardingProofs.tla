----------------------- MODULE ShootOnboardingProofs -----------------------
(***************************************************************************)
(* Proofs about the shoot controllers of any number of CareInstructions    *)
(* and gardens: they ask for no deletion of a Cluster that no              *)
(* CareInstruction onboarded, and whenever a controller rests, the Shoot   *)
(* it selects has its Secret.                                              *)
(***************************************************************************)
EXTENDS ShootOnboarding, TLAPS

PC == {"idle", "shoot", "delete", "ca", "secret", "configure"}

-----------------------------------------------------------------------------
(* Types.                                                                   *)

LEMMA EmptyTypes ==
  /\ NoShoot \in Shoot /\ NoSecret \in Secret /\ NoCluster \in Cluster
  /\ Nothing \in Reading /\ NoCall \in Call
  BY DEF NoShoot, Shoot, NoSecret, Secret, NoCluster, Cluster, Nothing, Reading, NoCall, Call

LEMMA FirstTypes == FirstURL \in URLs /\ FirstCA \in CAs
  BY ConstantsAssumption DEF FirstURL, FirstCA

LEMMA TypeInit == Init => TypeOK
  <1> SUFFICES ASSUME Init PROVE TypeOK
    OBVIOUS
  <1>1. cluster \in Cluster
    BY EmptyTypes DEF Init, Cluster
  <1>2. secret \in Secret /\ read \in [Owners -> Reading] /\ late \in [Owners -> Call]
    BY EmptyTypes DEF Init
  <1>3. shoot \in [Gardens -> Shoot] /\ ca \in [Gardens -> CAs \cup {"missing", "empty"}]
    <2>1. \A l \in BOOLEAN : FinishedShoot(l) \in Shoot
      BY FirstTypes DEF FinishedShoot, Shoot
    <2>2. PICK present \in SUBSET Gardens, l \in BOOLEAN :
            /\ shoot = [g \in Gardens |-> IF g \in present THEN FinishedShoot(l) ELSE NoShoot]
            /\ ca = [g \in Gardens |-> IF g \in present THEN FirstCA ELSE "missing"]
      BY DEF Init
    <2>3. QED
      BY <2>1, <2>2, EmptyTypes, FirstTypes
  <1>4. /\ up \in [Owners -> BOOLEAN] /\ queue \subseteq Owners /\ pc \in [Owners -> PC]
        /\ owned \in [Owners -> BOOLEAN] /\ touched \in BOOLEAN
    BY DEF Init, PC
  <1>5. edits \in 0 .. MaxEdits /\ faults \in 0 .. MaxFaults
    BY ConstantsAssumption DEF Init
  <1>6. QED
    BY <1>1, <1>2, <1>3, <1>4, <1>5 DEF TypeOK, PC

LEMMA BoundTypes ==
  ASSUME TypeOK, Edit \/ Fault \/ NoFault
  PROVE  edits' \in 0 .. MaxEdits /\ faults' \in 0 .. MaxFaults
  BY ConstantsAssumption DEF TypeOK, Edit, Fault, NoFault

(* A controller that ends its pass, or goes on to the next call.            *)
LEMMA DoneTypes ==
  ASSUME TypeOK, NEW o \in Owners, Done(o)
  PROVE  /\ pc' \in [Owners -> PC]
         /\ owned' \in [Owners -> BOOLEAN] /\ read' \in [Owners -> Reading]
         /\ pc'[o] = "idle" /\ ~owned'[o]
         /\ \A p \in Owners \ {o} :
              pc'[p] = pc[p] /\ owned'[p] = owned[p] /\ read'[p] = read[p]
  BY EmptyTypes DEF TypeOK, Done, Goto, PC

LEMMA GotoTypes ==
  ASSUME TypeOK, NEW o \in Owners, NEW p \in PC, Goto(o, p)
  PROVE  pc' \in [Owners -> PC] /\ pc'[o] = p /\ \A q \in Owners \ {o} : pc'[q] = pc[q]
  BY DEF TypeOK, Goto, PC

(* What was read is an address and a CA.                                    *)
LEMMA ReadingTypes ==
  ASSUME TypeOK, NEW o \in Owners
  PROVE  /\ \A u \in URLs : [read EXCEPT ![o].url = u] \in [Owners -> Reading]
         /\ \A c \in CAs : [read EXCEPT ![o].ca = c] \in [Owners -> Reading]
  <1>1. read \in [Owners -> Reading] /\ read[o] \in Reading
    BY DEF TypeOK
  <1>2. ASSUME NEW u \in URLs
        PROVE  [read EXCEPT ![o].url = u] \in [Owners -> Reading]
    <2>1. [read[o] EXCEPT !.url = u] \in Reading
      BY <1>1 DEF Reading
    <2>2. QED
      BY <1>1, <2>1
  <1>3. ASSUME NEW c \in CAs
        PROVE  [read EXCEPT ![o].ca = c] \in [Owners -> Reading]
    <2>1. [read[o] EXCEPT !.ca = c] \in Reading
      BY <1>1 DEF Reading
    <2>2. QED
      BY <1>1, <2>1
  <1>4. QED
    BY <1>2, <1>3

(* A Shoot that changes is heard of by some of the controllers.             *)
LEMMA ShootTypes ==
  ASSUME TypeOK, NEW g \in Gardens, NEW new \in Shoot, ShootBecomes(g, new)
  PROVE  shoot' \in [Gardens -> Shoot] /\ queue' \subseteq Owners
  BY DEF TypeOK, ShootBecomes, Notified, Watching

LEMMA TypeReconcile ==
  ASSUME TypeOK, NEW o \in Owners, Reconcile(o) \/ ReconcileFails(o)
  PROVE  TypeOK'
  <1> USE DEF objectVars
  <1>0. pc \in [Owners -> PC] /\ (pc' \in [Owners -> PC] <=>
          pc' \in [Owners -> {"idle", "shoot", "delete", "ca", "secret", "configure"}])
    BY DEF TypeOK, PC
  <1>1. CASE ReconcileFails(o)
    <2>1. Fault /\ Retry(o) /\ UNCHANGED <<objectVars, up, late, touched>>
      BY <1>1
      DEF ReconcileFails, GetFails, RequestClusterDeletionFails, WriteSecretFails, ConfigureFails
    <2>2. queue' \subseteq Owners /\ Done(o)
      BY <2>1 DEF Retry, TypeOK
    <2>3. QED
      BY <1>0, <2>1, <2>2, BoundTypes, DoneTypes DEF TypeOK
  <1>2. CASE CheckOwnership(o)
    <2>1. pc' \in [Owners -> PC] /\ queue' \subseteq Owners
      BY <1>2 DEF CheckOwnership, Goto, TypeOK, PC
    <2>2. owned' \in [Owners -> BOOLEAN]
      BY <1>2 DEF CheckOwnership, TypeOK, Cluster
    <2>3. QED
      BY <1>0, <1>2, <2>1, <2>2, BoundTypes DEF CheckOwnership, TypeOK
  <1>3. CASE GetShoot(o)
    <2>1. pc' \in [Owners -> PC]
      BY <1>3, DoneTypes, GotoTypes DEF GetShoot, PC
    <2>2. owned' \in [Owners -> BOOLEAN]
      BY <1>3, DoneTypes DEF GetShoot, TypeOK
    <2>3. read' \in [Owners -> Reading]
      <3>1. shoot[GardenOf[o]].url \in URLs \cup {None}
        BY ConstantsAssumption DEF TypeOK, Shoot
      <3>2. QED
        BY <1>3, <3>1, DoneTypes, ReadingTypes DEF GetShoot, TypeOK
    <2>4. QED
      BY <1>0, <1>3, <2>1, <2>2, <2>3, BoundTypes DEF GetShoot, TypeOK
  <1>4. CASE RequestClusterDeletion(o)
    <2>1. cluster' \in Cluster
      BY <1>4 DEF RequestClusterDeletion, TypeOK, Cluster
    <2>2. QED
      BY <1>0, <1>4, <2>1, DoneTypes, BoundTypes DEF RequestClusterDeletion, TypeOK
  <1>5. CASE GetCA(o)
    <2>1. pc' \in [Owners -> PC] /\ owned' \in [Owners -> BOOLEAN]
      BY <1>5, DoneTypes, GotoTypes DEF GetCA, Retry, TypeOK, PC
    <2>2. read' \in [Owners -> Reading]
      BY <1>5, DoneTypes, ReadingTypes DEF GetCA, Retry, TypeOK
    <2>3. queue' \subseteq Owners
      BY <1>5 DEF GetCA, Retry, TypeOK
    <2>4. QED
      BY <1>0, <1>5, <2>1, <2>2, <2>3, BoundTypes DEF GetCA, TypeOK
  <1>6. CASE WriteSecret(o)
    <2>1. secret' \in Secret /\ touched' \in BOOLEAN
      BY <1>6 DEF WriteSecret, Merged, Contested, OwnedByOther, TypeOK, Reading, Secret
    <2>2. pc' \in [Owners -> PC] /\ read' \in [Owners -> Reading]
      BY <1>6, GotoTypes, EmptyTypes DEF WriteSecret, TypeOK, PC
    <2>3. QED
      BY <1>0, <1>6, <2>1, <2>2, BoundTypes DEF WriteSecret, TypeOK
  <1>7. CASE Configure(o)
    BY <1>0, <1>7, DoneTypes, BoundTypes DEF Configure, TypeOK
  <1>8. QED
    BY <1>1, <1>2, <1>3, <1>4, <1>5, <1>6, <1>7 DEF Reconcile

LEMMA TypeGardener ==
  ASSUME TypeOK, NEW g \in Gardens, Gardener(g)
  PROVE  TypeOK'
  <1> USE DEF controllerVars
  <1>1. shoot[g] \in Shoot
    BY DEF TypeOK
  <1>2. edits' \in 0 .. MaxEdits /\ faults' \in 0 .. MaxFaults
    BY BoundTypes
    DEF Gardener, CreateShoot, AdvertiseAddress, ChangeLabels, ChangeCA, StartOperation,
        FinishOperation, DeleteShoot, NoFault
  <1>3. CASE ChangeCA(g)
    <2>1. ca' \in [Gardens -> CAs \cup {"missing", "empty"}]
      BY <1>3 DEF ChangeCA, TypeOK
    <2>2. QED
      BY <1>2, <1>3, <2>1 DEF ChangeCA, TypeOK
  <1>4. ASSUME NEW new \in Shoot, ShootBecomes(g, new),
               UNCHANGED <<secret, cluster, up, pc, owned, read, late, touched>>,
               ca' \in [Gardens -> CAs \cup {"missing", "empty"}]
        PROVE  TypeOK'
    BY <1>2, <1>4, ShootTypes DEF TypeOK
  <1>5. CASE CreateShoot(g)
    <2>1. \A l \in BOOLEAN :
            [exists |-> TRUE, labelled |-> l, url |-> None, processing |-> TRUE] \in Shoot
      BY DEF Shoot
    <2>2. QED
      BY <1>4, <1>5, <2>1 DEF CreateShoot, TypeOK
  <1>6. CASE AdvertiseAddress(g)
    <2>1. \A u \in URLs : [shoot[g] EXCEPT !.url = u] \in Shoot
      BY <1>1 DEF Shoot
    <2>2. QED
      BY <1>4, <1>6, <2>1 DEF AdvertiseAddress, TypeOK
  <1>7. CASE ChangeLabels(g)
    <2>1. [shoot[g] EXCEPT !.labelled = ~@] \in Shoot
      BY <1>1 DEF Shoot
    <2>2. QED
      BY <1>4, <1>7, <2>1 DEF ChangeLabels, TypeOK
  <1>8. CASE StartOperation(g)
    <2>1. [shoot[g] EXCEPT !.processing = TRUE] \in Shoot
      BY <1>1 DEF Shoot
    <2>2. QED
      BY <1>4, <1>8, <2>1 DEF StartOperation, TypeOK
  <1>9. CASE FinishOperation(g)
    <2>1. [shoot[g] EXCEPT !.processing = FALSE] \in Shoot
      BY <1>1 DEF Shoot
    <2>2. QED
      BY <1>4, <1>9, <2>1 DEF FinishOperation, TypeOK
  <1>10. CASE DeleteShoot(g)
    <2>1. ca' \in [Gardens -> CAs \cup {"missing", "empty"}]
      BY <1>10 DEF DeleteShoot, TypeOK
    <2>2. QED
      BY <1>4, <1>10, <2>1, EmptyTypes DEF DeleteShoot
  <1>11. QED
    BY <1>3, <1>5, <1>6, <1>7, <1>8, <1>9, <1>10 DEF Gardener

(* A controller that is replaced, and the last call of the old one.         *)
LEMMA TypeReplace ==
  ASSUME TypeOK, NEW o \in Owners, StopController(o) \/ StartController(o) \/ LateCall(o)
  PROVE  TypeOK'
  <1> USE DEF objectVars, controllerVars
  <1>1. CASE StopController(o)
    <2>1. up' \in [Owners -> BOOLEAN] /\ queue' \subseteq Owners
      BY <1>1 DEF StopController, TypeOK
    <2>2. late' \in [Owners -> Call]
      <3>1. pc[o] \in {"secret", "delete"} =>
              [pc |-> pc[o], read |-> read[o], found |-> secret] \in Call
        BY DEF TypeOK, Call
      <3>2. QED
        BY <1>1, <3>1, EmptyTypes DEF StopController, TypeOK
    <2>3. QED
      BY <1>1, <2>1, <2>2, DoneTypes, BoundTypes DEF StopController, TypeOK, PC
  <1>2. CASE StartController(o)
    BY <1>2 DEF StartController, TypeOK
  <1>3. CASE LateCall(o)
    <2>1. late' \in [Owners -> Call]
      BY <1>3, EmptyTypes DEF LateCall, LateWrite, LateDelete, LateLost, Landed, TypeOK
    <2>2. CASE LateWrite(o)
      <3>1. secret' \in Secret /\ touched' \in BOOLEAN
        BY <2>2
        DEF LateWrite, Merged, Contested, OwnedByOther, Awaited, TypeOK, Call, Reading, Secret
      <3>2. QED
        BY <2>1, <2>2, <3>1 DEF LateWrite, TypeOK
    <2>3. CASE LateDelete(o)
      <3>1. cluster' \in Cluster
        BY <2>3 DEF LateDelete, TypeOK, Cluster
      <3>2. QED
        BY <2>1, <2>3, <3>1 DEF LateDelete, TypeOK
    <2>4. CASE LateLost(o)
      BY <2>1, <2>4 DEF LateLost, TypeOK
    <2>5. QED
      BY <1>3, <2>2, <2>3, <2>4 DEF LateCall
  <1>4. QED
    BY <1>1, <1>2, <1>3

LEMMA TypeStep == ASSUME TypeOK, [Next]_vars PROVE TypeOK'
  <1> USE DEF objectVars, controllerVars
  <1>1. ASSUME NEW o \in Owners, RelabelSecret(o)
        PROVE  TypeOK'
    <2>1. secret' \in Secret
      BY <1>1 DEF RelabelSecret, TypeOK, Secret
    <2>2. queue' \subseteq Owners
      BY <1>1 DEF RelabelSecret, TypeOK, Watching
    <2>3. QED
      BY <1>1, <2>1, <2>2, BoundTypes DEF RelabelSecret, TypeOK
  <1>2. CASE PropagateLabels
    <2>1. cluster' \in Cluster
      BY <1>2 DEF PropagateLabels, TypeOK, Secret, Cluster
    <2>2. QED
      BY <1>2, <2>1 DEF PropagateLabels, TypeOK
  <1>3. CASE FinishClusterDeletion
    BY <1>3, EmptyTypes DEF FinishClusterDeletion, TypeOK
  <1>4. CASE UNCHANGED vars
    BY <1>4 DEF vars, TypeOK
  <1>5. QED
    BY <1>1, <1>2, <1>3, <1>4, TypeReconcile, TypeReplace, TypeGardener DEF Next, Greenhouse

-----------------------------------------------------------------------------
(* Who touches what.                                                        *)

(* A controller's pass is its own affair.                                   *)
LEMMA PassFootprint ==
  ASSUME TypeOK, NEW o \in Owners, Reconcile(o) \/ ReconcileFails(o)
  PROVE  /\ UNCHANGED <<shoot, ca, up, late>>
         /\ \A p \in Owners \ {o} :
              /\ pc'[p] = pc[p] /\ owned'[p] = owned[p] /\ read'[p] = read[p]
              /\ p \in queue' <=> p \in queue
  <1> USE DEF objectVars
  <1>1. CASE ReconcileFails(o)
    <2>1. Retry(o) /\ UNCHANGED <<objectVars, up, late, touched>>
      BY <1>1
      DEF ReconcileFails, GetFails, RequestClusterDeletionFails, WriteSecretFails, ConfigureFails
    <2>2. QED
      BY <2>1, DoneTypes DEF Retry
  <1>2. CASE CheckOwnership(o)
    BY <1>2 DEF CheckOwnership, Goto, TypeOK
  <1>3. CASE GetShoot(o)
    BY <1>3, DoneTypes, GotoTypes DEF GetShoot, TypeOK, PC
  <1>4. CASE RequestClusterDeletion(o)
    BY <1>4, DoneTypes DEF RequestClusterDeletion
  <1>5. CASE GetCA(o)
    BY <1>5, DoneTypes, GotoTypes DEF GetCA, Retry, TypeOK, PC
  <1>6. CASE WriteSecret(o)
    BY <1>6, GotoTypes DEF WriteSecret, TypeOK, PC
  <1>7. CASE Configure(o)
    BY <1>7, DoneTypes DEF Configure
  <1>8. QED
    BY <1>1, <1>2, <1>3, <1>4, <1>5, <1>6, <1>7 DEF Reconcile

LEMMA GardenerFootprint ==
  ASSUME TypeOK, NEW g \in Gardens, Gardener(g)
  PROVE  /\ UNCHANGED <<secret, cluster, up, pc, owned, read, late, touched>>
         /\ queue \subseteq queue'
         /\ \A h \in Gardens \ {g} : shoot'[h] = shoot[h] /\ ca'[h] = ca[h]
  BY DEF Gardener, CreateShoot, AdvertiseAddress, ChangeLabels, ChangeCA, StartOperation,
      FinishOperation, DeleteShoot, ShootBecomes, controllerVars, TypeOK

(* Whatever is done to a Shoot: a controller that watches and finds it      *)
(* complete and selected then is told.                                      *)
LEMMA GardenerNotifies ==
  ASSUME TypeOK, NEW o \in Owners, Gardener(GardenOf[o]), Ready(o)', up[o]
  PROVE  o \in queue'
  <1> DEFINE g == GardenOf[o]
  <1> USE DEF controllerVars
  <1>1. g \in Gardens /\ shoot[g] \in Shoot /\ o \in Watching(g)
    BY ConstantsAssumption DEF TypeOK, Watching
  <1>2. /\ shoot'[g].exists /\ shoot'[g].url # None /\ ~shoot'[g].processing
        /\ Selected(o, shoot'[g])
    BY DEF Ready, Onboardable
  <1>3. ASSUME NEW new, ShootBecomes(g, new), shoot[g].exists, PassesNoiseFilter(shoot[g], new)
        PROVE  o \in queue'
    <2>1. shoot'[g] = new
      BY <1>1, <1>3 DEF ShootBecomes, TypeOK
    <2>2. o \in Notified(g, new)
      BY <1>1, <1>2, <1>3, <2>1 DEF Notified
    <2>3. QED
      BY <1>3, <2>2 DEF ShootBecomes
  <1>4. CASE CreateShoot(g)
    <2>1. shoot'[g].processing
      BY <1>1, <1>4 DEF CreateShoot, ShootBecomes, TypeOK
    <2>2. QED
      BY <1>2, <2>1
  <1>5. CASE AdvertiseAddress(g)
    <2>1. \A u \in URLs \ {shoot[g].url} : PassesNoiseFilter(shoot[g], [shoot[g] EXCEPT !.url = u])
      BY <1>1 DEF PassesNoiseFilter, Shoot
    <2>2. QED
      BY <1>3, <1>5, <2>1 DEF AdvertiseAddress
  <1>6. CASE ChangeLabels(g)
    <2>1. PassesNoiseFilter(shoot[g], [shoot[g] EXCEPT !.labelled = ~@])
      BY <1>1 DEF PassesNoiseFilter, Shoot
    <2>2. QED
      BY <1>3, <1>6, <2>1 DEF ChangeLabels
  <1>7. CASE ChangeCA(g)
    BY <1>2, <1>7 DEF ChangeCA
  <1>8. CASE StartOperation(g)
    <2>1. shoot'[g].processing
      BY <1>1, <1>8 DEF StartOperation, ShootBecomes, TypeOK, Shoot
    <2>2. QED
      BY <1>2, <2>1
  <1>9. CASE FinishOperation(g)
    <2>1. shoot[g].processing => PassesNoiseFilter(shoot[g], [shoot[g] EXCEPT !.processing = FALSE])
      BY <1>1 DEF PassesNoiseFilter, Shoot
    <2>2. QED
      BY <1>3, <1>9, <2>1 DEF FinishOperation
  <1>10. CASE DeleteShoot(g)
    <2>1. ~shoot'[g].exists
      BY <1>1, <1>10 DEF DeleteShoot, ShootBecomes, TypeOK, NoShoot
    <2>2. QED
      BY <1>2, <2>1
  <1>11. QED
    BY <1>4, <1>5, <1>6, <1>7, <1>8, <1>9, <1>10 DEF Gardener

(* A replaced controller loses its pass, and only what its last call writes *)
(* changes.                                                                 *)
LEMMA ReplaceFootprint ==
  ASSUME TypeOK, NEW o \in Owners, StopController(o) \/ StartController(o) \/ LateCall(o)
  PROVE  /\ UNCHANGED <<shoot, ca>>
         /\ late'[o].pc = "delete" => late[o].pc = "delete" \/ pc[o] = "delete"
         /\ pc'[o] = pc[o] \/ (~up'[o] /\ pc'[o] = "idle")
         /\ owned'[o] => owned[o]
         /\ read'[o] = read[o] \/ pc'[o] = "idle"
         /\ \A p \in Owners \ {o} :
              /\ pc'[p] = pc[p] /\ owned'[p] = owned[p] /\ read'[p] = read[p]
              /\ up'[p] = up[p] /\ late'[p] = late[p]
              /\ p \in queue' <=> p \in queue
  <1> USE DEF objectVars, controllerVars
  <1>1. CASE StopController(o)
    <2>1. Done(o) /\ UNCHANGED <<objectVars, touched>>
      BY <1>1 DEF StopController
    <2>2. /\ up'[o] = FALSE /\ \A p \in Owners \ {o} : up'[p] = up[p] /\ late'[p] = late[p]
          /\ late'[o].pc = "delete" => pc[o] = "delete"
      BY <1>1 DEF StopController, TypeOK, NoCall
    <2>3. \A p \in Owners \ {o} : p \in queue' <=> p \in queue
      BY <1>1 DEF StopController
    <2>4. QED
      BY <2>1, <2>2, <2>3, DoneTypes
  <1>2. CASE StartController(o)
    <2>1. /\ UNCHANGED <<shoot, ca, pc, owned, read, late>>
          /\ \A p \in Owners \ {o} : up'[p] = up[p]
      BY <1>2 DEF StartController, TypeOK
    <2>2. \A p \in Owners \ {o} : p \in queue' <=> p \in queue
      BY <1>2 DEF StartController
    <2>3. QED
      BY <2>1, <2>2
  <1>3. CASE LateCall(o)
    <2>1. UNCHANGED <<shoot, ca, controllerVars>> /\ Landed(o)
      BY <1>3 DEF LateCall, LateWrite, LateDelete, LateLost
    <2>2. late'[o].pc = "idle" /\ \A p \in Owners \ {o} : late'[p] = late[p]
      BY <2>1 DEF Landed, TypeOK, NoCall
    <2>3. QED
      BY <2>1, <2>2
  <1>4. QED
    BY <1>1, <1>2, <1>3

-----------------------------------------------------------------------------
(* Who owns what.                                                           *)

LEMMA OwnersInit == Init => OwnersHold /\ LabelHolds
  <1> SUFFICES ASSUME Init PROVE OwnersHold /\ LabelHolds
    OBVIOUS
  <1>1. ~secret.exists /\ cluster.owner = None
    BY DEF Init, NoSecret, NoCluster
  <1>2. \A o \in Owners : ~owned[o] /\ pc[o] = "idle" /\ late[o].pc = "idle"
    BY DEF Init, NoCall
  <1>3. QED
    BY <1>1, <1>2 DEF OwnersHold, LabelHolds

(* A step after which nobody believes more than before.                     *)
LEMMA OwnersQuiet ==
  ASSUME OwnersHold, UNCHANGED <<cluster.exists, cluster.owner>>,
         secret.exists => secret'.exists, secret'.exists => secret'.owner \in Owners,
         \A q \in Owners :
           /\ owned'[q] \/ late'[q].pc = "delete" => owned[q] \/ late[q].pc = "delete"
           /\ pc'[q] = "delete" => owned'[q]
           /\ pc'[q] # "idle" => up'[q]
  PROVE  OwnersHold'
  BY DEF OwnersHold

LEMMA OwnersReconcile ==
  ASSUME TypeOK, OwnersHold, NEW o \in Owners, Reconcile(o) \/ ReconcileFails(o)
  PROVE  OwnersHold'
  <1> USE DEF objectVars
  <1>1. /\ UNCHANGED <<up, late>>
        /\ \A p \in Owners \ {o} : pc'[p] = pc[p] /\ owned'[p] = owned[p]
    BY PassFootprint
  <1>2. \A q \in Owners : (pc[q] = "delete" => owned[q]) /\ (pc[q] # "idle" => up[q])
    BY DEF OwnersHold
  <1>3. CASE CheckOwnership(o) /\ ~OwnedByOther(o)
    <2>1. /\ pc'[o] = "shoot" /\ UNCHANGED <<secret, cluster>> /\ up[o]
          /\ owned'[o] => cluster.owner = o
      BY <1>3 DEF CheckOwnership, Goto, TypeOK
    <2>2. QED
      BY <1>1, <2>1 DEF OwnersHold
  (* The controller goes on or ends, in neither case with a new belief. *)
  <1>4. ASSUME owned'[o] => owned[o], pc'[o] = "delete" => owned'[o],
               pc'[o] # "idle" => pc[o] # "idle",
               UNCHANGED <<cluster.exists, cluster.owner>>,
               secret.exists => secret'.exists, secret'.exists => secret'.owner \in Owners
        PROVE  OwnersHold'
    <2>1. \A q \in Owners :
            /\ owned'[q] \/ late'[q].pc = "delete" => owned[q] \/ late[q].pc = "delete"
            /\ pc'[q] = "delete" => owned'[q]
            /\ pc'[q] # "idle" => up'[q]
      BY <1>1, <1>2, <1>4
    <2>2. QED
      BY <1>4, <2>1, OwnersQuiet
  <1>5. secret.exists => secret.owner \in Owners
    BY DEF OwnersHold
  <1>6. CASE CheckOwnership(o) /\ OwnedByOther(o)
    BY <1>2, <1>4, <1>5, <1>6 DEF CheckOwnership
  <1>7. CASE ReconcileFails(o)
    <2>1. Done(o) /\ UNCHANGED objectVars
      BY <1>7
      DEF ReconcileFails, GetFails, RequestClusterDeletionFails, WriteSecretFails, ConfigureFails,
          Retry
    <2>2. QED
      BY <1>4, <1>5, <2>1, DoneTypes
  <1>8. CASE GetShoot(o)
    <2>1. pc[o] = "shoot" /\ UNCHANGED objectVars
      BY <1>8 DEF GetShoot
    <2>2. CASE Goto(o, "delete") /\ owned[o] /\ UNCHANGED owned
      <3>1. pc'[o] = "delete"
        BY <2>2, GotoTypes DEF PC
      <3>2. QED
        BY <1>4, <1>5, <2>1, <2>2, <3>1
    <2>3. CASE Done(o)
      BY <1>4, <1>5, <2>1, <2>3, DoneTypes
    <2>4. CASE Goto(o, "ca") /\ owned' = [owned EXCEPT ![o] = FALSE]
      <3>1. pc'[o] = "ca" /\ ~owned'[o]
        BY <2>4, GotoTypes DEF PC, TypeOK
      <3>2. QED
        BY <1>4, <1>5, <2>1, <3>1
    <2>5. QED
      BY <1>8, <2>2, <2>3, <2>4 DEF GetShoot
  <1>9. CASE RequestClusterDeletion(o)
    <2>1. UNCHANGED <<cluster.exists, cluster.owner, secret>> /\ Done(o)
      BY <1>9 DEF RequestClusterDeletion, TypeOK, Cluster
    <2>2. QED
      BY <1>4, <1>5, <2>1, DoneTypes
  <1>10. CASE GetCA(o)
    <2>1. pc[o] = "ca" /\ UNCHANGED objectVars
      BY <1>10 DEF GetCA
    <2>2. CASE Done(o)
      BY <1>4, <1>5, <2>1, <2>2, DoneTypes
    <2>3. CASE Goto(o, "secret") /\ UNCHANGED owned
      <3>1. pc'[o] = "secret"
        BY <2>3, GotoTypes DEF PC
      <3>2. QED
        BY <1>4, <1>5, <2>1, <2>3, <3>1
    <2>4. QED
      BY <1>10, <2>2, <2>3 DEF GetCA, Retry
  <1>11. CASE WriteSecret(o)
    <2>1. /\ pc[o] = "secret" /\ pc'[o] = "configure" /\ UNCHANGED <<cluster, owned>>
          /\ secret'.exists /\ secret'.owner = o
      BY <1>11, GotoTypes DEF WriteSecret, Merged, PC
    <2>2. QED
      BY <1>4, <2>1
  <1>12. CASE Configure(o)
    BY <1>4, <1>5, <1>12, DoneTypes DEF Configure
  <1>13. QED
    BY <1>3, <1>6, <1>7, <1>8, <1>9, <1>10, <1>11, <1>12 DEF Reconcile

LEMMA OwnersStep == ASSUME TypeOK, OwnersHold, [Next]_vars PROVE OwnersHold'
  <1> USE DEF objectVars, controllerVars
  <1>1. /\ secret.exists => secret.owner \in Owners
        /\ \A q \in Owners : (pc[q] = "delete" => owned[q]) /\ (pc[q] # "idle" => up[q])
    BY DEF OwnersHold
  <1>2. ASSUME NEW o \in Owners, RelabelSecret(o)
        PROVE  OwnersHold'
    <2>1. secret'.exists /\ secret'.owner \in Owners
      BY <1>2 DEF RelabelSecret, TypeOK, Secret
    <2>2. QED
      BY <1>1, <1>2, <2>1, OwnersQuiet DEF RelabelSecret
  <1>3. ASSUME NEW o \in Owners, StopController(o) \/ StartController(o) \/ LateCall(o)
        PROVE  OwnersHold'
    <2>1. \A q \in Owners :
            /\ owned'[q] \/ late'[q].pc = "delete" => owned[q] \/ late[q].pc = "delete"
            /\ pc'[q] = "delete" => owned'[q]
            /\ pc'[q] # "idle" => up'[q]
      <3>1. CASE StopController(o)
        BY <1>1, <1>3, <3>1, ReplaceFootprint, DoneTypes DEF StopController
      <3>2. CASE StartController(o)
        BY <1>1, <3>2 DEF StartController, TypeOK
      <3>3. CASE LateCall(o)
        BY <1>1, <3>3, ReplaceFootprint, OwnersHold
        DEF LateCall, LateWrite, LateDelete, LateLost, OwnersHold
      <3>4. QED
        BY <1>3, <3>1, <3>2, <3>3
    <2>2. UNCHANGED <<cluster.exists, cluster.owner>>
      BY <1>3
      DEF StopController, StartController, LateCall, LateWrite, LateDelete, LateLost, TypeOK, Cluster
    <2>3. /\ secret.exists => secret'.exists
          /\ secret'.exists => secret'.owner \in Owners
      BY <1>1, <1>3
      DEF StopController, StartController, LateCall, LateWrite, LateDelete, LateLost, Merged
    <2>4. QED
      BY <2>1, <2>2, <2>3, OwnersQuiet
  <1>4. ASSUME NEW g \in Gardens, Gardener(g)
        PROVE  OwnersHold'
    BY <1>4, GardenerFootprint DEF OwnersHold
  <1>5. CASE PropagateLabels
    <2>1. cluster'.exists /\ cluster'.owner \in Owners /\ secret.exists
      BY <1>1, <1>5 DEF PropagateLabels
    <2>2. QED
      BY <1>5, <2>1 DEF PropagateLabels, OwnersHold
  <1>6. CASE FinishClusterDeletion
    <2>1. ~cluster'.exists /\ cluster'.owner = None /\ ~secret'.exists
      BY <1>6 DEF FinishClusterDeletion, NoCluster, NoSecret
    <2>2. QED
      BY <1>6, <2>1 DEF FinishClusterDeletion, OwnersHold
  <1>7. CASE UNCHANGED vars
    BY <1>7 DEF vars, OwnersHold
  <1>8. QED
    BY <1>2, <1>3, <1>4, <1>5, <1>6, <1>7, OwnersReconcile DEF Next, Greenhouse

LEMMA LabelStep == ASSUME TypeOK, OwnersHold, LabelHolds, [Next]_vars PROVE LabelHolds'
  <1> USE DEF objectVars, controllerVars
  <1>1. ASSUME UNCHANGED <<secret, touched, cluster.owner>>
        PROVE  LabelHolds'
    BY <1>1 DEF LabelHolds
  (* A Secret that is written while nobody else has it. *)
  <1>2. ASSUME NEW o \in Owners, ~Contested(o), UNCHANGED cluster, secret'.owner = o
        PROVE  LabelHolds'
    BY <1>2 DEF Contested, OwnedByOther, OwnersHold, LabelHolds
  <1>3. ASSUME NEW o \in Owners, Reconcile(o) \/ ReconcileFails(o)
        PROVE  LabelHolds'
    <2>1. CASE WriteSecret(o)
      <3>1. touched' = Contested(o) /\ UNCHANGED cluster /\ secret'.owner = o
        BY <2>1 DEF WriteSecret, Merged
      <3>2. QED
        BY <1>2, <3>1 DEF LabelHolds
    <2>2. CASE RequestClusterDeletion(o)
      BY <1>1, <2>2 DEF RequestClusterDeletion, TypeOK, Cluster
    <2>3. CASE ~WriteSecret(o) /\ ~RequestClusterDeletion(o)
      BY <1>1, <1>3, <2>3
      DEF Reconcile, ReconcileFails, CheckOwnership, GetShoot, GetCA, Configure, GetFails,
          RequestClusterDeletionFails, WriteSecretFails, ConfigureFails
    <2>4. QED
      BY <2>1, <2>2, <2>3
  <1>4. ASSUME NEW o \in Owners, RelabelSecret(o)
        PROVE  LabelHolds'
    BY <1>4 DEF RelabelSecret, LabelHolds
  <1>5. ASSUME NEW o \in Owners, StopController(o) \/ StartController(o)
        PROVE  LabelHolds'
    BY <1>1, <1>5 DEF StopController, StartController
  <1>6. ASSUME NEW o \in Owners, LateCall(o)
        PROVE  LabelHolds'
    <2>1. CASE LateWrite(o)
      <3>1. ~touched' => ~Contested(o)
        BY <2>1 DEF LateWrite
      <3>2. UNCHANGED cluster /\ secret'.owner = o
        BY <2>1 DEF LateWrite, Merged
      <3>3. QED
        BY <1>2, <3>1, <3>2 DEF LabelHolds
    <2>2. CASE LateDelete(o)
      BY <1>1, <2>2 DEF LateDelete, TypeOK, Cluster
    <2>3. CASE LateLost(o)
      BY <1>1, <2>3 DEF LateLost
    <2>4. QED
      BY <1>6, <2>1, <2>2, <2>3 DEF LateCall
  <1>7. ASSUME NEW g \in Gardens, Gardener(g)
        PROVE  LabelHolds'
    BY <1>1, <1>7, GardenerFootprint
  <1>8. CASE PropagateLabels
    BY <1>8 DEF PropagateLabels, LabelHolds
  <1>9. CASE FinishClusterDeletion
    BY <1>9 DEF FinishClusterDeletion, NoCluster, LabelHolds
  <1>10. CASE UNCHANGED vars
    BY <1>1, <1>10 DEF vars
  <1>11. QED
    BY <1>3, <1>4, <1>5, <1>6, <1>7, <1>8, <1>9, <1>10 DEF Next, Greenhouse

-----------------------------------------------------------------------------
(* What a pass has read, and what a controller at rest leaves.              *)

PassOf(o) ==
  pc[o] \in {"ca", "secret"} /\ Ready(o) =>
    \/ o \in queue
    \/ /\ read[o].url = shoot[GardenOf[o]].url
       /\ pc[o] = "secret" => read[o].ca = ca[GardenOf[o]]

RestOf(o) == Ready(o) /\ ~Awaited(o) /\ ~touched => Fresh(o)

LEMMA PassInit == Init => PassHolds /\ AtRestOnboarded
  <1> SUFFICES ASSUME Init PROVE PassHolds /\ AtRestOnboarded
    OBVIOUS
  <1>1. PassHolds
    BY DEF Init, PassHolds
  <1>2. \A o \in Owners : Ready(o) => o \in queue
    BY DEF Init, Ready, Onboardable
  <1>3. QED
    BY <1>1, <1>2 DEF AtRestOnboarded, Awaited

(* The pass of o, when a step leaves it and its Shoot alone.                *)
LEMMA PassQuiet ==
  ASSUME NEW o \in Owners, PassOf(o), o \in queue => o \in queue',
         UNCHANGED <<shoot[GardenOf[o]], ca[GardenOf[o]], pc[o], read[o]>>
  PROVE  PassOf(o)'
  BY DEF PassOf, Ready, Onboardable, Selected, MatchesLabels, MatchesCELFilter

(* The Secret, when a step leaves it and the Shoot of o alone and o has not *)
(* done its work by it.                                                     *)
LEMMA RestQuiet ==
  ASSUME NEW o \in Owners, RestOf(o), Awaited(o) => Awaited(o)',
         UNCHANGED <<secret, touched, shoot[GardenOf[o]], ca[GardenOf[o]]>>
  PROVE  RestOf(o)'
  BY DEF RestOf, Fresh, Ready, Onboardable, Selected, MatchesLabels, MatchesCELFilter

(* The pass of o itself.                                                    *)
LEMMA PassReconcile ==
  ASSUME TypeOK, OwnersHold, LabelHolds, NEW o \in Owners, PassOf(o), RestOf(o),
         Reconcile(o) \/ ReconcileFails(o)
  PROVE  PassOf(o)' /\ RestOf(o)'
  <1> DEFINE g == GardenOf[o]
  <1> USE DEF objectVars
  <1>1. /\ UNCHANGED <<shoot, ca, up>> /\ Ready(o)' = Ready(o)
        /\ pc[o] # "idle" => up[o]
    BY PassFootprint
    DEF OwnersHold, Ready, Onboardable, Selected, MatchesLabels, MatchesCELFilter
  <1>2. CASE ReconcileFails(o)
    <2>1. pc'[o] = "idle" /\ o \in queue'
      BY <1>2, DoneTypes
      DEF ReconcileFails, GetFails, RequestClusterDeletionFails, WriteSecretFails, ConfigureFails,
          Retry
    <2>2. QED
      BY <2>1 DEF PassOf, RestOf, Awaited
  (* Leaving the Cluster of another one, which has its Secret. *)
  <1>3. CASE CheckOwnership(o)
    <2>1. CASE OwnedByOther(o)
      <3>1. pc'[o] = "idle" /\ UNCHANGED <<secret, touched>>
        BY <1>3, <2>1 DEF CheckOwnership
      <3>2. secret.exists /\ (~touched => secret.owner # o)
        BY <2>1 DEF OwnedByOther, OwnersHold, LabelHolds
      <3>3. QED
        BY <3>1, <3>2 DEF PassOf, RestOf, Fresh
    <2>2. CASE ~OwnedByOther(o)
      <3>1. pc'[o] = "shoot"
        BY <1>3, <2>2 DEF CheckOwnership, Goto, TypeOK
      <3>2. QED
        BY <3>1 DEF PassOf, RestOf, Awaited
    <2>3. QED
      BY <2>1, <2>2
  <1>4. CASE GetShoot(o)
    <2>1. CASE ~shoot[g].exists \/ shoot[g].url = None
      BY <1>1, <2>1 DEF PassOf, RestOf, Ready, Onboardable
    <2>2. CASE shoot[g].exists /\ shoot[g].url # None
      <3>1. Goto(o, "ca") /\ read' = [read EXCEPT ![o].url = shoot[g].url]
        BY <1>4, <2>2 DEF GetShoot
      <3>2. read[o] \in Reading
        BY DEF TypeOK
      <3>3. pc'[o] = "ca" /\ read'[o].url = shoot[g].url
        BY <3>1, <3>2, GotoTypes DEF PC, TypeOK, Reading
      <3>4. QED
        BY <1>1, <3>3 DEF PassOf, RestOf, Awaited
    <2>3. QED
      BY <2>1, <2>2
  <1>5. CASE RequestClusterDeletion(o)
    <2>1. pc[o] = "delete" /\ pc'[o] = "idle" /\ UNCHANGED <<secret, queue, touched>>
      BY <1>5, DoneTypes DEF RequestClusterDeletion
    <2>2. Awaited(o) => Awaited(o)'
      BY <1>1, <2>1 DEF Awaited
    <2>3. QED
      BY <1>1, <2>1, <2>2, RestQuiet DEF PassOf
  <1>6. CASE GetCA(o)
    <2>1. CASE ca[g] \notin CAs
      <3>1. ~Ready(o)
        BY <2>1 DEF Ready, Onboardable
      <3>2. QED
        BY <1>1, <3>1 DEF PassOf, RestOf
    <2>2. CASE ca[g] \in CAs
      <3>1. ca[g] # "missing" /\ ca[g] # "empty"
        BY <2>2, ConstantsAssumption
      <3>2. /\ Goto(o, "secret") /\ read' = [read EXCEPT ![o].ca = ca[g]] /\ pc[o] = "ca"
            /\ UNCHANGED queue
        BY <1>6, <3>1 DEF GetCA
      <3>3. read[o] \in Reading
        BY DEF TypeOK
      <3>4. pc'[o] = "secret" /\ read'[o].ca = ca[g] /\ read'[o].url = read[o].url
        BY <3>2, <3>3, GotoTypes DEF PC, TypeOK, Reading
      <3>5. QED
        BY <1>1, <3>2, <3>4 DEF PassOf, RestOf, Awaited
    <2>3. QED
      BY <2>1, <2>2
  <1>7. CASE WriteSecret(o)
    <2>1. /\ pc[o] = "secret" /\ pc'[o] = "configure" /\ UNCHANGED queue
          /\ secret'.exists /\ secret'.url = read[o].url /\ secret'.ca = read[o].ca
      BY <1>7, GotoTypes DEF WriteSecret, Merged, PC
    <2>2. QED
      BY <1>1, <2>1 DEF PassOf, RestOf, Fresh, Awaited
  <1>8. CASE Configure(o)
    <2>1. pc[o] = "configure" /\ pc'[o] = "idle" /\ UNCHANGED <<secret, queue, touched>>
      BY <1>8, DoneTypes DEF Configure
    <2>2. Awaited(o) => Awaited(o)'
      BY <1>1, <2>1 DEF Awaited
    <2>3. QED
      BY <1>1, <2>1, <2>2, RestQuiet DEF PassOf
  <1>9. QED
    BY <1>2, <1>3, <1>4, <1>5, <1>6, <1>7, <1>8 DEF Reconcile

(* The pass of another controller: a Secret it writes is not o's.           *)
LEMMA PassOther ==
  ASSUME TypeOK, NEW o \in Owners, NEW p \in Owners \ {o}, PassOf(p), RestOf(p),
         Reconcile(o) \/ ReconcileFails(o)
  PROVE  PassOf(p)' /\ RestOf(p)'
  <1> USE DEF objectVars
  <1>1. /\ UNCHANGED <<shoot, ca, up>>
        /\ pc'[p] = pc[p] /\ read'[p] = read[p] /\ (p \in queue' <=> p \in queue)
    BY PassFootprint
  <1>2. PassOf(p)'
    BY <1>1, PassQuiet
  <1>3. CASE WriteSecret(o)
    <2>1. secret'.exists /\ secret'.owner = o
      BY <1>3 DEF WriteSecret, Merged
    <2>2. QED
      BY <1>2, <2>1 DEF RestOf, Fresh
  <1>4. CASE ~WriteSecret(o)
    <2>1. UNCHANGED <<secret, touched>>
      BY <1>4
      DEF Reconcile, ReconcileFails, CheckOwnership, GetShoot, RequestClusterDeletion, GetCA,
          Configure, GetFails, RequestClusterDeletionFails, WriteSecretFails, ConfigureFails
    <2>2. Awaited(p) => Awaited(p)'
      BY <1>1 DEF Awaited
    <2>3. QED
      BY <1>1, <1>2, <2>1, <2>2, RestQuiet
  <1>5. QED
    BY <1>3, <1>4

(* A stop, a start and a late call, of this controller or another.          *)
LEMMA PassReplace ==
  ASSUME TypeOK, OwnersHold, NEW o \in Owners, NEW p \in Owners, PassOf(p), RestOf(p),
         StopController(o) \/ StartController(o) \/ LateCall(o)
  PROVE  PassOf(p)' /\ RestOf(p)'
  <1> USE DEF objectVars, controllerVars
  <1>1. UNCHANGED <<shoot, ca>>
    BY ReplaceFootprint
  <1>2. CASE p # o /\ ~LateWrite(o)
    <2>1. /\ pc'[p] = pc[p] /\ read'[p] = read[p] /\ up'[p] = up[p]
          /\ p \in queue' <=> p \in queue
      BY <1>2, ReplaceFootprint
    <2>2. UNCHANGED <<secret, touched>>
      BY <1>2 DEF StopController, StartController, LateCall, LateDelete, LateLost
    <2>3. Awaited(p) => Awaited(p)'
      BY <2>1 DEF Awaited
    <2>4. QED
      BY <1>1, <2>1, <2>2, <2>3, PassQuiet, RestQuiet
  <1>3. CASE LateWrite(o)
    <2>1. PassOf(p)'
      BY <1>1, <1>3, PassQuiet DEF LateWrite
    <2>2. secret'.exists /\ secret'.owner = o
      BY <1>3 DEF LateWrite, Merged
    <2>3. CASE p # o
      BY <2>1, <2>2, <2>3 DEF RestOf, Fresh
    <2>4. CASE p = o
      <3>1. ~touched' => Awaited(o)'
        BY <1>3 DEF LateWrite, Awaited
      <3>2. QED
        BY <2>1, <2>4, <3>1 DEF RestOf
    <2>5. QED
      BY <2>3, <2>4
  <1>4. CASE p = o /\ StopController(o)
    <2>1. pc'[o] = "idle" /\ ~up'[o]
      BY <1>4, DoneTypes DEF StopController, TypeOK
    <2>2. QED
      BY <1>4, <2>1 DEF PassOf, RestOf, Awaited
  <1>5. CASE p = o /\ StartController(o)
    <2>1. ~up[o] /\ pc[o] = "idle" /\ UNCHANGED pc
      BY <1>5 DEF StartController, OwnersHold
    <2>2. Ready(o)' => o \in queue'
      BY <1>1, <1>5 DEF StartController, Ready, Onboardable
    <2>3. QED
      BY <1>5, <2>1, <2>2 DEF PassOf, RestOf, Awaited
  <1>6. CASE p = o /\ (LateDelete(o) \/ LateLost(o))
    <2>1. UNCHANGED <<controllerVars, secret, touched>>
      BY <1>6 DEF LateDelete, LateLost
    <2>2. Awaited(p) => Awaited(p)'
      BY <2>1 DEF Awaited
    <2>3. QED
      BY <1>1, <2>1, <2>2, PassQuiet, RestQuiet
  <1>7. QED
    BY <1>2, <1>3, <1>4, <1>5, <1>6 DEF LateCall

(* Gardener and users: what they do to the Shoot of p is heard.             *)
LEMMA PassGardener ==
  ASSUME TypeOK, OwnersHold, NEW g \in Gardens, Gardener(g), NEW p \in Owners, PassOf(p), RestOf(p)
  PROVE  PassOf(p)' /\ RestOf(p)'
  <1>1. /\ UNCHANGED <<secret, up, pc, read, touched>> /\ queue \subseteq queue'
    BY GardenerFootprint
  <1>2. Awaited(p) => Awaited(p)'
    BY <1>1 DEF Awaited
  <1>3. CASE GardenOf[p] # g
    <2>1. UNCHANGED <<shoot[GardenOf[p]], ca[GardenOf[p]]>>
      BY <1>3, GardenerFootprint, ConstantsAssumption
    <2>2. QED
      BY <1>1, <1>2, <2>1, PassQuiet, RestQuiet
  <1>4. CASE GardenOf[p] = g
    <2>1. Ready(p)' /\ up[p] => p \in queue'
      BY <1>4, GardenerNotifies
    <2>2. pc[p] # "idle" => up[p]
      BY DEF OwnersHold
    <2>3. QED
      BY <1>1, <2>1, <2>2 DEF PassOf, RestOf, Awaited
  <1>5. QED
    BY <1>3, <1>4

LEMMA PassStep ==
  ASSUME TypeOK, OwnersHold, LabelHolds, PassHolds, AtRestOnboarded, [Next]_vars
  PROVE  PassHolds' /\ AtRestOnboarded'
  <1> USE DEF objectVars, controllerVars
  <1> SUFFICES ASSUME NEW p \in Owners
               PROVE  PassOf(p)' /\ RestOf(p)'
    BY DEF PassHolds, AtRestOnboarded, PassOf, RestOf
  <1>1. PassOf(p) /\ RestOf(p)
    BY DEF PassHolds, AtRestOnboarded, PassOf, RestOf
  <1>2. ASSUME NEW o \in Owners, Reconcile(o) \/ ReconcileFails(o)
        PROVE  PassOf(p)' /\ RestOf(p)'
    BY <1>1, <1>2, PassReconcile, PassOther
  <1>3. ASSUME NEW o \in Owners, RelabelSecret(o)
        PROVE  PassOf(p)' /\ RestOf(p)'
    <2>1. touched' /\ UNCHANGED <<shoot, ca, pc, read>> /\ queue \subseteq queue'
      BY <1>3 DEF RelabelSecret
    <2>2. QED
      BY <1>1, <2>1, PassQuiet DEF RestOf
  <1>4. CASE PropagateLabels
    <2>1. Awaited(p) => Awaited(p)'
      BY <1>4 DEF PropagateLabels, Awaited
    <2>2. QED
      BY <1>1, <1>4, <2>1, PassQuiet, RestQuiet DEF PropagateLabels
  (* A Secret that goes while a Shoot is there is a touch out of turn. *)
  <1>5. CASE FinishClusterDeletion
    <2>1. PassOf(p)'
      BY <1>1, <1>5, PassQuiet DEF FinishClusterDeletion
    <2>2. ~touched' => ~Ready(p)'
      BY <1>5, ConstantsAssumption DEF FinishClusterDeletion, Ready, Onboardable
    <2>3. QED
      BY <2>1, <2>2 DEF RestOf
  <1>6. CASE UNCHANGED vars
    <2>1. Awaited(p) => Awaited(p)'
      BY <1>6 DEF vars, Awaited
    <2>2. QED
      BY <1>1, <1>6, <2>1, PassQuiet, RestQuiet DEF vars
  <1>7. QED
    BY <1>1, <1>2, <1>3, <1>4, <1>5, <1>6, PassReplace, PassGardener DEF Next, Greenhouse

-----------------------------------------------------------------------------
(* Theorems of the specification.                                           *)

(* Owners, labels, passes and what controllers leave behind hold together,  *)
(* whatever fails, whoever is restarted and whenever the call of a stopped  *)
(* controller is carried out.                                               *)
THEOREM OnboardingInvariant == Spec => []IInv
  <1>1. Init => IInv
    BY TypeInit, OwnersInit, PassInit DEF IInv
  <1>2. IInv /\ [Next]_vars => IInv'
    BY TypeStep, OwnersStep, LabelStep, PassStep DEF IInv
  <1>3. QED
    BY <1>1, <1>2, PTL DEF Spec

(* Every variable of the shoot controllers keeps its type.                  *)
THEOREM OnboardingTypes == Spec => []TypeOK
  <1>1. IInv => TypeOK
    BY DEF IInv
  <1>2. QED
    BY <1>1, OnboardingInvariant, PTL

(* Whenever the controller of a CareInstruction rests, the complete Shoot   *)
(* it selects has a Secret, and one of its own has the present address and  *)
(* CA: no change was filtered away or lost while a pass was under way. Only *)
(* a Secret that was last touched out of turn is not covered.               *)
THEOREM RestingOnboarded == Spec => []AtRestOnboarded
  <1>1. IInv => AtRestOnboarded
    BY DEF IInv
  <1>2. QED
    BY <1>1, OnboardingInvariant, PTL

(* A Cluster that was onboarded by hand is never asked to be deleted, with  *)
(* Hasty or without: the controller compares the owner label in one call    *)
(* and deletes by name in another, which may be carried out after it was    *)
(* stopped, but a Cluster that had the label has one until it is gone.      *)
THEOREM HandMadeKept == Spec => DeletesOnlyOnboarded
  <1>1. ASSUME IInv, NEW o \in Owners, RequestClusterDeletion(o) \/ LateDelete(o), cluster.exists
        PROVE  cluster.owner \in Owners
    BY <1>1 DEF IInv, OwnersHold, RequestClusterDeletion, LateDelete
  <1>2. IInv /\ [Next]_vars =>
          [\A o \in Owners : (RequestClusterDeletion(o) \/ LateDelete(o)) /\ cluster.exists
             => cluster.owner \in Owners]_vars
    BY <1>1
  <1>3. QED
    BY <1>2, OnboardingInvariant, PTL DEF Spec, DeletesOnlyOnboarded
=============================================================================
