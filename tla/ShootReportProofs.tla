------------------------- MODULE ShootReportProofs -------------------------
(***************************************************************************)
(* Proofs about the report of a CareInstruction, for any finite set of     *)
(* Shoots and any bounds: requests on Clusters are not lost, the status at *)
(* rest is the status of one pass and agrees with the gauges, and a first  *)
(* failed call is made up for.                                             *)
(***************************************************************************)
EXTENDS ShootReport, FiniteSetTheorems, TLAPS

-----------------------------------------------------------------------------
(* Facts about the operators the module is built from.                      *)

(* Sets of names can be counted, and smaller ones are smaller.              *)
LEMMA CountTypes ==
  ASSUME NEW S \in SUBSET Names
  PROVE  /\ IsFiniteSet(S) /\ Cardinality(S) \in Nat
         /\ \A T \in SUBSET S : Cardinality(T) <= Cardinality(S)
  <1>1. IsFiniteSet(S)
    BY ConstantsAssumption, FS_Subset
  <1>2. Cardinality(S) \in Nat
    BY <1>1, FS_CardinalityType
  <1>3. QED
    BY <1>1, <1>2, FS_Subset

LEMMA EmptyTypes ==
  /\ NoShoot \in Shoot /\ NoCluster \in Cluster
  /\ NewStatus \in Status /\ Idle \in Pass
  <1>1. NoShoot \in Shoot /\ NoCluster \in Cluster
    BY DEF Shoot, Cluster
  <1>2. NewStatus \in Status
    BY DEF NewStatus, Status, Synced
  <1>3. QED
    BY <1>1, <1>2 DEF Idle, Pass

(* Fields of a status.                                                      *)
LEMMA StatusTypes ==
  ASSUME NEW st \in Status
  PROVE  /\ \A v \in Synced : [st EXCEPT !.synced = v] \in Status
         /\ \A v \in Nat : [st EXCEPT !.total = v] \in Status /\ [st EXCEPT !.created = v] \in Status
         /\ \A v \in Nat, f \in [Names -> ShootStatus \cup {None}] :
              [st EXCEPT !.shoots = f, !.failed = v] \in Status
  BY DEF Status

LEMMA MergeTypes ==
  ASSUME NEW read \in Status, NEW want \in Status, NEW server \in Status
  PROVE  MergeStatus(read, want, server) \in Status
  BY DEF MergeStatus, Status

(* A patch that leaves the server where the cache is had nothing to write.  *)
LEMMA MergeNothing ==
  ASSUME NEW read \in Status, NEW want \in Status, NEW server \in Status,
         MergeStatus(read, want, server) = read
  PROVE  want = read
  BY DEF MergeStatus, Status

(* A set of entries has one of the highest rank.                            *)
LEMMA HighestEntry ==
  ASSUME NEW S \in SUBSET ShootStatus, S # {}
  PROVE  /\ Highest(S) \in S
         /\ "Excluded" \in S => Highest(S) = "Excluded"
  <1>1. /\ ShootStatusRank("Excluded") = 2
        /\ ShootStatusRank("Failed") = 1
        /\ ShootStatusRank("Onboarded") = 0
    BY DEF ShootStatusRank
  <1>2. \E s \in S : \A t \in S : ShootStatusRank(t) <= ShootStatusRank(s)
    <2>1. CASE "Excluded" \in S
      BY <1>1, <2>1 DEF ShootStatus
    <2>2. CASE "Excluded" \notin S /\ "Failed" \in S
      BY <1>1, <2>2 DEF ShootStatus
    <2>3. CASE "Excluded" \notin S /\ "Failed" \notin S
      <3>1. \A t \in S : t = "Onboarded"
        BY <2>3 DEF ShootStatus
      <3>2. PICK s \in S : s = "Onboarded"
        BY <3>1
      <3>3. QED
        BY <1>1, <3>1, <3>2
    <2>4. QED
      BY <2>1, <2>2, <2>3
  <1>3. Highest(S) \in S /\ \A t \in S : ShootStatusRank(t) <= ShootStatusRank(Highest(S))
    BY <1>2 DEF Highest
  <1>4. "Excluded" \in S => Highest(S) = "Excluded"
    <2>1. Highest(S) \in {"Onboarded", "Failed", "Excluded"}
      BY <1>3 DEF ShootStatus
    <2>2. "Excluded" \in S => 2 <= ShootStatusRank(Highest(S))
      BY <1>1, <1>3
    <2>3. CASE Highest(S) = "Onboarded"
      BY <1>1, <2>2, <2>3
    <2>4. CASE Highest(S) = "Failed"
      BY <1>1, <2>2, <2>4
    <2>5. QED
      BY <2>1, <2>3, <2>4
  <1>5. QED
    BY <1>3, <1>4

LEMMA StatusesTypes ==
  ASSUME TypeOK
  PROVE  /\ BuildShootStatuses \in [Names -> ShootStatus \cup {None}]
         /\ pass.excluded \subseteq Listed(BuildShootStatuses, "Excluded")
  <1>1. ASSUME NEW n \in Names
        PROVE  /\ StatusEntries(n) \subseteq ShootStatus
               /\ n \in pass.excluded => "Excluded" \in StatusEntries(n)
    BY DEF StatusEntries, ShootStatus
  <1>2. ASSUME NEW n \in Names
        PROVE  /\ BuildShootStatuses[n] \in ShootStatus \cup {None}
               /\ n \in pass.excluded => BuildShootStatuses[n] = "Excluded"
    BY <1>1, HighestEntry DEF BuildShootStatuses
  <1>3. pass.excluded \subseteq Names
    BY DEF TypeOK, Pass
  <1>4. QED
    BY <1>2, <1>3 DEF BuildShootStatuses, Listed

(* How a Cluster changes.                                                   *)
LEMMA ClusterTypes ==
  ASSUME NEW c \in Cluster
  PROVE  /\ c \in [exists : BOOLEAN, owner : {Me, Other, None}, ready : BOOLEAN, annotated : BOOLEAN]
         /\ ~c.exists => c = NoCluster
         /\ c.owner # None \/ c.annotated => c.exists
         /\ c.exists => \A b \in BOOLEAN : [c EXCEPT !.annotated = b] \in Cluster
  <1>1. CASE c = NoCluster
    <2>1. ~c.exists /\ c.owner = None /\ ~c.annotated
      BY <1>1 DEF NoCluster
    <2>2. c \in [exists : BOOLEAN, owner : {Me, Other, None}, ready : BOOLEAN, annotated : BOOLEAN]
      BY <1>1 DEF NoCluster
    <2>3. QED
      BY <1>1, <2>1, <2>2
  <1>2. CASE c # NoCluster
    <2>1. c \in [exists : {TRUE}, owner : {Me, Other, None}, ready : BOOLEAN, annotated : BOOLEAN]
      BY <1>2 DEF Cluster
    <2>2. ASSUME NEW b \in BOOLEAN
          PROVE  [c EXCEPT !.annotated = b] \in
                   [exists : {TRUE}, owner : {Me, Other, None}, ready : BOOLEAN, annotated : BOOLEAN]
      BY <2>1
    <2>3. QED
      BY <2>1, <2>2 DEF Cluster
  <1>3. QED
    BY <1>1, <1>2

(* How a pass changes.                                                      *)
LEMMA PassTypes ==
  ASSUME NEW p \in Pass
  PROVE  /\ p.st \in Status /\ p.orig \in Status
         /\ p.listed \in SUBSET Names /\ p.excluded \in SUBSET Names
         /\ p.items \in [Names -> Cluster] /\ p.todo \in SUBSET Names
         /\ p.cur \in Names \cup {None} /\ p.retErr \in {"annotation", "failed", None}
  BY DEF Pass

LEMMA ReturnTypes ==
  ASSUME TypeOK, NEW st \in Status, NEW v \in Synced, Return(st, v)
  PROVE  /\ pass' \in Pass
         /\ gauge' \in [total : Nat, created : Nat, failed : Nat]
         /\ onboarded' \in [Names -> {None, 0, 1}]
  <1> DEFINE final == [st EXCEPT !.synced = v]
  <1>1. final \in Status
    BY StatusTypes
  <1>2. pass.orig \in Status
    BY PassTypes DEF TypeOK
  <1>3. pass' \in Pass
    BY <1>1, <1>2, EmptyTypes DEF Return, Pass
  <1>4. gauge' \in [total : Nat, created : Nat, failed : Nat]
    BY <1>1 DEF Return, UpdateCareInstructionMetrics, Status
  <1>5. onboarded \in [Names -> {None, 0, 1}]
    BY DEF TypeOK
  <1>6. onboarded' \in [Names -> {None, 0, 1}]
    BY <1>5 DEF Return, UpdateCareInstructionMetrics
  <1>7. QED
    BY <1>3, <1>4, <1>6

-----------------------------------------------------------------------------
(* Types.                                                                   *)

LEMMA TypeInit == Init => TypeOK
  <1> SUFFICES ASSUME Init PROVE TypeOK
    OBVIOUS
  <1>1. /\ shoot \in [Names -> Shoot] /\ cluster \in [Names -> Cluster] /\ owed \subseteq Names
        /\ cache \in [Names -> Cluster]
    BY DEF Init
  <1>2. ci \in CareInstruction /\ seen \in CareInstruction
    BY EmptyTypes DEF Init, CareInstruction
  <1>3. onboarded \in [Names -> {None, 0, 1}] /\ pass \in Pass
    BY EmptyTypes DEF Init
  <1>4. edits \in 0 .. MaxEdits /\ faults \in 0 .. MaxFaults
    BY ConstantsAssumption DEF Init
  <1>5. event \in BOOLEAN /\ queued \in BOOLEAN /\ gauge = NoMetrics
    BY DEF Init
  <1>6. QED
    BY <1>1, <1>2, <1>3, <1>4, <1>5 DEF TypeOK

LEMMA FaultTypes ==
  ASSUME TypeOK, Fault
  PROVE  faults' \in 0 .. MaxFaults /\ edits' \in 0 .. MaxEdits
  BY ConstantsAssumption DEF TypeOK, Fault

LEMMA EditTypes ==
  ASSUME TypeOK, Edit
  PROVE  faults' \in 0 .. MaxFaults /\ edits' \in 0 .. MaxEdits
  BY ConstantsAssumption DEF TypeOK, Edit

(* The steps of a pass keep the types of what they change.                  *)
LEMMA TypePass ==
  ASSUME TypeOK,
         \/ Begin \/ ListShoots \/ ListClusters \/ \E n \in Names : AnnotateShoot(n)
         \/ HandleReconcileAnnotation \/ RemoveClusterAnnotation
  PROVE  pass' \in Pass
  <1> USE DEF At
  <1>1. pass \in Pass
    BY DEF TypeOK
  <1>2. CASE Begin
    <2>1. seen.st \in Status /\ seen.st.synced \in Synced
      BY DEF TypeOK, CareInstruction, Status
    <2>2. [NewStatus EXCEPT !.synced = seen.st.synced] \in Status
      BY <2>1, EmptyTypes, StatusTypes
    <2>3. QED
      BY <1>2, <2>1, <2>2, EmptyTypes DEF Begin, Pass
  <1>3. CASE ListShoots
    <2> DEFINE listed == {n \in Names : Selected(n)}
    <2>1. Cardinality(listed) \in Nat
      BY CountTypes
    <2>2. [pass.st EXCEPT !.total = Cardinality(listed)] \in Status
      BY <1>1, <2>1, PassTypes, StatusTypes
    <2>3. listed \in SUBSET Names /\ {n \in listed : ~MatchesCELFilter(n)} \in SUBSET Names
      OBVIOUS
    <2>4. pass' = [pass EXCEPT !.pc = "clusters", !.listed = listed,
                               !.excluded = {n \in listed : ~MatchesCELFilter(n)},
                               !.st = [pass.st EXCEPT !.total = Cardinality(listed)]]
      BY <1>1, <1>3 DEF ListShoots, Pass
    <2> HIDE DEF listed
    <2>5. QED
      BY <1>1, <2>2, <2>3, <2>4 DEF Pass
  <1>4. CASE ListClusters
    <2> DEFINE owned == {n \in Names : Owned(cache[n])}
               items == [n \in Names |-> IF n \in owned THEN cache[n] ELSE NoCluster]
               todo == {n \in owned : cache[n].annotated}
    <2>1. Cardinality(owned) \in Nat
      BY CountTypes
    <2>2. [pass.st EXCEPT !.created = Cardinality(owned)] \in Status
      BY <1>1, <2>1, PassTypes, StatusTypes
    <2>3. items \in [Names -> Cluster] /\ todo \in SUBSET Names
      BY EmptyTypes DEF TypeOK
    <2>4. pass' = [pass EXCEPT !.pc = "forward", !.items = items, !.todo = todo,
                               !.st = [pass.st EXCEPT !.created = Cardinality(owned)]]
      BY <1>1, <1>4 DEF ListClusters, Pass
    <2> HIDE DEF owned, items, todo
    <2>5. QED
      BY <1>1, <2>2, <2>3, <2>4 DEF Pass
  <1>5. ASSUME NEW n \in Names, AnnotateShoot(n)
        PROVE  pass' \in Pass
    <2>1. pass.todo \ {n} \in SUBSET Names
      BY <1>1, PassTypes
    <2>2. CASE pass' = [pass EXCEPT !.pc = "unannotate", !.todo = @ \ {n}, !.cur = n]
      BY <1>1, <2>1, <2>2 DEF Pass
    <2>3. CASE \E e \in {"annotation", "failed"} :
                 pass' = [pass EXCEPT !.todo = @ \ {n}, !.retErr = e]
      BY <1>1, <2>1, <2>3 DEF Pass, Synced
    <2>4. QED
      BY <1>5, <2>2, <2>3 DEF AnnotateShoot
  <1>6. CASE HandleReconcileAnnotation
    <2>1. ci.st \in Status
      BY DEF TypeOK, CareInstruction
    <2>2. QED
      BY <1>1, <1>6, <2>1 DEF HandleReconcileAnnotation, Pass
  <1>7. CASE RemoveClusterAnnotation
    <2> DEFINE n == pass.cur
               new == [cluster[n] EXCEPT !.annotated = FALSE]
    <2>1. CASE cluster[n].exists /\ pass' = [pass EXCEPT !.pc = "forward", !.items[n] = new, !.cur = None]
      <3>1. [pass.items EXCEPT ![n] = new] \in [Names -> Cluster]
        <4>1. pass.items \in [Names -> Cluster]
          BY <1>1, PassTypes
        <4>2. CASE n \in Names
          <5>1. cluster[n] \in Cluster
            BY <4>2 DEF TypeOK
          <5>2. new \in Cluster
            BY <2>1, <5>1, ClusterTypes
          <5>3. QED
            BY <4>1, <5>2
        <4>3. CASE n \notin Names
          <5>1. [pass.items EXCEPT ![n] = new] = pass.items
            BY <4>1, <4>3
          <5>2. QED
            BY <4>1, <5>1
        <4>4. QED
          BY <4>2, <4>3
      <3>2. pass' = [pass EXCEPT !.pc = "forward", !.items = [pass.items EXCEPT ![n] = new], !.cur = None]
        BY <1>1, <2>1 DEF Pass
      <3> HIDE DEF n, new
      <3>3. QED
        BY <1>1, <3>1, <3>2 DEF Pass
    <2>2. CASE \E e \in {"annotation", "failed"} :
                 pass' = [pass EXCEPT !.pc = "forward", !.retErr = e, !.cur = None]
      BY <1>1, <2>2 DEF Pass, Synced
    <2>3. QED
      BY <1>7, <2>1, <2>2 DEF RemoveClusterAnnotation
  <1>8. QED
    BY <1>2, <1>3, <1>4, <1>5, <1>6, <1>7

LEMMA ComparisonTypes ==
  ASSUME TypeOK, Compare
  PROVE  \E st \in Status, v \in Synced :
           /\ st = [pass.st EXCEPT !.shoots = BuildShootStatuses,
                                   !.failed = Cardinality(Listed(BuildShootStatuses, "Failed"))]
           /\ v = CASE pass.retErr # None -> pass.retErr
                    [] pass.retErr = None /\ ~CountsMatch -> "mismatch"
                    [] pass.retErr = None /\ CountsMatch /\ st.failed > 0 -> "notready"
                    [] OTHER -> "True"
           /\ Return(st, v)
  <1> DEFINE statuses == BuildShootStatuses
             failed == Cardinality(Listed(statuses, "Failed"))
             st == [pass.st EXCEPT !.shoots = statuses, !.failed = failed]
             v == CASE pass.retErr # None -> pass.retErr
                    [] pass.retErr = None /\ ~CountsMatch -> "mismatch"
                    [] pass.retErr = None /\ CountsMatch /\ failed > 0 -> "notready"
                    [] OTHER -> "True"
  <1>1. pass.st \in Status /\ pass.retErr \in {"annotation", "failed", None}
    BY PassTypes DEF TypeOK
  <1>2. statuses \in [Names -> ShootStatus \cup {None}]
    BY StatusesTypes
  <1>3. failed \in Nat
    BY CountTypes DEF Listed
  <1>4. Return(st, v)
    BY DEF Compare
  <1> HIDE DEF statuses, failed
  <1>5. st \in Status /\ st.failed = failed
    BY <1>1, <1>2, <1>3, StatusTypes DEF Status
  <1>6. v \in Synced
    BY <1>1 DEF Synced
  <1> HIDE DEF st
  <1>7. /\ st = [pass.st EXCEPT !.shoots = BuildShootStatuses,
                                !.failed = Cardinality(Listed(BuildShootStatuses, "Failed"))]
        /\ failed = Cardinality(Listed(BuildShootStatuses, "Failed"))
    BY DEF st, statuses, failed
  <1>8. QED
    BY <1>4, <1>5, <1>6, <1>7

LEMMA TypeStep == ASSUME TypeOK, [Next]_vars PROVE TypeOK'
  <1> USE DEF worldVars, serverVars, metrics, bounds
  <1>1. CASE Begin \/ ListShoots \/ ListClusters
    <2>1. pass' \in Pass
      BY <1>1, TypePass
    <2>2. queued' \in BOOLEAN
      BY <1>1 DEF Begin, ListShoots, ListClusters, TypeOK
    <2>3. QED
      BY <1>1, <2>1, <2>2 DEF Begin, ListShoots, ListClusters, TypeOK
  <1>2. CASE HandleReconcileAnnotation
    <2>1. pass' \in Pass
      BY <1>2, TypePass
    <2>2. ci' \in CareInstruction /\ event' \in BOOLEAN
      BY <1>2 DEF HandleReconcileAnnotation, WriteCareInstruction, TypeOK, CareInstruction
    <2>3. QED
      BY <1>2, <2>1, <2>2 DEF HandleReconcileAnnotation, TypeOK
  <1>3. ASSUME NEW n \in Names, AnnotateShoot(n)
        PROVE  TypeOK'
    <2>1. pass' \in Pass
      BY <1>3, TypePass
    <2>2. faults' \in 0 .. MaxFaults /\ edits' \in 0 .. MaxEdits
      BY <1>3, FaultTypes DEF AnnotateShoot, TypeOK
    <2>3. owed' \subseteq Names
      BY <1>3 DEF AnnotateShoot, TypeOK
    <2>4. QED
      BY <1>3, <2>1, <2>2, <2>3 DEF AnnotateShoot, TypeOK
  <1>4. CASE RemoveClusterAnnotation
    <2>1. pass' \in Pass
      BY <1>4, TypePass
    <2>2. faults' \in 0 .. MaxFaults /\ edits' \in 0 .. MaxEdits
      BY <1>4, FaultTypes DEF RemoveClusterAnnotation, TypeOK
    <2>3. cluster' \in [Names -> Cluster]
      <3> DEFINE n == pass.cur
                 new == [cluster[n] EXCEPT !.annotated = FALSE]
      <3>1. CASE cluster[n].exists /\ cluster' = [cluster EXCEPT ![n] = new]
        <4>1. n \in Names => new \in Cluster
          BY <3>1, ClusterTypes DEF TypeOK
        <4>2. QED
          BY <3>1, <4>1 DEF TypeOK
      <3>2. QED
        BY <1>4, <3>1 DEF RemoveClusterAnnotation, TypeOK
    <2>4. QED
      BY <1>4, <2>1, <2>2, <2>3 DEF RemoveClusterAnnotation, TypeOK
  <1>5. CASE Compare
    <2>1. /\ pass' \in Pass
          /\ gauge' \in [total : Nat, created : Nat, failed : Nat]
          /\ onboarded' \in [Names -> {None, 0, 1}]
      BY <1>5, ComparisonTypes, ReturnTypes
    <2>2. QED
      BY <1>5, <2>1 DEF Compare, TypeOK
  <1>6. CASE CallFails
    <2>1. /\ pass' \in Pass
          /\ gauge' \in [total : Nat, created : Nat, failed : Nat]
          /\ onboarded' \in [Names -> {None, 0, 1}]
      BY <1>6, PassTypes, ReturnTypes DEF CallFails, TypeOK, Synced
    <2>2. faults' \in 0 .. MaxFaults /\ edits' \in 0 .. MaxEdits
      BY <1>6, FaultTypes DEF CallFails
    <2>3. QED
      BY <1>6, <2>1, <2>2 DEF CallFails, TypeOK
  <1>7. CASE PatchStatus
    <2>1. ci.st \in Status /\ pass.st \in Status /\ pass.orig \in Status
      BY PassTypes DEF TypeOK, CareInstruction
    <2>2. MergeStatus(pass.orig, pass.st, ci.st) \in Status
      BY <2>1, MergeTypes
    <2>3. ci' \in CareInstruction /\ event' \in BOOLEAN
      BY <1>7, <2>2 DEF PatchStatus, WriteCareInstruction, TypeOK, CareInstruction
    <2>4. pass' \in Pass
      BY <1>7, EmptyTypes DEF PatchStatus
    <2>5. QED
      BY <1>7, <2>3, <2>4 DEF PatchStatus, TypeOK
  <1>8. CASE PatchStatusFails
    BY <1>8, EmptyTypes, FaultTypes DEF PatchStatusFails, TypeOK
  <1>9. CASE Deliver \/ Resync
    BY <1>9 DEF Deliver, Resync, TypeOK
  <1>10. CASE Crash
    <2>1. pass' \in Pass /\ onboarded' \in [Names -> {None, 0, 1}]
      BY <1>10, EmptyTypes DEF Crash
    <2>2. QED
      BY <1>10, <2>1, FaultTypes DEF Crash, TypeOK
  <1>11. CASE AnnotateCareInstruction
    <2>1. ci' \in CareInstruction /\ event' \in BOOLEAN
      BY <1>11 DEF AnnotateCareInstruction, WriteCareInstruction, TypeOK, CareInstruction
    <2>2. QED
      BY <1>11, <2>1, EditTypes DEF AnnotateCareInstruction, TypeOK
  <1>12. ASSUME NEW n \in Names, DeliverCluster(n)
         PROVE  TypeOK'
    <2>1. cache' \in [Names -> Cluster]
      BY <1>12 DEF DeliverCluster, TypeOK
    <2>2. queued' \in BOOLEAN
      BY <1>12 DEF DeliverCluster, TypeOK, EnqueueForCreatedClusters
    <2>3. QED
      BY <1>12, <2>1, <2>2 DEF DeliverCluster, TypeOK
  <1>13. ASSUME NEW n \in Names, ShootChanges(n)
         PROVE  TypeOK'
    <2>1. shoot' \in [Names -> Shoot]
      BY <1>13 DEF ShootChanges, TypeOK
    <2>2. QED
      BY <1>13, <2>1, EditTypes DEF ShootChanges, TypeOK
  <1>14. ASSUME NEW n \in Names, ClusterChanges(n)
         PROVE  TypeOK'
    <2>1. cluster' \in [Names -> Cluster] /\ owed' \subseteq Names
      BY <1>14 DEF ClusterChanges, TypeOK
    <2>2. QED
      BY <1>14, <2>1, EditTypes DEF ClusterChanges, TypeOK
  <1>15. ASSUME NEW n \in Names, AnnotateCluster(n)
         PROVE  TypeOK'
    <2>1. cluster' = [cluster EXCEPT ![n] = [cluster[n] EXCEPT !.annotated = TRUE]]
      BY <1>15 DEF AnnotateCluster, TypeOK
    <2>2. cluster[n] \in Cluster /\ [cluster[n] EXCEPT !.annotated = TRUE] \in Cluster
      BY <1>15, ClusterTypes DEF AnnotateCluster, TypeOK
    <2>3. cluster' \in [Names -> Cluster] /\ owed' \subseteq Names
      BY <1>15, <2>1, <2>2 DEF AnnotateCluster, TypeOK
    <2>4. QED
      BY <1>15, <2>3, EditTypes DEF AnnotateCluster, TypeOK
  <1>16. CASE UNCHANGED vars
    BY <1>16 DEF vars, TypeOK
  <1>17. QED
    BY <1>1, <1>2, <1>3, <1>4, <1>5, <1>6, <1>7, <1>8, <1>9, <1>10, <1>11, <1>12, <1>13, <1>14,
       <1>15, <1>16 DEF Next, Step

-----------------------------------------------------------------------------
(* Requests and counts.                                                     *)

(* An idle pass, and one that only has its status left to write, has        *)
(* nothing listed and nothing in work.                                      *)
LEMMA IdlePass ==
  ASSUME NEW pc \in {"idle", "patch"}, NEW p, p.pc = pc,
         p.listed = {}, p.excluded = {}, p.todo = {}, p.cur = None, pass' = p, RequestKept'
  PROVE  RequestHolds' /\ CountHolds'
  BY DEF RequestHolds, CountHolds, At

LEMMA ReturnPass ==
  ASSUME TypeOK, NEW st, NEW v, Return(st, v)
  PROVE  /\ pass'.pc = "patch" /\ pass'.st = [st EXCEPT !.synced = v] /\ pass'.orig = pass.orig
         /\ pass'.listed = {} /\ pass'.excluded = {} /\ pass'.todo = {} /\ pass'.cur = None
         /\ pass'.retErr = None
  BY DEF Return, Idle

(* A Cluster with an owner is there.                                        *)
LEMMA OwnedExists ==
  ASSUME NEW c \in Cluster, Owned(c)
  PROVE  c.exists
  BY ConstantsAssumption, ClusterTypes DEF Owned

LEMMA RequestInit == Init => RequestHolds /\ CountHolds
  <1> SUFFICES ASSUME Init PROVE RequestHolds /\ CountHolds
    OBVIOUS
  <1>1. RequestKept
    BY DEF Init, RequestKept
  <1>2. /\ pass.pc = "idle" /\ pass.listed = {} /\ pass.excluded = {} /\ pass.todo = {}
        /\ pass.cur = None
    BY DEF Init, Idle
  <1>3. QED
    BY <1>1, <1>2 DEF RequestHolds, CountHolds, At

(* No request of a Cluster is dropped.                                      *)
LEMMA KeptStep == ASSUME TypeOK, RequestHolds, [Next]_vars PROVE RequestKept'
  <1> USE DEF worldVars, RequestKept
  <1>1. RequestKept
    BY DEF RequestHolds
  <1>2. CASE UNCHANGED worldVars
    BY <1>1, <1>2
  <1>3. ASSUME NEW n \in Names, AnnotateShoot(n)
        PROVE  RequestKept'
    BY <1>1, <1>3 DEF AnnotateShoot
  <1>4. CASE RemoveClusterAnnotation
    <2> DEFINE n == pass.cur
    <2>1. n \notin owed
      BY <1>4 DEF RemoveClusterAnnotation, RequestHolds
    <2>2. \A m \in owed : cluster'[m] = cluster[m]
      BY <1>4, <2>1 DEF RemoveClusterAnnotation, TypeOK
    <2>3. QED
      BY <1>1, <1>4, <2>2 DEF RemoveClusterAnnotation
  <1>5. ASSUME NEW n \in Names, ClusterChanges(n)
        PROVE  RequestKept'
    <2>1. PICK new \in Cluster \ {cluster[n]} :
            /\ \/ ~cluster[n].exists /\ ~new.ready /\ ~new.annotated /\ new.owner # None
               \/ cluster[n].exists /\ \E o \in {Me, Other, None} : new = [cluster[n] EXCEPT !.owner = o]
               \/ cluster[n].exists /\ new = [cluster[n] EXCEPT !.ready = ~@]
               \/ cluster[n].exists /\ ~new.exists
            /\ cluster' = [cluster EXCEPT ![n] = new]
            /\ owed' = IF new.exists THEN owed ELSE owed \ {n}
      BY <1>5 DEF ClusterChanges
    <2>2. cluster \in [Names -> Cluster] /\ owed \subseteq Names
      BY DEF TypeOK
    <2>3. n \in owed' => cluster[n].annotated /\ cluster[n].exists
      <3>1. cluster[n] \in Cluster
        BY <2>2
      <3>2. n \in owed' => cluster[n].annotated
        BY <1>1, <2>1
      <3>3. cluster[n].annotated => cluster[n].exists
        BY <3>1, ClusterTypes
      <3>4. QED
        BY <3>2, <3>3
    <2>4. n \in owed' => new.annotated
      <3>1. cluster[n] \in [exists : BOOLEAN, owner : {Me, Other, None}, ready : BOOLEAN, annotated : BOOLEAN]
        BY <2>2, ClusterTypes
      <3>2. QED
        BY <2>1, <2>3, <3>1
    <2>5. QED
      BY <1>1, <2>1, <2>2, <2>4
  <1>6. ASSUME NEW n \in Names, AnnotateCluster(n)
        PROVE  RequestKept'
    <2>1. cluster' = [cluster EXCEPT ![n] = [cluster[n] EXCEPT !.annotated = TRUE]]
      BY <1>6 DEF AnnotateCluster, TypeOK
    <2>2. cluster[n] \in [exists : BOOLEAN, owner : {Me, Other, None}, ready : BOOLEAN, annotated : BOOLEAN]
      BY ClusterTypes DEF TypeOK
    <2>3. cluster'[n].annotated /\ \A m \in Names \ {n} : cluster'[m] = cluster[m]
      BY <2>1, <2>2 DEF TypeOK
    <2>4. owed' \subseteq owed \cup {n} /\ owed \subseteq Names
      BY <1>6 DEF AnnotateCluster, TypeOK
    <2>5. QED
      BY <1>1, <2>3, <2>4
  <1>7. ASSUME NEW n \in Names, ShootChanges(n)
        PROVE  RequestKept'
    BY <1>1, <1>7 DEF ShootChanges
  <1>8. CASE UNCHANGED vars
    BY <1>2, <1>8 DEF vars
  <1>9. QED
    BY <1>2, <1>3, <1>4, <1>5, <1>6, <1>7, <1>8
    DEF Next, Step, Begin, HandleReconcileAnnotation, ListShoots, ListClusters, Compare,
        PatchStatus, CallFails, PatchStatusFails, Deliver, Resync, Crash, AnnotateCareInstruction,
        DeliverCluster

(* The Cluster in work is answered for, and the counts are those of what    *)
(* was listed.                                                              *)
LEMMA RequestStep ==
  ASSUME TypeOK, RequestHolds, CountHolds, [Next]_vars
  PROVE  RequestHolds' /\ CountHolds'
  <1> USE DEF At
  <1>1. RequestKept'
    BY KeptStep
  <1>2. pass \in Pass
    BY DEF TypeOK
  <1>3. CASE UNCHANGED <<pass, owed>>
    BY <1>1, <1>3 DEF RequestHolds, CountHolds
  <1>4. CASE Begin
    <2>1. /\ pass'.pc \in {"annotation", "shoots"} /\ pass'.cur = None /\ pass'.todo = {}
          /\ pass'.excluded = {}
      BY <1>4 DEF Begin, Idle
    <2>2. QED
      BY <1>1, <2>1 DEF RequestHolds, CountHolds
  <1>5. CASE HandleReconcileAnnotation
    <2>1. /\ pass'.pc = "shoots" /\ pass'.cur = pass.cur /\ pass'.todo = pass.todo
          /\ pass'.items = pass.items /\ pass'.excluded = pass.excluded /\ pass'.listed = pass.listed
          /\ pass.pc = "annotation"
      BY <1>2, <1>5 DEF HandleReconcileAnnotation, Pass
    <2>2. QED
      BY <1>1, <2>1 DEF RequestHolds, CountHolds
  <1>6. CASE ListShoots
    <2> DEFINE listed == {n \in Names : Selected(n)}
    <2>1. /\ pass'.pc = "clusters" /\ pass'.cur = pass.cur /\ pass'.todo = pass.todo
          /\ pass'.items = pass.items /\ pass'.listed = listed /\ pass'.excluded \subseteq listed
          /\ pass.pc = "shoots" /\ pass'.st.total = Cardinality(listed)
      BY <1>2, <1>6, PassTypes DEF ListShoots, Pass, Status
    <2> HIDE DEF listed
    <2>2. QED
      BY <1>1, <2>1 DEF RequestHolds, CountHolds
  <1>7. CASE ListClusters
    <2> DEFINE owned == {n \in Names : Owned(cache[n])}
               items == [n \in Names |-> IF n \in owned THEN cache[n] ELSE NoCluster]
    <2>1. /\ pass'.pc = "forward" /\ pass'.cur = pass.cur
          /\ pass'.todo = {n \in owned : cache[n].annotated} /\ pass'.items = items
          /\ pass'.listed = pass.listed /\ pass'.excluded = pass.excluded
          /\ pass.pc = "clusters" /\ pass'.st.total = pass.st.total
          /\ pass'.st.created = Cardinality(owned)
      BY <1>2, <1>7, PassTypes DEF ListClusters, Pass, Status
    <2>2. \A n \in Names : items[n].exists <=> n \in owned
      BY OwnedExists DEF TypeOK, NoCluster
    <2>3. {n \in Names : items[n].exists} = owned
      BY <2>2
    <2>4. \A n \in pass'.todo : n \in Names /\ pass'.items[n].exists
      BY <2>1, <2>2
    <2> HIDE DEF items, owned
    <2>5. QED
      BY <1>1, <2>1, <2>3, <2>4 DEF RequestHolds, CountHolds
  <1>8. ASSUME NEW n \in Names, AnnotateShoot(n)
        PROVE  RequestHolds' /\ CountHolds'
    <2>1. /\ pass.pc = "forward" /\ n \in pass.todo /\ pass'.todo = pass.todo \ {n}
          /\ pass'.items = pass.items /\ pass'.listed = pass.listed
          /\ pass'.excluded = pass.excluded /\ pass'.st = pass.st
      BY <1>2, <1>8 DEF AnnotateShoot, Pass
    <2>2. \/ pass'.pc = "unannotate" /\ pass'.cur = n /\ owed' = owed \ {n}
          \/ pass'.pc = "forward" /\ pass'.cur = pass.cur
      BY <1>2, <1>8 DEF AnnotateShoot, Pass
    <2>3. QED
      BY <1>1, <2>1, <2>2 DEF RequestHolds, CountHolds
  <1>9. CASE RemoveClusterAnnotation
    <2>1. /\ pass.pc = "unannotate" /\ pass'.pc = "forward" /\ pass'.cur = None
          /\ pass'.todo = pass.todo /\ pass'.listed = pass.listed
          /\ pass'.excluded = pass.excluded /\ pass'.st = pass.st
      BY <1>2, <1>9 DEF RemoveClusterAnnotation, Pass
    <2>2. pass.cur \in Names /\ pass.items[pass.cur].exists
      BY <2>1 DEF RequestHolds
    <2>3. \A m \in Names : pass'.items[m].exists <=> pass.items[m].exists
      <3> DEFINE n == pass.cur
                 new == [cluster[n] EXCEPT !.annotated = FALSE]
      <3>1. CASE cluster[n].exists /\ pass' = [pass EXCEPT !.pc = "forward", !.items[n] = new, !.cur = None]
        <4>1. cluster[n] \in
                [exists : BOOLEAN, owner : {Me, Other, None}, ready : BOOLEAN, annotated : BOOLEAN]
          BY <2>2, ClusterTypes DEF TypeOK
        <4>2. new.exists
          BY <3>1, <4>1
        <4>3. pass.items \in [Names -> Cluster] /\ pass'.items = [pass.items EXCEPT ![n] = new]
          BY <1>2, <3>1 DEF Pass
        <4> HIDE DEF new
        <4>4. QED
          BY <2>2, <4>2, <4>3
      <3>2. CASE pass'.items = pass.items
        BY <3>2
      <3>3. QED
        BY <1>2, <1>9, <3>1, <3>2 DEF RemoveClusterAnnotation, Pass
    <2>4. {m \in Names : pass'.items[m].exists} = {m \in Names : pass.items[m].exists}
      BY <2>3
    <2>5. \A m \in pass'.todo : pass'.items[m].exists
      BY <1>2, <2>1, <2>3, PassTypes DEF RequestHolds
    <2>6. QED
      BY <1>1, <2>1, <2>4, <2>5 DEF RequestHolds, CountHolds
  <1>10. CASE Compare \/ CallFails
    <2>1. \E st, v : Return(st, v)
      BY <1>10 DEF Compare, CallFails
    <2>2. QED
      BY <1>1, <2>1, ReturnPass, IdlePass
  <1>11. CASE PatchStatus \/ PatchStatusFails \/ Crash
    <2>1. pass' = Idle
      BY <1>11 DEF PatchStatus, PatchStatusFails, Crash
    <2>2. /\ pass'.pc = "idle" /\ pass'.listed = {} /\ pass'.excluded = {} /\ pass'.todo = {}
          /\ pass'.cur = None
      BY <2>1 DEF Idle
    <2>3. QED
      BY <1>1, <2>2, IdlePass
  <1>12. ASSUME NEW n \in Names, ClusterChanges(n)
         PROVE  RequestHolds' /\ CountHolds'
    <2>1. pass' = pass /\ owed' \subseteq owed
      BY <1>12 DEF ClusterChanges
    <2>2. QED
      BY <1>1, <2>1 DEF RequestHolds, CountHolds
  <1>13. ASSUME NEW n \in Names, AnnotateCluster(n)
         PROVE  RequestHolds' /\ CountHolds'
    <2>1. pass' = pass /\ owed' \subseteq owed \cup {n} /\ (pass.cur = n => owed' = owed)
      BY <1>13 DEF AnnotateCluster
    <2>2. QED
      BY <1>1, <2>1 DEF RequestHolds, CountHolds
  <1>14. CASE UNCHANGED vars
    BY <1>3, <1>14 DEF vars, worldVars
  <1>15. QED
    BY <1>3, <1>4, <1>5, <1>6, <1>7, <1>8, <1>9, <1>10, <1>11, <1>12, <1>13, <1>14
    DEF Next, Step, Deliver, Resync, AnnotateCareInstruction, DeliverCluster, ShootChanges, worldVars

-----------------------------------------------------------------------------
(* The report.                                                              *)

(* If every included Shoot has its Cluster, the counts of a pass tell it.   *)
LEMMA CountsFit ==
  ASSUME TypeOK, CountHolds, At("forward"), CountsMatch,
         NEW X \in SUBSET Names, pass.excluded \subseteq X
  PROVE  pass.st.total <= pass.st.created + Cardinality(X)
  <1> DEFINE listed == pass.listed
             made == {n \in Names : pass.items[n].exists}
  <1>1. listed \in SUBSET Names
    BY PassTypes DEF TypeOK
  <1>2. listed \subseteq made \cup X
    BY <1>1 DEF CountsMatch, Included
  <1>3. IsFiniteSet(made) /\ IsFiniteSet(X) /\ Cardinality(made) \in Nat /\ Cardinality(X) \in Nat
    BY CountTypes
  <1>4. made \cup X \in SUBSET Names /\ made \cap X \in SUBSET Names
    OBVIOUS
  <1>5. Cardinality(listed) \in Nat /\ Cardinality(listed) <= Cardinality(made \cup X)
    BY <1>1, <1>2, <1>4, CountTypes
  <1>6. Cardinality(made \cup X) = Cardinality(made) + Cardinality(X) - Cardinality(made \cap X)
    BY <1>3, FS_Union
  <1>7. Cardinality(made \cap X) \in Nat
    BY <1>4, CountTypes
  <1>8. pass.st.total = Cardinality(listed) /\ pass.st.created = Cardinality(made)
    BY DEF CountHolds, At
  <1> HIDE DEF listed, made
  <1>9. QED
    BY <1>3, <1>5, <1>6, <1>7, <1>8

(* The gauges are set from the status that a pass leaves.                   *)
LEMMA ReturnMetrics ==
  ASSUME TypeOK, NEW st \in Status, NEW v \in Synced, Return(st, v),
         st.failed = Cardinality(Listed(st.shoots, "Failed")),
         v = "True" => /\ st.failed = 0
                       /\ st.total <= st.created + Cardinality(Listed(st.shoots, "Excluded"))
  PROVE  Agrees(pass.st)'
  <1> DEFINE final == [st EXCEPT !.synced = v]
  <1>1. /\ final.total = st.total /\ final.created = st.created /\ final.failed = st.failed
        /\ final.shoots = st.shoots /\ final.synced = v
    BY DEF Status
  <1>2. pass'.st = final
    BY ReturnPass
  <1>3. /\ gauge' = [total |-> final.total, created |-> final.created, failed |-> final.failed]
        /\ onboarded' = [n \in Names |-> IF final.shoots[n] = None THEN onboarded[n]
                                         ELSE IF final.shoots[n] = "Onboarded" THEN 1 ELSE 0]
    BY DEF Return, UpdateCareInstructionMetrics
  <1> HIDE DEF final
  <1>4. \A n \in Names : final.shoots[n] # None =>
          onboarded'[n] = IF final.shoots[n] = "Onboarded" THEN 1 ELSE 0
    BY <1>3
  <1>5. QED
    BY <1>1, <1>2, <1>3, <1>4 DEF Agrees, Listed

LEMMA CompareAgrees ==
  ASSUME TypeOK, CountHolds, Compare
  PROVE  Agrees(pass.st)'
  <1>1. PICK st \in Status, v \in Synced :
          /\ st = [pass.st EXCEPT !.shoots = BuildShootStatuses,
                                  !.failed = Cardinality(Listed(BuildShootStatuses, "Failed"))]
          /\ v = CASE pass.retErr # None -> pass.retErr
                   [] pass.retErr = None /\ ~CountsMatch -> "mismatch"
                   [] pass.retErr = None /\ CountsMatch /\ st.failed > 0 -> "notready"
                   [] OTHER -> "True"
          /\ Return(st, v)
    BY ComparisonTypes
  <1>2. pass.st \in Status
    BY PassTypes DEF TypeOK
  <1>3. /\ st.shoots = BuildShootStatuses
        /\ st.failed = Cardinality(Listed(BuildShootStatuses, "Failed"))
        /\ st.total = pass.st.total /\ st.created = pass.st.created
    BY <1>1, <1>2 DEF Status
  <1>4. ASSUME v = "True"
        PROVE  /\ st.failed = 0
               /\ st.total <= st.created + Cardinality(Listed(st.shoots, "Excluded"))
    <2>1. st.failed \in Nat
      BY DEF Status
    <2>2. CountsMatch /\ ~(st.failed > 0)
      <3>1. pass.retErr \in {"annotation", "failed", None}
        BY PassTypes DEF TypeOK
      <3>2. QED
        BY <1>1, <1>4, <3>1
    <2>3. Listed(BuildShootStatuses, "Excluded") \in SUBSET Names
      BY DEF Listed
    <2>4. pass.excluded \subseteq Listed(BuildShootStatuses, "Excluded")
      BY StatusesTypes
    <2>5. QED
      BY <1>3, <2>1, <2>2, <2>3, <2>4, CountsFit DEF Compare
  <1>5. QED
    BY <1>1, <1>3, <1>4, ReturnMetrics

(* A status write that leads to no further pass had nothing to write.       *)
LEMMA QuietPatch ==
  ASSUME TypeOK, ReportHolds, PatchStatus, ~queued, ~event'
  PROVE  ~event /\ ci' = ci /\ pass.st = ci.st /\ pass.orig = ci.st
  <1> DEFINE merged == MergeStatus(pass.orig, pass.st, ci.st)
  <1>1. ~event /\ ci' = ci /\ ci' = [ci EXCEPT !.st = merged]
    BY DEF PatchStatus, WriteCareInstruction, TypeOK
  <1>2. pass.orig = ci.st
    BY <1>1 DEF ReportHolds, PatchStatus, At
  <1>3. pass.orig \in Status /\ pass.st \in Status /\ ci.st \in Status
    BY PassTypes DEF TypeOK, CareInstruction
  <1>4. merged = ci.st
    <2>1. ci \in CareInstruction
      BY DEF TypeOK
    <2> HIDE DEF merged
    <2>2. [ci EXCEPT !.st = merged].st = merged
      BY <2>1 DEF CareInstruction
    <2>3. QED
      BY <1>1, <2>2
  <1>5. pass.st = pass.orig
    BY <1>2, <1>3, <1>4, MergeNothing
  <1>6. QED
    BY <1>1, <1>2, <1>5

(* Taking the annotation off is an event, if it was there.                  *)
LEMMA AnnotationEvent ==
  ASSUME TypeOK, ReportHolds, HandleReconcileAnnotation, ~queued
  PROVE  event'
  <1>1. CASE event
    BY <1>1 DEF HandleReconcileAnnotation, WriteCareInstruction
  <1>2. CASE ~event
    <2>1. ci.annotated /\ ci \in CareInstruction
      BY <1>2 DEF ReportHolds, HandleReconcileAnnotation, At, TypeOK
    <2>2. [ci EXCEPT !.annotated = FALSE] # ci
      BY <2>1 DEF CareInstruction
    <2>3. QED
      BY <2>2 DEF HandleReconcileAnnotation, WriteCareInstruction
  <1>3. QED
    BY <1>1, <1>2

LEMMA ReportInit == Init => ReportHolds
  <1> SUFFICES ASSUME Init PROVE ReportHolds
    OBVIOUS
  <1>1. queued /\ seen = ci /\ pass.pc = "idle"
    BY DEF Init, Idle
  <1>2. QED
    BY <1>1 DEF ReportHolds, At

LEMMA ReportStep ==
  ASSUME TypeOK, CountHolds, ReportHolds, [Next]_vars
  PROVE  ReportHolds'
  <1> USE DEF At
  <1>1. pass \in Pass /\ pass.st \in Status
    BY PassTypes DEF TypeOK
  <1>2. CASE /\ UNCHANGED <<ci, seen, event, metrics, pass>>
             /\ ~queued' => ~queued
    <2>1. /\ Agrees(pass.st) => Agrees(pass.st)'
          /\ Agrees(ci.st) => Agrees(ci.st)'
      BY <1>2 DEF Agrees, metrics, Listed
    <2>2. QED
      BY <1>2, <2>1 DEF ReportHolds
  (* A step of the pass that keeps the zeroed part of its status. *)
  <1>3. CASE /\ UNCHANGED <<ci, seen, event, queued>>
             /\ pass.pc \notin {"idle", "patch"}
             /\ pass'.pc \notin {"idle", "patch", "annotation"} /\ pass'.orig = pass.orig
             /\ pass'.st.failed = pass.st.failed /\ pass'.st.shoots = pass.st.shoots
    BY <1>3 DEF ReportHolds
  <1>4. CASE Begin
    <2>1. /\ UNCHANGED <<ci, seen, event>> /\ pass'.orig = seen.st
          /\ pass'.pc \in {"annotation", "shoots"} /\ (pass'.pc = "annotation" => seen.annotated)
          /\ pass'.st.failed = 0 /\ pass'.st.shoots = NewStatus.shoots
      BY <1>4 DEF Begin, Idle, NewStatus
    <2>2. QED
      BY <2>1 DEF ReportHolds
  <1>5. CASE HandleReconcileAnnotation
    <2>1. UNCHANGED <<seen, queued>> /\ pass'.pc = "shoots" /\ pass'.orig = pass.orig /\ pass.pc = "annotation"
      BY <1>1, <1>5 DEF HandleReconcileAnnotation, Pass
    <2>2. ~event' => seen' = ci'
      BY <1>5, <2>1 DEF HandleReconcileAnnotation, WriteCareInstruction, ReportHolds
    <2>3. ~queued' => event'
      BY <1>5, <2>1, AnnotationEvent
    <2>4. QED
      BY <2>1, <2>2, <2>3 DEF ReportHolds
  <1>6. CASE ListShoots
    BY <1>1, <1>3, <1>6 DEF ListShoots, serverVars, Pass, Status
  <1>7. CASE ListClusters
    BY <1>1, <1>3, <1>7 DEF ListClusters, serverVars, Pass, Status
  <1>8. ASSUME NEW n \in Names, AnnotateShoot(n)
        PROVE  ReportHolds'
    <2>1. /\ pass.pc = "forward" /\ pass'.pc \in {"forward", "unannotate"}
          /\ pass'.orig = pass.orig /\ pass'.st = pass.st
      BY <1>1, <1>8 DEF AnnotateShoot, Pass
    <2>2. QED
      BY <1>3, <1>8, <2>1 DEF AnnotateShoot, serverVars
  <1>9. CASE RemoveClusterAnnotation
    <2>1. /\ pass.pc = "unannotate" /\ pass'.pc = "forward"
          /\ pass'.orig = pass.orig /\ pass'.st = pass.st
      BY <1>1, <1>9 DEF RemoveClusterAnnotation, Pass
    <2>2. QED
      BY <1>3, <1>9, <2>1 DEF RemoveClusterAnnotation, serverVars
  <1>10. CASE Compare
    <2>1. UNCHANGED <<ci, seen, event, queued>> /\ pass.pc = "forward"
      BY <1>10 DEF Compare, serverVars
    <2>2. pass'.pc = "patch" /\ pass'.orig = pass.orig
      BY <1>10, ComparisonTypes, ReturnPass
    <2>3. Agrees(pass.st)'
      BY <1>10, CompareAgrees
    <2>4. QED
      BY <2>1, <2>2, <2>3 DEF ReportHolds
  <1>11. CASE CallFails
    <2>1. /\ UNCHANGED <<ci, seen, event, queued>> /\ Return(pass.st, "failed")
          /\ pass.pc \notin {"idle", "patch"}
      BY <1>11 DEF CallFails, serverVars
    <2>2. pass'.pc = "patch" /\ pass'.orig = pass.orig
      BY <2>1, ReturnPass
    <2>3. ASSUME ~queued, ~event
          PROVE  Agrees(pass.st)'
      <3>1. pass.st.failed = 0 /\ pass.st.shoots = [n \in Names |-> None]
        BY <2>1, <2>3 DEF ReportHolds, NewStatus
      <3>2. Listed(pass.st.shoots, "Failed") = {}
        BY <3>1, NoneIsNoStatus DEF Listed, ShootStatus
      <3>3. pass.st.failed = Cardinality(Listed(pass.st.shoots, "Failed"))
        BY <3>1, <3>2, FS_EmptySet
      <3>4. "failed" \in Synced
        BY DEF Synced
      <3>5. QED
        BY <1>1, <2>1, <3>3, <3>4, ReturnMetrics
    <2>4. QED
      BY <2>1, <2>2, <2>3 DEF ReportHolds
  <1>12. CASE PatchStatus
    <2>1. UNCHANGED <<seen, queued, metrics>> /\ pass.pc = "patch" /\ pass'.pc = "idle"
      BY <1>12 DEF PatchStatus, Idle
    <2>2. ~event' => seen' = ci'
      BY <1>12, <2>1 DEF PatchStatus, WriteCareInstruction, ReportHolds
    <2>3. ASSUME ~queued, ~event'
          PROVE  Agrees(ci.st)'
      <3>1. ~event /\ ci' = ci /\ pass.st = ci.st
        BY <1>12, <2>3, QuietPatch
      <3>2. Agrees(ci.st)
        BY <2>1, <2>3, <3>1 DEF ReportHolds
      <3>3. QED
        BY <2>1, <3>1, <3>2 DEF Agrees, metrics, Listed
    <2>4. QED
      BY <2>1, <2>2, <2>3 DEF ReportHolds
  <1>13. CASE PatchStatusFails \/ Deliver \/ Resync \/ Crash
    <2>1. queued' /\ (~event' => seen' = ci')
      BY <1>13 DEF PatchStatusFails, Deliver, Resync, Crash, ReportHolds
    <2>2. QED
      BY <2>1 DEF ReportHolds
  <1>14. CASE AnnotateCareInstruction
    <2>1. UNCHANGED <<seen, queued, pass>>
      BY <1>14 DEF AnnotateCareInstruction
    <2>2. ci \in CareInstruction /\ ~ci.annotated
      BY <1>14 DEF AnnotateCareInstruction, TypeOK
    <2>3. [ci EXCEPT !.annotated = TRUE] # ci
      BY <2>2 DEF CareInstruction
    <2>4. event'
      BY <1>14, <2>3 DEF AnnotateCareInstruction, WriteCareInstruction
    <2>5. QED
      BY <2>1, <2>4 DEF ReportHolds
  <1>15. ASSUME NEW n \in Names, DeliverCluster(n) \/ ShootChanges(n) \/ ClusterChanges(n) \/ AnnotateCluster(n)
         PROVE  ReportHolds'
    BY <1>2, <1>15 DEF DeliverCluster, ShootChanges, ClusterChanges, AnnotateCluster, serverVars
  <1>16. CASE UNCHANGED vars
    BY <1>2, <1>16 DEF vars, serverVars
  <1>17. QED
    BY <1>4, <1>5, <1>6, <1>7, <1>8, <1>9, <1>10, <1>11, <1>12, <1>13, <1>14, <1>15, <1>16
    DEF Next, Step

-----------------------------------------------------------------------------
(* Failures.                                                                *)

LEMMA FailureInit == Init => FailureHolds
  <1> SUFFICES ASSUME Init PROVE FailureHolds
    OBVIOUS
  <1>1. /\ queued /\ pass.pc = "idle" /\ pass.retErr = None
        /\ ci.st.synced = "Unknown" /\ seen.st.synced = "Unknown"
        /\ pass.st.synced = "Unknown" /\ pass.orig.synced = "Unknown"
    BY DEF Init, Idle, NewStatus
  <1>2. None # "failed"
    BY NoneIsNoStatus DEF Synced
  <1>3. QED
    BY <1>1, <1>2 DEF FailureHolds, At

(* The condition that a merge leaves is one of the two it was made from.    *)
LEMMA MergeSynced ==
  ASSUME NEW read, NEW want, NEW server
  PROVE  MergeStatus(read, want, server).synced \in {want.synced, server.synced}
  BY DEF MergeStatus

LEMMA FailureStep ==
  ASSUME TypeOK, ReportHolds, FailureHolds, [Next]_vars
  PROVE  FailureHolds'
  <1> USE DEF At
  <1>1. pass \in Pass /\ pass.st \in Status /\ faults \in Nat
    BY PassTypes DEF TypeOK
  <1>2. None # "failed"
    BY NoneIsNoStatus DEF Synced
  <1>3. Fault => faults' = faults + 1 /\ faults' # 0 /\ (faults' <= 1 => faults = 0)
    BY <1>1 DEF Fault
  (* What does not touch the condition, nor ends the pass. *)
  <1>4. CASE /\ faults' = faults /\ ci'.st = ci.st /\ seen' = seen /\ pass'.pc \notin {"idle", "patch"}
             /\ pass'.orig = pass.orig /\ pass'.retErr \in {pass.retErr, "annotation"}
             /\ pass'.st.synced \in {pass.st.synced, ci.st.synced}
    BY <1>2, <1>4 DEF FailureHolds
  (* What does not touch the pass. *)
  <1>4a. CASE /\ faults' = faults /\ ci'.st = ci.st /\ seen' = seen /\ pass' = pass
              /\ ~queued' /\ ~event' => ~queued /\ ~event
    BY <1>4a DEF FailureHolds
  <1>5. CASE Begin
    <2>1. /\ UNCHANGED <<ci, seen, faults>> /\ pass'.orig = seen.st /\ pass'.retErr = None
          /\ pass'.pc \in {"annotation", "shoots"} /\ pass'.st.synced = seen.st.synced
      BY <1>5 DEF Begin, Idle, NewStatus, bounds
    <2>2. QED
      BY <1>2, <2>1 DEF FailureHolds
  <1>6. CASE HandleReconcileAnnotation
    <2>1. ci'.st = ci.st
      BY <1>6 DEF HandleReconcileAnnotation, WriteCareInstruction, TypeOK, CareInstruction
    <2>2. /\ pass'.pc = "shoots" /\ pass'.orig = pass.orig /\ pass'.retErr = pass.retErr
          /\ pass'.st = ci.st
      BY <1>1, <1>6 DEF HandleReconcileAnnotation, Pass
    <2>3. faults' = faults /\ seen' = seen
      BY <1>6 DEF HandleReconcileAnnotation, bounds
    <2>4. QED
      BY <1>4, <2>1, <2>2, <2>3
  <1>7. CASE ListShoots
    <2>1. /\ pass'.pc = "clusters" /\ pass'.orig = pass.orig /\ pass'.retErr = pass.retErr
          /\ pass'.st.synced = pass.st.synced
      BY <1>1, <1>7 DEF ListShoots, Pass, Status
    <2>2. faults' = faults /\ ci' = ci /\ seen' = seen
      BY <1>7 DEF ListShoots, serverVars, bounds
    <2>3. QED
      BY <1>4, <2>1, <2>2
  <1>8. CASE ListClusters
    <2>1. /\ pass'.pc = "forward" /\ pass'.orig = pass.orig /\ pass'.retErr = pass.retErr
          /\ pass'.st.synced = pass.st.synced
      BY <1>1, <1>8 DEF ListClusters, Pass, Status
    <2>2. faults' = faults /\ ci' = ci /\ seen' = seen
      BY <1>8 DEF ListClusters, serverVars, bounds
    <2>3. QED
      BY <1>4, <2>1, <2>2
  (* A failed call that the pass keeps in mind. *)
  <1>9. CASE /\ Fault /\ UNCHANGED <<ci, seen>>
             /\ pass'.pc \notin {"patch", "idle"} /\ pass'.orig = pass.orig
    BY <1>3, <1>9 DEF FailureHolds
  <1>10. ASSUME NEW n \in Names, AnnotateShoot(n)
         PROVE  FailureHolds'
    <2>1. /\ UNCHANGED <<ci, seen>> /\ pass'.pc \in {"forward", "unannotate"}
          /\ pass'.orig = pass.orig /\ pass'.st = pass.st
      BY <1>1, <1>10 DEF AnnotateShoot, serverVars, Pass
    <2>2. Fault \/ UNCHANGED bounds
      BY <1>10 DEF AnnotateShoot
    <2>3. Fault \/ pass'.retErr \in {pass.retErr, "annotation"}
      BY <1>1, <1>10 DEF AnnotateShoot, Pass
    <2>4. CASE Fault
      BY <1>9, <2>1, <2>4
    <2>5. CASE ~Fault
      BY <1>4, <2>1, <2>2, <2>3, <2>5 DEF bounds
    <2>6. QED
      BY <2>4, <2>5
  <1>11. CASE RemoveClusterAnnotation
    <2>1. /\ UNCHANGED <<ci, seen>> /\ pass'.pc = "forward"
          /\ pass'.orig = pass.orig /\ pass'.st = pass.st
      BY <1>1, <1>11 DEF RemoveClusterAnnotation, serverVars, Pass
    <2>2. Fault \/ UNCHANGED bounds
      BY <1>11 DEF RemoveClusterAnnotation
    <2>3. Fault \/ pass'.retErr \in {pass.retErr, "annotation"}
      BY <1>1, <1>11 DEF RemoveClusterAnnotation, Pass
    <2>4. CASE Fault
      BY <1>9, <2>1, <2>4
    <2>5. CASE ~Fault
      BY <1>4, <2>1, <2>2, <2>3, <2>5 DEF bounds
    <2>6. QED
      BY <2>4, <2>5
  <1>12. CASE Compare
    <2>1. PICK st \in Status, v \in Synced :
            /\ v = CASE pass.retErr # None -> pass.retErr
                     [] pass.retErr = None /\ ~CountsMatch -> "mismatch"
                     [] pass.retErr = None /\ CountsMatch /\ st.failed > 0 -> "notready"
                     [] OTHER -> "True"
            /\ Return(st, v)
      BY <1>12, ComparisonTypes
    <2>2. v = "failed" => pass.retErr = "failed"
      BY <2>1
    <2>3. /\ pass'.pc = "patch" /\ pass'.orig = pass.orig /\ pass'.retErr = None
          /\ pass'.st = [st EXCEPT !.synced = v]
      BY <2>1, ReturnPass
    <2>4. pass'.st.synced = v
      BY <2>3 DEF Status
    <2>5. UNCHANGED <<ci, seen, faults>>
      BY <1>12 DEF Compare, serverVars, bounds
    <2>6. QED
      BY <1>2, <2>2, <2>3, <2>4, <2>5 DEF FailureHolds
  <1>13. CASE CallFails
    <2>1. Fault /\ pass'.pc = "patch" /\ pass'.orig = pass.orig /\ pass'.retErr = None
      BY <1>13, ReturnPass DEF CallFails
    <2>2. QED
      BY <1>2, <1>3, <2>1 DEF FailureHolds
  <1>14. CASE PatchStatus
    <2>1. /\ UNCHANGED <<seen, queued, faults>> /\ pass.pc = "patch"
          /\ pass'.pc = "idle" /\ pass'.retErr = None
          /\ pass'.st.synced = "Unknown" /\ pass'.orig.synced = "Unknown"
      BY <1>14 DEF PatchStatus, Idle, NewStatus, bounds
    <2>2. ci'.st.synced \in {pass.st.synced, ci.st.synced}
      <3>1. ci'.st = MergeStatus(pass.orig, pass.st, ci.st)
        BY <1>14 DEF PatchStatus, WriteCareInstruction, TypeOK, CareInstruction
      <3>2. QED
        BY <3>1, MergeSynced
    <2>3. ASSUME faults <= 1, ~queued, ~event'
          PROVE  ci'.st.synced # "failed"
      <3>1. ci' = ci /\ pass.st = ci.st /\ pass.orig = ci.st
        BY <1>14, <2>3, QuietPatch
      <3>2. QED
        BY <2>1, <2>3, <3>1 DEF FailureHolds
    <2>4. QED
      BY <1>2, <2>1, <2>2, <2>3 DEF FailureHolds
  <1>15. CASE PatchStatusFails \/ Crash
    <2>1. Fault /\ queued' /\ pass'.pc = "idle" /\ pass'.retErr = None
      BY <1>15 DEF PatchStatusFails, Crash, Idle
    <2>2. QED
      BY <1>2, <1>3, <2>1 DEF FailureHolds
  <1>16. CASE Deliver \/ Resync
    <2>1. queued' /\ UNCHANGED <<ci, pass, faults>> /\ seen' \in {seen, ci}
      BY <1>16 DEF Deliver, Resync, bounds
    <2>2. QED
      BY <2>1 DEF FailureHolds
  <1>17. CASE AnnotateCareInstruction
    <2>1. /\ UNCHANGED <<seen, queued, pass, faults>> /\ ci'.st = ci.st /\ (event => event')
      BY <1>17 DEF AnnotateCareInstruction, Edit, WriteCareInstruction, TypeOK, CareInstruction
    <2>2. QED
      BY <1>4a, <2>1
  <1>18. ASSUME NEW n \in Names, DeliverCluster(n) \/ ShootChanges(n) \/ ClusterChanges(n) \/ AnnotateCluster(n)
         PROVE  FailureHolds'
    <2>1. UNCHANGED <<ci, seen, event, pass, faults>>
      BY <1>18 DEF DeliverCluster, ShootChanges, ClusterChanges, AnnotateCluster, Edit, serverVars, bounds
    <2>2. queued => queued'
      BY <1>18 DEF DeliverCluster, ShootChanges, ClusterChanges, AnnotateCluster, serverVars
    <2>3. QED
      BY <1>4a, <2>1, <2>2
  <1>19. CASE UNCHANGED vars
    BY <1>4a, <1>19 DEF vars, serverVars, bounds
  <1>20. QED
    BY <1>5, <1>6, <1>7, <1>8, <1>10, <1>11, <1>12, <1>13, <1>14, <1>15, <1>16, <1>17, <1>18, <1>19
    DEF Next, Step

-----------------------------------------------------------------------------
(* Theorems of the specification.                                           *)

(* Requests, counts, report and failures hold together in every behaviour   *)
(* of reconcileShootsNClusters, whatever fails and however caches lag.      *)
THEOREM ReportInvariant == Spec => []IInv
  <1>1. Init => IInv
    BY TypeInit, RequestInit, ReportInit, FailureInit DEF IInv
  <1>2. IInv /\ [Next]_vars => IInv'
    BY TypeStep, RequestStep, ReportStep, FailureStep DEF IInv
  <1>3. QED
    BY <1>1, <1>2, PTL DEF Spec

(* Every variable of the report keeps its type.                             *)
THEOREM ReportTypes == Spec => []TypeOK
  <1>1. IInv => TypeOK
    BY DEF IInv
  <1>2. QED
    BY <1>1, ReportInvariant, PTL

(* The reconcile annotation of a Cluster stays until its Shoot has been     *)
(* annotated: removeReconcileAnnotation never comes first.                  *)
THEOREM RequestsKept == Spec => []RequestKept
  <1>1. IInv => RequestKept
    BY DEF IInv, RequestHolds
  <1>2. QED
    BY <1>1, ReportInvariant, PTL

(* At rest the status is the status of one pass: counts, list, condition    *)
(* and gauges agree, although the status is written by a merge patch from a *)
(* copy that may be old.                                                    *)
THEOREM RestingReportAgrees == Spec => []AtRestReport
  <1>1. IInv => AtRestReport
    BY DEF IInv, ReportHolds, AtRestReport, AtRest
  <1>2. QED
    BY <1>1, ReportInvariant, PTL

(* A first failed call is followed by another pass, although EnsureCreated  *)
(* keeps the error from the work queue.                                     *)
THEOREM FirstFailureRetried == Spec => []SingleFailureRetried
  <1>1. IInv => SingleFailureRetried
    BY DEF IInv, FailureHolds, SingleFailureRetried, AtRest
  <1>2. QED
    BY <1>1, ReportInvariant, PTL
=============================================================================
