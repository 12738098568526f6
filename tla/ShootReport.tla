---------------------------- MODULE ShootReport ----------------------------
(***************************************************************************)
(* The report of a CareInstruction on its Shoots: reconcileShootsNClusters *)
(* lists Shoots in the garden and Clusters in the cache, forwards the      *)
(* reconcile annotation of Clusters to their Shoots, and writes counts, a  *)
(* status per Shoot and a condition to the CareInstruction and the gauges. *)
(* A failed call ends the pass, but is no error for the work queue. The    *)
(* manager and its restarts are in module GardenManagers.                  *)
(***************************************************************************)
EXTENDS Naturals, FiniteSets

CONSTANTS
  Names,        \* names of Shoots, and of the Clusters made from them
  Me,           \* the CareInstruction
  Other,        \* another one of its namespace
  None,         \* no owner label, no status, no gauge
  MaxEdits,     \* bound: changes made by users, Greenhouse and Gardener
  MaxFaults,    \* bound: failed API calls
  Crashes       \* may the process crash?

ASSUME ConstantsAssumption ==
  /\ IsFiniteSet(Names) /\ None \notin Names
  /\ Me # Other /\ None \notin {Me, Other}
  /\ MaxEdits \in Nat /\ MaxFaults \in Nat /\ Crashes \in BOOLEAN

VARIABLES
  shoot,    \* the Shoots of the garden namespace
  cluster,  \* the Clusters of the CareInstruction's namespace
  owed,     \* Clusters annotated by a user, their Shoot not annotated since
  ci,       \* the CareInstruction on the server: status and annotation
  seen,     \* the CareInstruction in the cache
  event,    \* is an event of the CareInstruction on its way to the cache?
  cache,    \* the Clusters in the cache
  queued,   \* is the CareInstruction in the work queue?
  gauge,    \* counts in the metrics
  onboarded, \* shoot_grafter_shoot_onboarded, by Shoot
  pass,     \* the pass of reconcileShootsNClusters
  edits, faults

worldVars == <<shoot, cluster, owed>>
serverVars == <<ci, seen, event, cache, queued>>
metrics == <<gauge, onboarded>>
bounds == <<edits, faults>>
vars == <<worldVars, serverVars, metrics, pass, bounds>>

-----------------------------------------------------------------------------
(* A Shoot fits the label selector and the CEL expression or not; an        *)
(* expression that cannot be evaluated excludes the Shoot as well.          *)
NoShoot == [exists |-> FALSE, labelled |-> FALSE, matches |-> FALSE]
Shoot == {NoShoot} \cup [exists : {TRUE}, labelled : BOOLEAN, matches : BOOLEAN]

NoCluster == [exists |-> FALSE, owner |-> None, ready |-> FALSE, annotated |-> FALSE]
Cluster == {NoCluster} \cup
  [exists : {TRUE}, owner : {Me, Other, None}, ready : BOOLEAN, annotated : BOOLEAN]

Owned(c) == c.owner = Me

(* The part of CareInstructionStatus this module is about; synced is the    *)
(* condition ShootsReconciled with the reason it is not True.               *)
Synced == {"Unknown", "True", "mismatch", "notready", "annotation", "failed"}
ShootStatus == {"Onboarded", "Failed", "Excluded"}
Status == [total : Nat, created : Nat, failed : Nat,
           shoots : [Names -> ShootStatus \cup {None}], synced : Synced]

ASSUME NoneIsNoStatus == None \notin Synced \cup ShootStatus

CareInstruction == [st : Status, annotated : BOOLEAN]

NewStatus == [total |-> 0, created |-> 0, failed |-> 0,
              shoots |-> [n \in Names |-> None], synced |-> "Unknown"]

(* A merge patch of the status from read to want: fields that differ, and   *)
(* lists as a whole, are replaced.                                          *)
MergeStatus(read, want, server) ==
  LET merge(r, w, s) == IF w = r THEN s ELSE w
  IN  [total   |-> merge(read.total, want.total, server.total),
       created |-> merge(read.created, want.created, server.created),
       failed  |-> merge(read.failed, want.failed, server.failed),
       shoots  |-> merge(read.shoots, want.shoots, server.shoots),
       synced  |-> merge(read.synced, want.synced, server.synced)]

NoMetrics == [total |-> None, created |-> None, failed |-> None]

(* A pass: where it is, the status in memory and as read, the Shoots of the *)
(* label selector, those excluded, the Clusters listed, those whose         *)
(* annotation is still to be forwarded and the one in work, and retErr.     *)
Pass == [pc : {"idle", "annotation", "shoots", "clusters", "forward", "unannotate", "patch"},
         st : Status, orig : Status,
         listed : SUBSET Names, excluded : SUBSET Names, items : [Names -> Cluster],
         todo : SUBSET Names, cur : Names \cup {None}, retErr : {"annotation", "failed", None}]

Idle == [pc |-> "idle", st |-> NewStatus, orig |-> NewStatus,
         listed |-> {}, excluded |-> {}, items |-> [n \in Names |-> NoCluster],
         todo |-> {}, cur |-> None, retErr |-> None]

(* The CareInstruction is new; there may be Shoots, and Clusters that were  *)
(* made before.                                                             *)
Init ==
  /\ shoot \in [Names -> {s \in Shoot : s.exists => s.labelled /\ s.matches}]
  /\ cluster \in [Names -> {c \in Cluster : c.exists => c.ready /\ c.owner = Me /\ ~c.annotated}]
  /\ owed = {n \in Names : cluster[n].annotated}
  /\ ci = [st |-> NewStatus, annotated |-> FALSE]
  /\ seen = ci /\ event = FALSE
  /\ cache = cluster
  /\ queued = TRUE
  /\ gauge = NoMetrics
  /\ onboarded = [n \in Names |-> None]
  /\ pass = Idle
  /\ edits = 0 /\ faults = 0

Fault == faults < MaxFaults /\ faults' = faults + 1 /\ UNCHANGED edits

At(pc) == pass.pc = pc

(* A write of the CareInstruction; one that changes something is an event.  *)
WriteCareInstruction(new) ==
  /\ ci' = new
  /\ event' = (event \/ new # ci)

-----------------------------------------------------------------------------
(* Mutant: the gauges are set at the end of the function, which an error of *)
(* a call does not reach.                                                   *)
UpdateMetricsAtEnd(st) ==
  LET reached == st.synced # "failed"
  IN  /\ gauge' = IF reached
                  THEN [total |-> st.total, created |-> st.created, failed |-> st.failed]
                  ELSE gauge
      /\ onboarded' = [n \in Names |->
           IF ~reached \/ st.shoots[n] = None THEN onboarded[n]
           ELSE IF st.shoots[n] = "Onboarded" THEN 1 ELSE 0]

(* UpdateCareInstructionMetrics, deferred: it runs with the status in       *)
(* memory however the pass ends. Shoots that are not listed keep theirs.    *)
UpdateCareInstructionMetrics(st) ==
  /\ gauge' = [total |-> st.total, created |-> st.created, failed |-> st.failed]
  /\ onboarded' = [n \in Names |->
       IF st.shoots[n] = None THEN onboarded[n]
       ELSE IF st.shoots[n] = "Onboarded" THEN 1 ELSE 0]

(* reconcileShootsNClusters returns, with an error unless synced is True;   *)
(* EnsureCreated sets the condition and reports success either way.         *)
Return(st, synced) ==
  LET final == [st EXCEPT !.synced = synced]
  IN  /\ UpdateCareInstructionMetrics(final)
      /\ pass' = [Idle EXCEPT !.pc = "patch", !.orig = pass.orig, !.st = final]

(* A pass begins on the cached CareInstruction and zeroes its counts.       *)
Begin ==
  /\ At("idle") /\ queued
  /\ queued' = FALSE
  /\ pass' = [Idle EXCEPT !.pc = IF seen.annotated THEN "annotation" ELSE "shoots",
                          !.orig = seen.st,
                          !.st = [NewStatus EXCEPT !.synced = seen.st.synced]]
  /\ UNCHANGED <<worldVars, ci, seen, event, cache, metrics, bounds>>

(* The CareInstruction's own annotation is taken off; the answer to the     *)
(* patch replaces the status in memory, zeroed counts included.             *)
HandleReconcileAnnotation ==
  /\ At("annotation")
  /\ WriteCareInstruction([ci EXCEPT !.annotated = FALSE])
  /\ pass' = [pass EXCEPT !.pc = "shoots", !.st = ci.st]
  /\ UNCHANGED <<worldVars, seen, cache, queued, metrics, bounds>>

(* What the label selector and the CEL expression say of a Shoot.           *)
Selected(n) == shoot[n].exists /\ shoot[n].labelled

MatchesCELFilter(n) == shoot[n].matches

(* Mutant: the expression is evaluated on Shoots of any labels, and what it *)
(* excludes is taken off the total.                                         *)
ListShootsExcludingAny ==
  LET listed == {n \in Names : Selected(n)}
      excluded == {n \in Names : shoot[n].exists /\ ~MatchesCELFilter(n)}
  IN  /\ At("shoots")
      /\ pass' = [pass EXCEPT !.pc = "clusters", !.listed = listed, !.excluded = excluded,
                              !.st.total = Cardinality(listed) - Cardinality(excluded)]
      /\ UNCHANGED <<worldVars, serverVars, metrics, bounds>>

(* The Shoots in the garden, those that the expression excludes apart.      *)
ListShoots ==
  LET listed == {n \in Names : Selected(n)}
  IN  /\ At("shoots")
      /\ pass' = [pass EXCEPT !.pc = "clusters", !.listed = listed,
                              !.excluded = {n \in listed : ~MatchesCELFilter(n)},
                              !.st.total = Cardinality(listed)]
      /\ UNCHANGED <<worldVars, serverVars, metrics, bounds>>

(* Mutant: annotations are forwarded for the included Shoots only.          *)
ListClustersOfIncluded ==
  LET owned == {n \in Names : Owned(cache[n])}
      included == pass.listed \ pass.excluded
  IN  /\ At("clusters")
      /\ pass' = [pass EXCEPT !.pc = "forward",
                              !.items = [n \in Names |-> IF n \in owned THEN cache[n] ELSE NoCluster],
                              !.todo = {n \in owned \cap included : cache[n].annotated},
                              !.st.created = Cardinality(owned)]
      /\ UNCHANGED <<worldVars, serverVars, metrics, bounds>>

(* ListClusters, from the cache: those that carry the label.                *)
ListClusters ==
  LET owned == {n \in Names : Owned(cache[n])}
  IN  /\ At("clusters")
      /\ pass' = [pass EXCEPT !.pc = "forward",
                              !.items = [n \in Names |-> IF n \in owned THEN cache[n] ELSE NoCluster],
                              !.todo = {n \in owned : cache[n].annotated},
                              !.st.created = Cardinality(owned)]
      /\ UNCHANGED <<worldVars, serverVars, metrics, bounds>>

-----------------------------------------------------------------------------
(* Reconcile annotations of Clusters.                                       *)

(* Mutant: the annotation goes whether the Shoot was annotated or not.      *)
AnnotateShootUnchecked(n) ==
  /\ At("forward") /\ n \in pass.todo
  /\ pass' = [pass EXCEPT !.pc = "unannotate", !.todo = @ \ {n}, !.cur = n]
  /\ owed' = IF shoot[n].exists THEN owed \ {n} ELSE owed
  /\ UNCHANGED <<shoot, cluster, serverVars, metrics, bounds>>

(* AnnotateShootForReconcile: if the Shoot is not there or a call fails,    *)
(* the error is kept and the next Cluster is looked at.                     *)
AnnotateShoot(n) ==
  /\ At("forward") /\ n \in pass.todo
  /\ \/ /\ shoot[n].exists
        /\ owed' = owed \ {n}
        /\ pass' = [pass EXCEPT !.pc = "unannotate", !.todo = @ \ {n}, !.cur = n]
        /\ UNCHANGED bounds
     \/ /\ ~shoot[n].exists
        /\ pass' = [pass EXCEPT !.todo = @ \ {n}, !.retErr = "annotation"]
        /\ UNCHANGED <<owed, bounds>>
     \/ /\ Fault
        /\ pass' = [pass EXCEPT !.todo = @ \ {n}, !.retErr = "failed"]
        /\ UNCHANGED owed
  /\ UNCHANGED <<shoot, cluster, serverVars, metrics>>

(* The patch of the Cluster; its answer replaces the listed Cluster.        *)
RemoveClusterAnnotation ==
  LET n == pass.cur
      new == [cluster[n] EXCEPT !.annotated = FALSE]
  IN  /\ At("unannotate")
      /\ \/ /\ cluster[n].exists
            /\ cluster' = [cluster EXCEPT ![n] = new]
            /\ pass' = [pass EXCEPT !.pc = "forward", !.items[n] = new, !.cur = None]
            /\ UNCHANGED bounds
         \/ /\ ~cluster[n].exists
            /\ pass' = [pass EXCEPT !.pc = "forward", !.retErr = "annotation", !.cur = None]
            /\ UNCHANGED <<cluster, bounds>>
         \/ /\ Fault
            /\ pass' = [pass EXCEPT !.pc = "forward", !.retErr = "failed", !.cur = None]
            /\ UNCHANGED cluster
      /\ UNCHANGED <<shoot, owed, serverVars, metrics>>

-----------------------------------------------------------------------------
(* The comparison.                                                          *)

Included == pass.listed \ pass.excluded

CountsMatch == \A n \in Included : pass.items[n].exists

(* Clusters of included Shoots that another CareInstruction owns; they are  *)
(* looked up one by one, in the cache.                                      *)
Conflicts ==
  {n \in Included : /\ ~pass.items[n].exists
                    /\ cache[n].exists /\ cache[n].owner \notin {None, Me}}

(* A failing patch of the annotation, list, Get of the ConfigMap or Get of  *)
(* the conflict check ends the pass.                                        *)
CallFails ==
  /\ \/ At("annotation") \/ At("shoots") \/ At("clusters")
     \/ At("forward") /\ pass.todo = {} /\ ~CountsMatch
  /\ Fault
  /\ Return(pass.st, "failed")
  /\ UNCHANGED <<worldVars, serverVars>>

(* Mutant: a Shoot with a Cluster is Onboarded or Failed, excluded or not.  *)
RankClustersFirst(status) ==
  CASE status = "Failed" -> 2 [] status = "Onboarded" -> 1 [] OTHER -> 0

ShootStatusRank(status) ==
  CASE status = "Excluded" -> 2 [] status = "Failed" -> 1 [] OTHER -> 0

(* The entries for a name: excluded, owned, or owned by another.            *)
StatusEntries(n) ==
  LET ready(r) == IF r THEN "Onboarded" ELSE "Failed"
  IN  {s \in {"Excluded"} : n \in pass.excluded}
        \cup {s \in {ready(pass.items[n].ready)} : pass.items[n].exists}
        \cup {s \in {ready(cache[n].ready)} : n \in Conflicts}

Highest(S) == CHOOSE s \in S : \A t \in S : ShootStatusRank(t) <= ShootStatusRank(s)

(* buildShootStatuses: one entry per name, the one of the highest rank.     *)
BuildShootStatuses ==
  [n \in Names |-> IF StatusEntries(n) = {} THEN None ELSE Highest(StatusEntries(n))]

Listed(statuses, s) == {n \in Names : statuses[n] = s}

Compare ==
  LET statuses == BuildShootStatuses
      failed == Cardinality(Listed(statuses, "Failed"))
  IN  /\ At("forward") /\ pass.todo = {}
      /\ Return([pass.st EXCEPT !.shoots = statuses, !.failed = failed],
                CASE pass.retErr # None -> pass.retErr
                  [] pass.retErr = None /\ ~CountsMatch -> "mismatch"
                  [] pass.retErr = None /\ CountsMatch /\ failed > 0 -> "notready"
                  [] OTHER -> "True")
      /\ UNCHANGED <<worldVars, serverVars, bounds>>

-----------------------------------------------------------------------------
(* The status patch, the cache, the watches.                                *)

PatchStatus ==
  /\ At("patch")
  /\ WriteCareInstruction([ci EXCEPT !.st = MergeStatus(pass.orig, pass.st, @)])
  /\ pass' = Idle
  /\ UNCHANGED <<worldVars, seen, cache, queued, metrics, bounds>>

(* This error does reach the work queue.                                    *)
PatchStatusFails ==
  /\ At("patch")
  /\ Fault
  /\ pass' = Idle
  /\ queued' = TRUE
  /\ UNCHANGED <<worldVars, ci, seen, event, cache, metrics>>

(* Mutant: events that change the status only are filtered out.             *)
DeliverWithoutStatus ==
  /\ event /\ event' = FALSE
  /\ seen' = ci
  /\ queued' = (queued \/ seen.annotated # ci.annotated)
  /\ UNCHANGED <<worldVars, ci, cache, metrics, pass, bounds>>

(* The CareInstruction is watched without a predicate.                      *)
Deliver ==
  /\ event /\ event' = FALSE
  /\ seen' = ci
  /\ queued' = TRUE
  /\ UNCHANGED <<worldVars, ci, cache, metrics, pass, bounds>>

(* An event of a Cluster passes PredicateHasLabel if the Cluster, as it is  *)
(* now or was when deleted, has an owner; then its owners before and after  *)
(* are enqueued.                                                            *)
EnqueueForCreatedClusters(old, new) ==
  LET last == IF new.exists THEN new ELSE old
  IN  last.owner # None /\ Me \in {old.owner, new.owner}

DeliverCluster(n) ==
  /\ cache[n] # cluster[n]
  /\ cache' = [cache EXCEPT ![n] = cluster[n]]
  /\ queued' = (queued \/ EnqueueForCreatedClusters(cache[n], cluster[n]))
  /\ UNCHANGED <<worldVars, ci, seen, event, metrics, pass, bounds>>

AtRest ==
  /\ At("idle") /\ ~queued
  /\ ~event /\ cache = cluster

(* The informers list their objects again from time to time.                *)
Resync ==
  /\ AtRest
  /\ queued' = TRUE
  /\ UNCHANGED <<worldVars, ci, seen, event, cache, metrics, pass, bounds>>

(* The process restarts: its metrics, its cache and its queue are new.      *)
Crash ==
  /\ Crashes
  /\ Fault
  /\ pass' = Idle
  /\ seen' = ci /\ event' = FALSE /\ cache' = cluster /\ queued' = TRUE
  /\ gauge' = NoMetrics /\ onboarded' = [n \in Names |-> None]
  /\ UNCHANGED <<worldVars, ci>>

-----------------------------------------------------------------------------
(* Users, Gardener and Greenhouse.                                          *)

Edit == edits < MaxEdits /\ edits' = edits + 1 /\ UNCHANGED faults

(* A Shoot is created, deleted, relabelled, or changes so that the CEL      *)
(* expression has another value.                                            *)
ShootChanges(n) ==
  /\ Edit
  /\ \E new \in Shoot :
       /\ \/ ~shoot[n].exists /\ new.labelled
          \/ shoot[n].exists /\ ~new.exists
          \/ shoot[n].exists /\ new = [shoot[n] EXCEPT !.labelled = ~@]
          \/ shoot[n].exists /\ new = [shoot[n] EXCEPT !.matches = ~@]
       /\ shoot' = [shoot EXCEPT ![n] = new]
  /\ UNCHANGED <<cluster, owed, serverVars, metrics, pass>>

(* A Cluster is made for an owner, changes its owner, becomes ready or      *)
(* unready, or is deleted.                                                  *)
ClusterChanges(n) ==
  /\ Edit
  /\ \E new \in Cluster \ {cluster[n]} :
       /\ \/ ~cluster[n].exists /\ ~new.ready /\ ~new.annotated /\ new.owner # None
          \/ cluster[n].exists /\ \E o \in {Me, Other, None} : new = [cluster[n] EXCEPT !.owner = o]
          \/ cluster[n].exists /\ new = [cluster[n] EXCEPT !.ready = ~@]
          \/ cluster[n].exists /\ ~new.exists
       /\ cluster' = [cluster EXCEPT ![n] = new]
       /\ owed' = IF new.exists THEN owed ELSE owed \ {n}
  /\ UNCHANGED <<shoot, serverVars, metrics, pass>>

(* A request made between the two patches of a pass is answered by the      *)
(* first of them.                                                           *)
AnnotateCluster(n) ==
  /\ Edit
  /\ cluster[n].exists /\ ~cluster[n].annotated
  /\ cluster' = [cluster EXCEPT ![n].annotated = TRUE]
  /\ owed' = IF pass.cur = n THEN owed ELSE owed \cup {n}
  /\ UNCHANGED <<shoot, serverVars, metrics, pass>>

AnnotateCareInstruction ==
  /\ Edit
  /\ ~ci.annotated
  /\ WriteCareInstruction([ci EXCEPT !.annotated = TRUE])
  /\ UNCHANGED <<worldVars, seen, cache, queued, metrics, pass>>

-----------------------------------------------------------------------------
Step ==
  \/ Begin \/ HandleReconcileAnnotation \/ ListShoots \/ ListClusters
  \/ \E n \in Names : AnnotateShoot(n)
  \/ RemoveClusterAnnotation \/ Compare \/ PatchStatus

Next ==
  \/ Step \/ CallFails \/ PatchStatusFails
  \/ Deliver \/ Resync \/ Crash \/ AnnotateCareInstruction
  \/ \E n \in Names : DeliverCluster(n) \/ ShootChanges(n) \/ ClusterChanges(n) \/ AnnotateCluster(n)

Spec == Init /\ [][Next]_vars

(* The worker works, the watches deliver, and the informers resync.         *)
Fairness ==
  /\ WF_vars(Step) /\ WF_vars(Deliver) /\ WF_vars(Resync)
  /\ \A n \in Names : WF_vars(DeliverCluster(n))

FairSpec == Spec /\ Fairness

-----------------------------------------------------------------------------
(* The variables have their types.                                          *)
TypeOK ==
  /\ shoot \in [Names -> Shoot] /\ cluster \in [Names -> Cluster] /\ owed \subseteq Names
  /\ ci \in CareInstruction /\ seen \in CareInstruction /\ event \in BOOLEAN
  /\ cache \in [Names -> Cluster] /\ queued \in BOOLEAN
  /\ gauge = NoMetrics \/ gauge \in [total : Nat, created : Nat, failed : Nat]
  /\ onboarded \in [Names -> {None, 0, 1}]
  /\ pass \in Pass
  /\ edits \in 0 .. MaxEdits /\ faults \in 0 .. MaxFaults

(* What the documentation says the report is, from the Shoots and Clusters  *)
(* as they are.                                                             *)
Truth ==
  LET selected == {n \in Names : shoot[n].exists /\ shoot[n].labelled}
      included == {n \in selected : shoot[n].matches}
      owned == {n \in Names : cluster[n].exists /\ Owned(cluster[n])}
      claimed == {n \in Names : cluster[n].exists /\ cluster[n].owner = Other}
      listed == owned \cup (included \cap claimed)
      status(n) == IF n \in selected \ included THEN "Excluded"
                   ELSE IF n \notin listed THEN None
                   ELSE IF cluster[n].ready THEN "Onboarded" ELSE "Failed"
      failed == {n \in Names : status(n) = "Failed"}
  IN  [total |-> Cardinality(selected), created |-> Cardinality(owned),
       failed |-> Cardinality(failed), shoots |-> [n \in Names |-> status(n)],
       synced |-> IF \E n \in owned : cluster[n].annotated THEN "annotation"
                  ELSE IF ~(included \subseteq owned) THEN "mismatch"
                  ELSE IF failed # {} THEN "notready" ELSE "True"]

(* When the Shoots and Clusters stay as they are and calls succeed, the     *)
(* status comes to say what is there, in spite of failed calls that are not *)
(* retried, of Shoots that are not watched and of a status written half-way. *)
ReportConverges == <>[](ci.st = Truth)

(* A status of one pass: its counts fit the list of Shoots and the          *)
(* condition, and the gauges have its values.                               *)
Agrees(st) ==
  /\ st.failed = Cardinality(Listed(st.shoots, "Failed"))
  /\ st.synced = "True" =>
       st.failed = 0 /\ st.total <= st.created + Cardinality(Listed(st.shoots, "Excluded"))
  /\ gauge = [total |-> st.total, created |-> st.created, failed |-> st.failed]
  /\ \A n \in Names : st.shoots[n] # None =>
       onboarded[n] = IF st.shoots[n] = "Onboarded" THEN 1 ELSE 0

(* At rest, status and metrics tell the same story, of one pass, whatever   *)
(* mixture of two passes was written before.                                *)
AtRestReport == AtRest => Agrees(ci.st)

(* "will retry": the error of a pass is not returned to the work queue, yet *)
(* after a single failed call the report does not stay with the error and   *)
(* the zeroed counts, as the status write itself leads to the next pass.    *)
SingleFailureRetried == AtRest /\ faults <= 1 => ci.st.synced # "failed"

(* The annotation of a Cluster is not taken off before its Shoot has been   *)
(* annotated, whatever fails in between.                                    *)
RequestKept == \A n \in owed : cluster[n].annotated

(* Every request on an owned Cluster reaches its Shoot, if there is one.    *)
RequestForwarded ==
  <>[](\A n \in Names : Owned(cluster[n]) /\ cluster[n].annotated => ~shoot[n].exists)

-----------------------------------------------------------------------------
(* The inductive invariant behind the safety theorems.                      *)

(* The Cluster in work has been answered for, and is one of those listed.   *)
RequestHolds ==
  /\ RequestKept
  /\ At("unannotate") => pass.cur \in Names \ owed /\ pass.items[pass.cur].exists
  /\ ~At("unannotate") => pass.cur = None
  /\ \A n \in pass.todo : pass.items[n].exists

(* The counts in memory are those of the sets listed.                       *)
CountHolds ==
  /\ pass.excluded \subseteq pass.listed
  /\ pass.pc \in {"clusters", "forward", "unannotate"} =>
       pass.st.total = Cardinality(pass.listed)
  /\ pass.pc \in {"forward", "unannotate"} =>
       pass.st.created = Cardinality({n \in Names : pass.items[n].exists})

(* As long as nothing calls for another pass, the cache is up to date, this *)
(* pass read it and zeroed its status, and what it leaves agrees.           *)
ReportHolds ==
  /\ ~event => seen = ci
  /\ ~queued /\ ~At("idle") => pass.orig = seen.st
  /\ ~queued /\ At("annotation") => seen.annotated
  /\ ~queued /\ ~event =>
       /\ pass.pc \notin {"idle", "patch"} =>
            pass.st.failed = 0 /\ pass.st.shoots = NewStatus.shoots
       /\ At("patch") => Agrees(pass.st)
       /\ At("idle") => Agrees(ci.st)

(* A first failure shows up in a status that did not have one before.       *)
FailureHolds ==
  /\ faults = 0 =>
       "failed" \notin {ci.st.synced, seen.st.synced, pass.st.synced, pass.orig.synced,
                        pass.retErr}
  /\ faults <= 1 =>
       /\ pass.retErr = "failed" => pass.orig.synced # "failed"
       /\ At("patch") /\ pass.st.synced = "failed" => pass.orig.synced # "failed"
       /\ At("idle") /\ ~queued /\ ~event => ci.st.synced # "failed"

(* Requests, counts, report and failures: what every step preserves,        *)
(* through failed calls, crashes and a cache that lags.                     *)
IInv == TypeOK /\ RequestHolds /\ CountHolds /\ ReportHolds /\ FailureHolds
=============================================================================
