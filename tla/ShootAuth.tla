----------------------------- MODULE ShootAuth -----------------------------
(***************************************************************************)
(* The OIDC configuration of the Shoots of one CareInstruction: its shoot  *)
(* controller copies the Greenhouse AuthenticationConfiguration into       *)
(* ConfigMaps of the garden, points the Shoots at them and asks Gardener   *)
(* to reconcile the Shoots. A change of the Greenhouse ConfigMap replaces  *)
(* the controller; the old one may still finish the pass it is in.         *)
(***************************************************************************)
EXTENDS Naturals, FiniteSets

CONSTANTS
  Shoots,       \* the Shoots that the CareInstruction selects
  Names,        \* names of ConfigMaps in the garden namespace
  Default,      \* <CareInstruction>-greenhouse-auth
  FirstRef,     \* the ConfigMap that its owner gave a Shoot, or None
  Contents,     \* what config.yaml may hold
  Foreign,      \* what others write into a ConfigMap of the garden
  None,         \* no reference, no ConfigMap, no content
  Controllers,  \* incarnations of the shoot controller
  First,        \* the one that runs at the start
  Tampering,    \* may others edit the ConfigMaps and references of the garden?
  Overlap,      \* may a controller be replaced in the middle of a pass?
  MaxEdits,     \* bound: changes made by users, and failed API calls
  MaxFaults     \* bound: the failed API calls among them

ASSUME ConstantsAssumption ==
  /\ Default \in Names /\ FirstRef \in [Shoots -> {None} \cup (Names \ {Default})]
  /\ First \in Controllers /\ Contents # {}
  /\ None \notin Names /\ None \notin Contents \cup {Foreign} /\ Foreign \notin Contents
  /\ Tampering \in BOOLEAN /\ Overlap \in BOOLEAN
  /\ MaxEdits \in Nat /\ MaxFaults \in Nat

VARIABLES
  auth,     \* config.yaml of the Greenhouse ConfigMap, None if missing or empty
  hash,     \* the content the CareInstruction controller last compared it with
  due,      \* is a reconcile of the CareInstruction due?
  astray,   \* has the live controller read another content than that of hash?
  cm,       \* by name: config.yaml, and whether the CareInstruction label is set
  shoot,    \* the Shoots: reference, CareInstruction label, operation annotation
  spec,     \* Shoots whose spec changed since Gardener reconciled them
  applied,  \* the content Gardener configured a Shoot's API server with
  live,     \* the controller that takes requests
  queue,    \* its work queue
  work,     \* what each controller is doing
  edits, faults

gardenVars == <<cm, shoot, spec, applied>>
controllerVars == <<live, queue, work>>
reconcilerVars == <<hash, due, astray>>
vars == <<auth, reconcilerVars, gardenVars, controllerVars, edits, faults>>

ConfigMap == [content : Contents \cup {Foreign, None}, labelled : BOOLEAN]

NoConfigMap == [content |-> None, labelled |-> FALSE]

Shoot == [ref : Names \cup {None}, labelled : BOOLEAN, operation : BOOLEAN]

(* A pass: the step it is at, its Shoot as last read from the garden, the   *)
(* content until it is written, the name of the ConfigMap, and whether      *)
(* CreateOrUpdate changed data.                                             *)
Pass == [pc : {"idle", "read", "configmap", "label", "spec"},
         shoot : Shoots \cup {None}, read : Shoot \cup {None}, content : Contents \cup {None},
         name : Names \cup {None}, changed : BOOLEAN]

Idle == [pc |-> "idle", shoot |-> None, read |-> None, content |-> None,
         name |-> None, changed |-> FALSE]

(* The contents are interchangeable, so one of them is the first.           *)
Init ==
  /\ auth = CHOOSE c \in Contents : TRUE
  /\ hash = auth /\ due = FALSE /\ astray = FALSE
  /\ cm = [n \in Names |-> IF n = Default THEN NoConfigMap
                           ELSE [content |-> Foreign, labelled |-> FALSE]]
  /\ shoot = [s \in Shoots |-> [ref |-> FirstRef[s], labelled |-> FALSE, operation |-> FALSE]]
  /\ spec = {}
  /\ applied = [s \in Shoots |-> None]
  /\ live = First
  /\ queue = Shoots
  /\ work = [w \in Controllers |-> Idle]
  /\ edits = 0
  /\ faults = 0

Edit == edits + faults < MaxEdits /\ edits' = edits + 1 /\ UNCHANGED faults

Fault ==
  /\ faults < MaxFaults /\ edits + faults < MaxEdits
  /\ faults' = faults + 1 /\ UNCHANGED edits

NoFault == UNCHANGED <<edits, faults>>

-----------------------------------------------------------------------------
(* ConfigureOIDCAuthentication.                                             *)

(* Mutant: the pass does not keep the key of its request.                   *)
BeginWithoutKey(s) ==
  /\ work[live].pc = "idle" /\ s \in queue
  /\ queue' = queue \ {s}
  /\ work' = [work EXCEPT ![live] = [Idle EXCEPT !.pc = "read", !.read = shoot[s]]]
  /\ NoFault
  /\ UNCHANGED <<auth, gardenVars, live, reconcilerVars>>

(* The live controller takes a Shoot off its queue and reads it.            *)
Begin(s) ==
  /\ work[live].pc = "idle" /\ s \in queue
  /\ queue' = queue \ {s}
  /\ work' = [work EXCEPT ![live] = [Idle EXCEPT !.pc = "read", !.shoot = s, !.read = shoot[s]]]
  /\ NoFault
  /\ UNCHANGED <<auth, gardenVars, live, reconcilerVars>>

Current(w) == work[w].shoot

Finish(w) == work' = [work EXCEPT ![w] = Idle]

(* Mutant: a request whose pass failed is not put back.                     *)
RetryNever(w) == queue

(* An error brings the request back, to the queue of this controller: the   *)
(* queue of one that was replaced is shut down.                             *)
RetryQueue(w) == IF w = live THEN queue \cup {Current(w)} ELSE queue

(* Preserve an existing reference, otherwise use the default name.          *)
ConfigMapName(s) == IF s.ref # None THEN s.ref ELSE Default

(* Mutant: an empty config.yaml is copied like any other.                   *)
ReadGreenhouseConfigMapUnchecked(w) ==
  /\ work[w].pc = "read"
  /\ work' = [work EXCEPT ![w].pc = "configmap", ![w].content = auth,
                          ![w].name = ConfigMapName(work[w].read)]
  /\ astray' = (astray \/ (w = live /\ auth # hash))
  /\ NoFault
  /\ UNCHANGED <<auth, gardenVars, live, queue, hash, due>>

(* A missing ConfigMap or an empty config.yaml is an error. The label of    *)
(* the ConfigMap concerns GardenManagers only.                              *)
ReadGreenhouseConfigMap(w) ==
  /\ work[w].pc = "read"
  /\ \/ /\ auth # None
        /\ work' = [work EXCEPT ![w].pc = "configmap", ![w].content = auth,
                                ![w].name = ConfigMapName(work[w].read)]
        /\ astray' = (astray \/ (w = live /\ auth # hash))
        /\ UNCHANGED queue
     \/ /\ auth = None
        /\ Finish(w)
        /\ queue' = RetryQueue(w)
        /\ UNCHANGED astray
  /\ NoFault
  /\ UNCHANGED <<auth, gardenVars, live, hash, due>>

(* Mutant: nobody watches the ConfigMaps of the garden.                     *)
EnqueueNone(old, new) == {}

(* The watch of labelled ConfigMaps, filtered by PredicateConfigMapData-    *)
(* Changed, and EnqueueShoots: the labelled Shoots, for the live controller. *)
EnqueueShoots(old, new) ==
  {s \in Shoots : new.labelled /\ old.content # new.content /\ shoot[s].labelled}

(* Mutants: an existing ConfigMap is left alone; only the creation of a     *)
(* ConfigMap counts as a change.                                            *)
CreateGardenConfigMap(w) ==
  LET n == work[w].name
      new == [content |-> work[w].content, labelled |-> TRUE]
  IN  /\ work[w].pc = "configmap"
      /\ cm' = [cm EXCEPT ![n] = IF @ = NoConfigMap THEN new ELSE @]
      /\ work' = [work EXCEPT ![w].pc = "label", ![w].content = None,
                              ![w].changed = cm[n] = NoConfigMap]
      /\ NoFault
      /\ UNCHANGED <<auth, shoot, spec, applied, live, queue, reconcilerVars>>

WriteNoticingCreation(w) ==
  LET n == work[w].name
      new == [content |-> work[w].content, labelled |-> TRUE]
  IN  /\ work[w].pc = "configmap"
      /\ cm' = [cm EXCEPT ![n] = new]
      /\ queue' = queue \cup EnqueueShoots(cm[n], new)
      /\ work' = [work EXCEPT ![w].pc = "label", ![w].content = None,
                              ![w].changed = cm[n] = NoConfigMap]
      /\ NoFault
      /\ UNCHANGED <<auth, shoot, spec, applied, live, reconcilerVars>>

(* CreateOrUpdate: nothing is written if nothing differs.                   *)
WriteGardenConfigMap(w) ==
  LET n == work[w].name
      new == [content |-> work[w].content, labelled |-> TRUE]
  IN  /\ work[w].pc = "configmap"
      /\ cm' = [cm EXCEPT ![n] = new]
      /\ queue' = queue \cup EnqueueShoots(cm[n], new)
      /\ work' = [work EXCEPT ![w].pc = "label", ![w].content = None,
                              ![w].changed = cm[n] # new]
      /\ NoFault
      /\ UNCHANGED <<auth, shoot, spec, applied, live, reconcilerVars>>

(* A write of a Shoot, whose event brings it back.                          *)
ShootBecomes(s, new) ==
  /\ shoot' = [shoot EXCEPT ![s] = new]
  /\ queue' = queue \cup (IF new # shoot[s] THEN {s} ELSE {})

(* A merge patch of the label, judged on the Shoot as read; the answer of   *)
(* the server, with all its changes, replaces what was read.                *)
LabelShoot(w) ==
  LET s == Current(w)
      new == [shoot[s] EXCEPT !.labelled = TRUE]
  IN  /\ work[w].pc = "label"
      /\ \/ /\ ~work[w].read.labelled
            /\ ShootBecomes(s, new)
            /\ work' = [work EXCEPT ![w].pc = "spec", ![w].read = new]
         \/ /\ work[w].read.labelled
            /\ work' = [work EXCEPT ![w].pc = "spec"]
            /\ UNCHANGED <<shoot, queue>>
      /\ NoFault
      /\ UNCHANGED <<auth, cm, spec, applied, live, reconcilerVars>>

NeedsUpdate(w) == work[w].read.ref # work[w].name

(* Update is refused if the Shoot changed since it was read.                *)
UpdateShootSpec(w) ==
  LET s == Current(w)
  IN  /\ work[w].pc = "spec" /\ NeedsUpdate(w)
      /\ \/ /\ work[w].read = shoot[s]
            /\ ShootBecomes(s, [shoot[s] EXCEPT !.ref = work[w].name])
            /\ spec' = spec \cup {s}
         \/ /\ work[w].read # shoot[s]
            /\ queue' = RetryQueue(w)
            /\ UNCHANGED <<shoot, spec>>
      /\ Finish(w)
      /\ NoFault
      /\ UNCHANGED <<auth, cm, applied, live, reconcilerVars>>

(* Gardener is asked to reconcile only by the pass that changed the         *)
(* ConfigMap.                                                               *)
AnnotateShootForReconcile(w) ==
  LET s == Current(w)
  IN  /\ work[w].pc = "spec" /\ ~NeedsUpdate(w)
      /\ \/ /\ work[w].changed
            /\ ShootBecomes(s, [shoot[s] EXCEPT !.operation = TRUE])
         \/ ~work[w].changed /\ UNCHANGED <<shoot, queue>>
      /\ Finish(w)
      /\ NoFault
      /\ UNCHANGED <<auth, cm, spec, applied, live, reconcilerVars>>

(* A call to one of the API servers fails.                                  *)
PassFails(w) ==
  /\ work[w].pc # "idle"
  /\ Fault
  /\ queue' = RetryQueue(w)
  /\ Finish(w)
  /\ UNCHANGED <<auth, gardenVars, live, reconcilerVars>>

(* The context of a controller that was replaced is cancelled: its pass may *)
(* end at any call, or be at its last one already.                          *)
PassAborted(w) ==
  /\ w # live /\ work[w].pc # "idle"
  /\ Finish(w)
  /\ NoFault
  /\ UNCHANGED <<auth, gardenVars, live, queue, reconcilerVars>>

-----------------------------------------------------------------------------
(* The CareInstruction controller finds another content than at its last    *)
(* reconcile and replaces the shoot controller (module GardenManagers); the *)
(* new one lists all Shoots.                                                *)
RestartShootController(w) ==
  /\ due /\ auth # hash
  /\ w # live /\ work[w].pc = "idle"
  /\ Overlap \/ work[live].pc = "idle"
  /\ live' = w
  /\ queue' = Shoots
  /\ hash' = auth /\ due' = FALSE /\ astray' = FALSE
  /\ UNCHANGED <<auth, gardenVars, work, edits, faults>>

(* It finds the same content, or no ConfigMap at all.                       *)
SameAuthConfigMap ==
  /\ due /\ auth \in {hash, None}
  /\ due' = FALSE
  /\ UNCHANGED <<auth, hash, astray, gardenVars, controllerVars, edits, faults>>

(* Gardener reconciles a Shoot whose spec changed or that is annotated, and *)
(* takes the annotation away.                                               *)
GardenerReconciles(s) ==
  /\ s \in spec \/ shoot[s].operation
  /\ applied' = [applied EXCEPT ![s] = IF shoot[s].ref = None THEN None
                                       ELSE cm[shoot[s].ref].content]
  /\ spec' = spec \ {s}
  /\ ShootBecomes(s, [shoot[s] EXCEPT !.operation = FALSE])
  /\ UNCHANGED <<auth, cm, live, work, reconcilerVars, edits, faults>>

-----------------------------------------------------------------------------
(* Users.                                                                   *)

(* The ConfigMap is watched. It may get back the content it had before.     *)
AuthChanges ==
  /\ Edit
  /\ \E c \in (Contents \cup {None}) \ {auth} : auth' = c
  /\ due' = TRUE
  /\ UNCHANGED <<hash, astray, gardenVars, controllerVars>>

(* Someone edits a ConfigMap in the garden.                                 *)
Tamper(n) ==
  LET new == [cm[n] EXCEPT !.content = Foreign]
  IN  /\ Edit
      /\ Tampering
      /\ cm[n].content \notin {None, Foreign}
      /\ cm' = [cm EXCEPT ![n] = new]
      /\ queue' = queue \cup EnqueueShoots(cm[n], new)
      /\ UNCHANGED <<auth, shoot, spec, applied, live, work, reconcilerVars>>

(* The owner of a Shoot points it at a ConfigMap of their own.              *)
SetReference(s) ==
  /\ Edit
  /\ Tampering
  /\ \E n \in Names \ {Default, shoot[s].ref} :
       ShootBecomes(s, [shoot[s] EXCEPT !.ref = n])
  /\ spec' = spec \cup {s}
  /\ UNCHANGED <<auth, cm, applied, live, work, reconcilerVars>>

-----------------------------------------------------------------------------
Step(w) ==
  \/ ReadGreenhouseConfigMap(w) \/ WriteGardenConfigMap(w) \/ LabelShoot(w)
  \/ UpdateShootSpec(w) \/ AnnotateShootForReconcile(w)

Next ==
  \/ \E s \in Shoots : Begin(s) \/ GardenerReconciles(s) \/ SetReference(s)
  \/ \E w \in Controllers :
       Step(w) \/ PassFails(w) \/ PassAborted(w) \/ RestartShootController(w)
  \/ \E n \in Names : Tamper(n)
  \/ SameAuthConfigMap
  \/ AuthChanges

Spec == Init /\ [][Next]_vars

(* Controllers and Gardener do not all stop while one of them has something *)
(* to do: passes go on, the live controller takes requests, in any order,   *)
(* the CareInstruction controller reconciles, and so does Gardener.         *)
Progress ==
  \/ \E s \in Shoots : Begin(s) \/ GardenerReconciles(s)
  \/ \E w \in Controllers : Step(w) \/ RestartShootController(w)
  \/ SameAuthConfigMap

Fairness == WF_vars(Progress)

FairSpec == Spec /\ Fairness

-----------------------------------------------------------------------------
(* The variables have their types.                                          *)
TypeOK ==
  /\ auth \in Contents \cup {None}
  /\ cm \in [Names -> ConfigMap] /\ shoot \in [Shoots -> Shoot]
  /\ spec \subseteq Shoots /\ applied \in [Shoots -> Contents \cup {Foreign, None}]
  /\ live \in Controllers /\ queue \subseteq Shoots /\ work \in [Controllers -> Pass]
  /\ hash \in Contents \cup {None} /\ due \in BOOLEAN /\ astray \in BOOLEAN
  /\ edits \in 0 .. MaxEdits /\ faults \in 0 .. MaxFaults

(* The Shoot carries the label and refers to a ConfigMap with the content   *)
(* that the CareInstruction controller remembers.                           *)
Copied(s) ==
  /\ shoot[s].labelled /\ shoot[s].ref # None
  /\ cm[shoot[s].ref].content = hash

(* When the live controller has nothing left to do and no reconcile of the  *)
(* CareInstruction is due, every Shoot has the Greenhouse content, even     *)
(* while a replaced controller is still in the middle of a pass, whatever   *)
(* others wrote and which calls failed: what undoes the work of a pass      *)
(* brings its Shoot back. Only a controller that was led astray, by a       *)
(* content that came and went between two reconciles, may have left that.   *)
AtRestCopied ==
  queue = {} /\ work[live].pc = "idle" /\ ~due /\ ~astray /\ auth # None =>
    \A s \in Shoots : /\ shoot[s].labelled /\ shoot[s].ref # None
                      /\ cm[shoot[s].ref].content = auth

(* A Shoot is pointed at a ConfigMap only once it is there: Gardener never  *)
(* meets a reference to a ConfigMap without content.                        *)
NoDanglingReference ==
  \A s \in Shoots : shoot[s].ref # None => cm[shoot[s].ref].content # None

(* "shoot-grafter is the sole owner of that ConfigMap's data": whatever     *)
(* others write, and whichever controller wrote last, every Shoot ends up   *)
(* with a reference to a ConfigMap that holds the Greenhouse content,       *)
(* unless its controller was led astray.                                    *)
SoleOwner ==
  <>[](auth # None /\ ~astray => \A s \in Shoots : /\ shoot[s].ref # None
                                                   /\ cm[shoot[s].ref].content = auth)

(* "shoot-grafter automatically triggers a Shoot reconciliation by          *)
(* annotating it": every Shoot ends up running with the Greenhouse content. *)
Applied ==
  <>[](auth # None => \A s \in Shoots : applied[s] = auth)

(* No call has failed, no replaced controller is in the middle of a pass,   *)
(* and no two Shoots use one ConfigMap.                                     *)
Undisturbed ==
  /\ faults = 0
  /\ \A w \in Controllers \ {live} : work[w].pc = "idle"
  /\ \A s, t \in Shoots : ConfigMapName(shoot[s]) = ConfigMapName(shoot[t]) => s = t

(* The same for Shoots left undisturbed: changes of the content, others     *)
(* writing into ConfigMaps and references, and replaced controllers do not  *)
(* keep the content from the API servers, unless one was led astray.        *)
AppliedIfUndisturbed ==
  []Undisturbed => <>[](auth # None /\ ~astray => \A s \in Shoots : applied[s] = auth)

-----------------------------------------------------------------------------
(* The inductive invariant behind the safety theorems.                      *)

(* A pass under way knows its Shoot, once past the Greenhouse ConfigMap its *)
(* content and its name, and later on the ConfigMap is there. Labels stay.  *)
PassHolds(w) ==
  LET p == work[w]
  IN  /\ p.pc # "idle" => /\ p.shoot \in Shoots /\ p.read \in Shoot
                          /\ p.read.labelled => shoot[p.shoot].labelled
      /\ p.pc = "configmap" => p.content # None
      /\ p.pc \in {"configmap", "label", "spec"} => p.name # None
      /\ p.pc \in {"label", "spec"} => cm[p.name].content # None

(* ConfigMaps of others are there, and the ones this controller wrote are   *)
(* watched.                                                                 *)
ConfigMapHolds(n) ==
  /\ n # Default => cm[n].content # None
  /\ cm[n].content \in Contents => cm[n].labelled

(* Single objects and passes.                                               *)
Objects ==
  /\ TypeOK /\ NoDanglingReference
  /\ \A w \in Controllers : PassHolds(w)
  /\ \A n \in Names : ConfigMapHolds(n)

(* The live controller works on the Shoot as it is now and will leave it    *)
(* with the content; until it has labelled the Shoot, changes of the        *)
(* ConfigMap go unnoticed.                                                  *)
UnderWay(s) ==
  LET p == work[live]
  IN  /\ p.pc # "idle" /\ p.shoot = s /\ p.read = shoot[s]
      /\ p.pc = "configmap" => p.content = hash
      /\ p.pc = "label" /\ shoot[s].labelled => cm[p.name].content = hash
      /\ p.pc = "spec" => shoot[s].labelled /\ cm[p.name].content = hash

(* No change of the content is forgotten, and no Shoot.                     *)
CopyHolds ==
  /\ auth \notin {hash, None} => due
  /\ hash # None /\ ~astray => \A s \in Shoots : s \in queue \/ Copied(s) \/ UnderWay(s)

(* What every step preserves, through failed calls, replaced controllers    *)
(* and edits of others.                                                     *)
IInv == Objects /\ CopyHolds
=============================================================================
