---------------------------- MODULE ShootAccess ----------------------------
(***************************************************************************)
(* What the passes over one Shoot leave in the two clusters they connect:  *)
(* the annotations of the Secret in Greenhouse, merged with those of other *)
(* controllers and of earlier specs, and the ClusterRoleBinding in the     *)
(* shoot, which is deleted and recreated if its role differs. An edit of   *)
(* the spec replaces the shoot controller, which may have a call in        *)
(* flight. Address, CA and owner of the Secret are in ShootOnboarding.     *)
(***************************************************************************)
EXTENDS Naturals

CONSTANTS
  Keys,         \* keys of annotations of the Secret
  Reserved,     \* those the controller always sets: propagate-labels, api-server-url
  Workerless,   \* the key it sets on Secrets of workerless Shoots
  Values,       \* values that specs give to annotations
  Foreign,      \* a value that others write
  Own,          \* the value the controller gives to keys of its own
  None,         \* no value, no Secret, no ClusterRoleBinding
  Specs,        \* specs: keys and value of additionalAnnotations, enableRBAC
  Controllers,  \* incarnations of the shoot controller
  First,        \* the one that runs at the start
  MaxEdits,     \* bound: changes made by users and Gardener
  MaxFaults     \* bound: failed calls, crashes

ASSUME ConstantsAssumption ==
  /\ Reserved \subseteq Keys /\ Workerless \in Keys \ Reserved
  /\ Foreign \notin Values /\ Own \notin Values \cup {Foreign}
  /\ None \notin Values \cup {Foreign, Own}
  /\ Specs \subseteq [keys : SUBSET Keys, val : Values, rbac : BOOLEAN]
  /\ First \in Controllers
  /\ MaxEdits \in Nat /\ MaxFaults \in Nat

VARIABLES
  spec,        \* the spec of the CareInstruction
  workerless,  \* has the Shoot no workers?
  secret,      \* annotations of the Secret and the keys it tracks
  cached,      \* the Secret in the informer cache that passes read
  touched,     \* did someone change the Secret unnoticed by the live controller?
  binding,     \* ClusterRoleBinding greenhouse:system:cluster-admin
  live,        \* the controller that takes requests
  queued,      \* is the Shoot in its work queue?
  restart,     \* is the CareInstruction controller about to replace it?
  work,        \* what each controller is doing
  edits, faults

serverVars == <<secret, cached, touched, binding>>
controllerVars == <<live, queued, restart>>
bounds == <<edits, faults>>
vars == <<spec, workerless, serverVars, controllerVars, work, bounds>>

Secret == [ann : [Keys -> Values \cup {Foreign, Own, None}], tracked : SUBSET Keys]

Binding == [admin : BOOLEAN, subject : BOOLEAN]

ASSUME NoneIsNoSecret == None \notin Secret

(* A controller: the step of its pass, its spec, and the Shoot and the      *)
(* Secret as the pass read them.                                            *)
Work == [pc : {"idle", "secret", "client", "get", "unbind", "bind"},
         spec : Specs, workerless : BOOLEAN, read : Secret \cup {None}]

Idle(s) == [pc |-> "idle", spec |-> s, workerless |-> FALSE, read |-> None]

Init ==
  /\ spec \in Specs
  /\ workerless \in BOOLEAN
  /\ secret = None /\ cached = None /\ touched = FALSE
  /\ binding = None
  /\ live = First /\ queued = TRUE /\ restart = FALSE
  /\ work = [w \in Controllers |-> Idle(spec)]
  /\ edits = 0 /\ faults = 0

Fault == faults < MaxFaults /\ faults' = faults + 1 /\ UNCHANGED edits

At(w, pc) == work[w].pc = pc

Goto(w, pc) == [work EXCEPT ![w].pc = pc]

Finish(w) == [work EXCEPT ![w] = Idle(work[w].spec)]

(* The context of a replaced controller is cancelled: after the call that   *)
(* is in flight, its pass ends.                                             *)
Continue(w, pc) == IF w = live THEN Goto(w, pc) ELSE Finish(w)

(* A request is put back; the queue of a replaced controller is gone.       *)
Requeue(w) == queued' = (queued \/ w = live)

-----------------------------------------------------------------------------
(* The Secret.                                                              *)

(* The annotations a pass wants: additionalAnnotations, overwritten by the  *)
(* keys of the controller.                                                  *)
SecretAnnotations(s, noWorkers) ==
  [k \in Keys |-> IF k \in Reserved \/ (k = Workerless /\ noWorkers) THEN Own
                  ELSE IF k \in s.keys THEN s.val ELSE None]

(* The keys of additionalAnnotations are tracked in an annotation.          *)
ManagedKeys(s) == s.keys

(* Mutants: keys that are no longer wanted stay; the annotations are        *)
(* replaced rather than merged.                                             *)
MergeKeepingStale(old, s, noWorkers) ==
  LET want == SecretAnnotations(s, noWorkers)
      merged == [k \in Keys |-> IF want[k] # None THEN want[k] ELSE old.ann[k]]
  IN  [ann |-> IF noWorkers THEN merged ELSE [merged EXCEPT ![Workerless] = None],
       tracked |-> s.keys]

MergeReplacing(old, s, noWorkers) ==
  LET want == SecretAnnotations(s, noWorkers)
  IN  [ann |-> IF noWorkers THEN want ELSE [want EXCEPT ![Workerless] = None],
       tracked |-> s.keys]

(* The mutation of CreateOrUpdate: tracked keys that are no longer wanted   *)
(* go, wanted ones are set, a stale workerless annotation goes, and the     *)
(* keys of this spec are tracked from now on.                               *)
MergeSecret(old, s, noWorkers) ==
  LET want == SecretAnnotations(s, noWorkers)
      stale == {k \in old.tracked : want[k] = None}
      merged == [k \in Keys |-> IF want[k] # None THEN want[k]
                                ELSE IF k \in stale THEN None ELSE old.ann[k]]
  IN  [ann |-> IF noWorkers THEN merged ELSE [merged EXCEPT ![Workerless] = None],
       tracked |-> ManagedKeys(s)]

EmptySecret == [ann |-> [k \in Keys |-> None], tracked |-> {}]

(* Mutant: the pass goes by a Shoot that it has not read.                   *)
BeginUnread ==
  /\ At(live, "idle") /\ queued
  /\ queued' = FALSE
  /\ work' = [work EXCEPT ![live].pc = "secret", ![live].workerless = None,
                          ![live].read = cached]
  /\ touched' = FALSE
  /\ UNCHANGED <<spec, workerless, secret, cached, binding, live, restart, bounds>>

(* A pass begins: it reads the Shoot and, in CreateOrUpdate, the Secret, as *)
(* the cache has it.                                                        *)
Begin ==
  /\ At(live, "idle") /\ queued
  /\ queued' = FALSE
  /\ work' = [work EXCEPT ![live].pc = "secret", ![live].workerless = workerless,
                          ![live].read = cached]
  /\ touched' = FALSE
  /\ UNCHANGED <<spec, workerless, secret, cached, binding, live, restart, bounds>>

(* What the pass makes of the Secret it read; nothing is written if it is   *)
(* the same.                                                                *)
Merged(w) ==
  MergeSecret(IF work[w].read = None THEN EmptySecret ELSE work[w].read,
              work[w].spec, work[w].workerless)

Rewrites(w) == At(w, "secret") /\ Merged(w) # work[w].read

AfterSecret(w) == IF work[w].spec.rbac THEN Continue(w, "client") ELSE Finish(w)

(* A live pass that keeps the Secret on the word of a cache that lags has   *)
(* missed a change.                                                         *)
KeepSecret(w) ==
  /\ At(w, "secret") /\ ~Rewrites(w)
  /\ touched' = (touched \/ (w = live /\ work[w].read # secret))
  /\ work' = AfterSecret(w)
  /\ UNCHANGED <<spec, workerless, secret, cached, binding, controllerVars, bounds>>

(* A change by another goes unnoticed unless the live controller has yet to *)
(* read the Secret or is about to meet a conflict.                          *)
Unnoticed == ~queued /\ ~Rewrites(live)

(* Create or Update, refused if the Secret is not the one that was read.    *)
WriteSecret(w) ==
  /\ Rewrites(w)
  /\ secret = work[w].read
  /\ secret' = Merged(w)
  /\ touched' = IF w = live THEN touched ELSE Unnoticed
  /\ work' = AfterSecret(w)
  /\ UNCHANGED <<spec, workerless, cached, binding, controllerVars, bounds>>

(* Mutant: a conflict counts as done.                                       *)
ConflictIgnored(w) ==
  /\ Rewrites(w)
  /\ secret # work[w].read
  /\ work' = Finish(w)
  /\ UNCHANGED <<spec, workerless, serverVars, controllerVars, bounds>>

(* A conflict, or a Secret that exists already: the request comes back.     *)
WriteSecretConflicts(w) ==
  /\ Rewrites(w)
  /\ secret # work[w].read
  /\ work' = Finish(w)
  /\ Requeue(w)
  /\ UNCHANGED <<spec, workerless, serverVars, live, restart, bounds>>

(* A call up to and including getShootClusterClient fails, the OIDC         *)
(* configuration in between included: the error is returned.                *)
PassFails(w) ==
  /\ At(w, "secret") \/ At(w, "client")
  /\ Fault
  /\ work' = Finish(w)
  /\ Requeue(w)
  /\ UNCHANGED <<spec, workerless, serverVars, live, restart>>

(* The admin kubeconfig of the Shoot, and a client made from it.            *)
GetShootClusterClient(w) ==
  /\ w = live /\ At(w, "client")
  /\ work' = Goto(w, "get")
  /\ UNCHANGED <<spec, workerless, serverVars, controllerVars, bounds>>

-----------------------------------------------------------------------------
(* SetRBAC, whose errors are logged only.                                   *)

(* Mutant: a binding with another role is left to CreateOrUpdate.           *)
GetBindingOfAnyRole(w) ==
  /\ w = live /\ At(w, "get")
  /\ work' = Goto(w, "bind")
  /\ UNCHANGED <<spec, workerless, serverVars, controllerVars, bounds>>

(* Get: a binding with another role has to go.                              *)
GetBinding(w) ==
  /\ w = live /\ At(w, "get")
  /\ work' = Goto(w, IF binding # None /\ ~binding.admin THEN "unbind" ELSE "bind")
  /\ UNCHANGED <<spec, workerless, serverVars, controllerVars, bounds>>

(* Delete, by name. If there is nothing to delete SetRBAC returns.          *)
DeleteBinding(w) ==
  /\ At(w, "unbind")
  /\ binding' = None
  /\ work' = IF binding = None THEN Finish(w) ELSE Continue(w, "bind")
  /\ UNCHANGED <<spec, workerless, secret, cached, touched, controllerVars, bounds>>

(* CreateOrUpdate. The role of an existing binding is immutable.            *)
CreateOrUpdateBinding(w) ==
  /\ At(w, "bind")
  /\ binding' = IF binding = None \/ binding.admin
                THEN [admin |-> TRUE, subject |-> TRUE]
                ELSE binding
  /\ work' = Finish(w)
  /\ UNCHANGED <<spec, workerless, secret, cached, touched, controllerVars, bounds>>

SetRBACFails(w) ==
  /\ At(w, "get") \/ At(w, "unbind") \/ At(w, "bind")
  /\ Fault
  /\ work' = Finish(w)
  /\ UNCHANGED <<spec, workerless, serverVars, controllerVars>>

(* The call that a replaced controller was about to make is not made.       *)
PassAborted(w) ==
  /\ w # live /\ ~At(w, "idle")
  /\ work' = Finish(w)
  /\ UNCHANGED <<spec, workerless, serverVars, controllerVars, bounds>>

-----------------------------------------------------------------------------
(* The CareInstruction controller replaces the shoot controller after an    *)
(* edit of the spec (module GardenManagers); the new one lists the Shoot.   *)
RestartShootController(w) ==
  /\ restart
  /\ w # live /\ At(w, "idle")
  /\ live' = w /\ queued' = TRUE /\ restart' = FALSE
  /\ work' = [work EXCEPT ![w] = Idle(spec)]
  /\ UNCHANGED <<spec, workerless, serverVars, bounds>>

Crash ==
  /\ Fault
  /\ queued' = TRUE /\ restart' = FALSE
  /\ work' = [w \in Controllers |-> Idle(spec)]
  /\ cached' = secret
  /\ UNCHANGED <<spec, workerless, secret, touched, binding, live>>

DeliverSecret ==
  /\ cached # secret
  /\ cached' = secret
  /\ UNCHANGED <<spec, workerless, secret, touched, binding, controllerVars, work, bounds>>

AtRest ==
  ~queued /\ ~restart /\ cached = secret /\ \A w \in Controllers : At(w, "idle")

(* Gardener reconciles every Shoot regularly; the changes of its            *)
(* lastOperation.state pass PredicateShootStatusNoise.                      *)
Maintenance ==
  /\ AtRest
  /\ queued' = TRUE
  /\ UNCHANGED <<spec, workerless, serverVars, live, restart, work, bounds>>

-----------------------------------------------------------------------------
(* Users.                                                                   *)

Edit == edits < MaxEdits /\ edits' = edits + 1 /\ UNCHANGED faults

EditSpec ==
  /\ Edit
  /\ \E s \in Specs \ {spec} : spec' = s
  /\ restart' = TRUE
  /\ UNCHANGED <<workerless, serverVars, live, queued, work>>

(* The Shoot is replaced by one of the same name, with or without workers.  *)
RecreateShoot ==
  /\ Edit
  /\ workerless' = ~workerless
  /\ queued' = TRUE
  /\ UNCHANGED <<spec, serverVars, live, restart, work>>

(* Someone else sets or removes an annotation. The Secret is not watched.   *)
TouchSecret ==
  /\ Edit
  /\ secret # None
  /\ \E k \in Keys, v \in {Foreign, None} : secret' = [secret EXCEPT !.ann[k] = v]
  /\ touched' = Unnoticed
  /\ UNCHANGED <<spec, workerless, cached, binding, controllerVars, work>>

TouchBinding ==
  /\ Edit
  /\ binding' \in (Binding \cup {None}) \ {binding}
  /\ UNCHANGED <<spec, workerless, secret, cached, touched, controllerVars, work>>

-----------------------------------------------------------------------------
Step(w) ==
  \/ KeepSecret(w) \/ WriteSecret(w) \/ WriteSecretConflicts(w)
  \/ GetShootClusterClient(w) \/ GetBinding(w) \/ DeleteBinding(w)
  \/ CreateOrUpdateBinding(w)

Next ==
  \/ Begin \/ DeliverSecret \/ Crash \/ Maintenance
  \/ \E w \in Controllers :
       Step(w) \/ PassFails(w) \/ SetRBACFails(w) \/ PassAborted(w) \/ RestartShootController(w)
  \/ EditSpec \/ RecreateShoot \/ TouchSecret \/ TouchBinding

Spec == Init /\ [][Next]_vars

(* Passes go on and end, requests are taken, the cache catches up, the      *)
(* CareInstruction controller restarts the controller, and Gardener         *)
(* reconciles the Shoot regularly.                                          *)
Fairness ==
  /\ WF_vars(Begin) /\ WF_vars(DeliverSecret) /\ WF_vars(Maintenance)
  /\ \A w \in Controllers : WF_vars(Step(w) \/ PassAborted(w))
  /\ WF_vars(\E w \in Controllers : RestartShootController(w))

FairSpec == Spec /\ Fairness

-----------------------------------------------------------------------------
(* The variables have their types.                                          *)
TypeOK ==
  /\ spec \in Specs /\ workerless \in BOOLEAN
  /\ secret \in Secret \cup {None} /\ cached \in Secret \cup {None} /\ touched \in BOOLEAN
  /\ binding \in Binding \cup {None}
  /\ live \in Controllers /\ queued \in BOOLEAN /\ restart \in BOOLEAN
  /\ work \in [Controllers -> Work]
  /\ edits \in 0 .. MaxEdits /\ faults \in 0 .. MaxFaults

(* No annotation of an earlier spec is forgotten: as long as a value that a *)
(* spec gave is on the Secret its key is tracked, so that a later pass can  *)
(* remove it, whichever controller wrote and whoever else did.              *)
NoForgottenAnnotation ==
  secret # None => \A k \in Keys : secret.ann[k] \in Values => k \in secret.tracked

SecretRight ==
  /\ secret # None
  /\ \A k \in Keys :
       LET want == SecretAnnotations(spec, workerless)[k]
       IN  IF k = Workerless /\ ~workerless THEN secret.ann[k] = None
           ELSE IF want # None THEN secret.ann[k] = want
           ELSE secret.ann[k] \in {Foreign, None}

(* When the controllers are at rest, the Secret carries the annotations of  *)
(* the spec in force and of the Shoot as it is, and none of an earlier one, *)
(* although passes fail, conflict and are cut short and only errors bring   *)
(* them back. What someone else changed since, a write that a replaced      *)
(* controller had in flight, or a change the cache did not show in time     *)
(* waits for the next event.                                                *)
AtRestSecret == AtRest /\ ~touched => SecretRight

(* "preserve existing ones": the annotations of others survive every write  *)
(* of a controller, unless a spec claimed their keys.                       *)
ForeignKept ==
  [][\A k \in Keys \ (Reserved \cup {Workerless}) :
       /\ secret # None /\ secret.ann[k] = Foreign
       /\ \A s \in Specs : k \notin s.keys
       /\ UNCHANGED edits
       => secret'.ann[k] = Foreign]_vars

(* Both ends are right in the end, whatever was changed, although errors of *)
(* SetRBAC are swallowed, a binding is deleted before it is made anew and a *)
(* replaced controller may write last: Gardener's regular reconciles bring  *)
(* the passes that repair it.                                               *)
AccessSettles ==
  <>[](SecretRight /\ (spec.rbac => binding = [admin |-> TRUE, subject |-> TRUE]))

-----------------------------------------------------------------------------
(* The inductive invariant behind the safety theorems.                      *)

(* What every Secret is like: values of specs are tracked, values of the    *)
(* controller are under its own keys, and only keys of specs are tracked.   *)
Tidy(s) ==
  \A k \in Keys :
    /\ s.ann[k] \in Values => k \in s.tracked
    /\ s.ann[k] = Own => k \in Reserved \cup {Workerless}
    /\ k \in s.tracked => \E t \in Specs : k \in t.keys

(* The live controller has the spec in force unless it is to be replaced, a *)
(* pass that is to write has read the Shoot as it is unless it is queued    *)
(* again, and without such a pass the Secret is right.                      *)
LiveHolds ==
  /\ ~restart => work[live].spec = spec
  /\ ~queued /\ At(live, "secret") => work[live].workerless = workerless
  /\ ~queued /\ ~restart /\ ~touched /\ ~At(live, "secret") => SecretRight

(* Types, Secret and live controller: what every step preserves, through    *)
(* replaced controllers, conflicts, failures and writes of others.          *)
IInv == TypeOK /\ (secret # None => Tidy(secret)) /\ LiveHolds
=============================================================================
