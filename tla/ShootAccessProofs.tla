------------------------- MODULE ShootAccessProofs -------------------------
(***************************************************************************)
(* Proofs about the Secret of a Shoot, for all keys, specs, controllers    *)
(* and bounds: nothing a spec wrote is forgotten, nothing of others is     *)
(* lost, and the Secret is right when everything is at rest.               *)
(***************************************************************************)
EXTENDS ShootAccess, TLAPS

-----------------------------------------------------------------------------
(* The merge of annotations.                                                *)

(* A wanted annotation is one of the spec or one of the controller's own.   *)
LEMMA WantedTypes ==
  ASSUME NEW s \in Specs, NEW b \in BOOLEAN
  PROVE  SecretAnnotations(s, b) \in [Keys -> Values \cup {Own, None}]
  BY ConstantsAssumption DEF SecretAnnotations

LEMMA EmptyTypes == EmptySecret \in Secret /\ Tidy(EmptySecret)
  <1>1. EmptySecret \in Secret
    BY DEF EmptySecret, Secret
  <1>2. \A k \in Keys : EmptySecret.ann[k] = None /\ k \notin EmptySecret.tracked
    BY DEF EmptySecret
  <1>3. QED
    BY <1>1, <1>2, ConstantsAssumption DEF Tidy

(* The merge, key by key.                                                   *)
LEMMA MergeValue ==
  ASSUME NEW old \in Secret, NEW s \in Specs, NEW b \in BOOLEAN, NEW k \in Keys
  PROVE  LET want == SecretAnnotations(s, b)[k]
         IN  MergeSecret(old, s, b).ann[k] =
               IF k = Workerless /\ ~b THEN None
               ELSE IF want # None THEN want
               ELSE IF k \in old.tracked THEN None ELSE old.ann[k]
  BY WantedTypes, ConstantsAssumption DEF MergeSecret, Secret

LEMMA MergeTracked ==
  ASSUME NEW old, NEW s, NEW b
  PROVE  MergeSecret(old, s, b).tracked = s.keys
  BY DEF MergeSecret, ManagedKeys

LEMMA MergeTypes ==
  ASSUME NEW old \in Secret, NEW s \in Specs, NEW b \in BOOLEAN
  PROVE  MergeSecret(old, s, b) \in Secret
  <1> DEFINE want == SecretAnnotations(s, b)
             stale == {k \in old.tracked : want[k] = None}
             merged == [k \in Keys |-> IF want[k] # None THEN want[k]
                                       ELSE IF k \in stale THEN None ELSE old.ann[k]]
  <1>1. merged \in [Keys -> Values \cup {Foreign, Own, None}]
    BY WantedTypes DEF Secret
  <1>2. [merged EXCEPT ![Workerless] = None] \in [Keys -> Values \cup {Foreign, Own, None}]
    BY <1>1
  <1>3. s.keys \in SUBSET Keys
    BY ConstantsAssumption
  <1>4. QED
    BY <1>1, <1>2, <1>3 DEF MergeSecret, ManagedKeys, Secret

(* What a spec gives is tracked from now on, and what it does not want is   *)
(* the controller's or another's.                                           *)
LEMMA MergeTidy ==
  ASSUME NEW old \in Secret, Tidy(old), NEW s \in Specs, NEW b \in BOOLEAN
  PROVE  Tidy(MergeSecret(old, s, b))
  <1> SUFFICES ASSUME NEW k \in Keys
               PROVE  LET new == MergeSecret(old, s, b)
                      IN  /\ new.ann[k] \in Values => k \in new.tracked
                          /\ new.ann[k] = Own => k \in Reserved \cup {Workerless}
                          /\ k \in new.tracked => \E t \in Specs : k \in t.keys
    BY DEF Tidy
  <1> DEFINE new == MergeSecret(old, s, b)
             want == SecretAnnotations(s, b)[k]
  <1>1. want = IF k \in Reserved \/ (k = Workerless /\ b) THEN Own
               ELSE IF k \in s.keys THEN s.val ELSE None
    BY DEF SecretAnnotations
  <1>2. s.val \in Values
    BY ConstantsAssumption
  <1>3. /\ old.ann[k] \in Values => k \in old.tracked
        /\ old.ann[k] = Own => k \in Reserved \cup {Workerless}
    BY DEF Tidy
  <1>4. new.tracked = s.keys
    BY MergeTracked
  <1>5. new.ann[k] = IF k = Workerless /\ ~b THEN None
                     ELSE IF want # None THEN want
                     ELSE IF k \in old.tracked THEN None ELSE old.ann[k]
    BY MergeValue
  <1>6. QED
    BY <1>1, <1>2, <1>3, <1>4, <1>5, ConstantsAssumption

(* The merge leaves alone what others wrote under keys that nobody claims.  *)
LEMMA MergeForeign ==
  ASSUME NEW old \in Secret, Tidy(old), NEW s \in Specs, NEW b \in BOOLEAN,
         NEW k \in Keys \ (Reserved \cup {Workerless}),
         \A t \in Specs : k \notin t.keys
  PROVE  MergeSecret(old, s, b).ann[k] = old.ann[k]
  <1>1. SecretAnnotations(s, b)[k] = None
    BY DEF SecretAnnotations
  <1>2. k \notin old.tracked
    BY DEF Tidy
  <1>3. QED
    BY <1>1, <1>2, MergeValue

(* The merge with the spec and the Shoot as they are makes a Secret right.  *)
LEMMA MergeRight ==
  ASSUME NEW old \in Secret, Tidy(old), spec \in Specs, workerless \in BOOLEAN,
         secret' = MergeSecret(old, spec, workerless), UNCHANGED <<spec, workerless>>
  PROVE  SecretRight'
  <1>1. secret' # None
    BY MergeTypes, NoneIsNoSecret
  <1>2. ASSUME NEW k \in Keys
        PROVE  LET want == SecretAnnotations(spec, workerless)[k]
               IN  IF k = Workerless /\ ~workerless THEN secret'.ann[k] = None
                   ELSE IF want # None THEN secret'.ann[k] = want
                   ELSE secret'.ann[k] \in {Foreign, None}
    <2> DEFINE want == SecretAnnotations(spec, workerless)[k]
    <2>1. secret'.ann[k] = IF k = Workerless /\ ~workerless THEN None
                           ELSE IF want # None THEN want
                           ELSE IF k \in old.tracked THEN None ELSE old.ann[k]
      BY MergeValue
    <2>2. want = None => k \notin Reserved /\ ~(k = Workerless /\ workerless)
      BY ConstantsAssumption DEF SecretAnnotations
    <2>3. old.ann[k] \in Values \cup {Foreign, Own, None}
      BY DEF Secret
    <2>4. /\ old.ann[k] \in Values => k \in old.tracked
          /\ old.ann[k] = Own => k \in Reserved \cup {Workerless}
      BY DEF Tidy
    <2>5. QED
      BY <2>1, <2>2, <2>3, <2>4
  <1>3. SecretAnnotations(spec', workerless') = SecretAnnotations(spec, workerless)
    OBVIOUS
  <1>4. QED
    BY <1>1, <1>2, <1>3 DEF SecretRight

-----------------------------------------------------------------------------
(* Types.                                                                   *)

LEMMA IdleTypes ==
  ASSUME NEW s \in Specs PROVE Idle(s) \in Work
  BY DEF Idle, Work

(* The next states of work that the actions are made of.                    *)
LEMMA WorkTypes ==
  ASSUME TypeOK, NEW w \in Controllers
  PROVE  /\ Finish(w) \in [Controllers -> Work]
         /\ \A pc \in {"client", "get", "unbind", "bind"} :
              /\ Goto(w, pc) \in [Controllers -> Work]
              /\ Continue(w, pc) \in [Controllers -> Work]
         /\ AfterSecret(w) \in [Controllers -> Work]
  <1>1. Finish(w) \in [Controllers -> Work]
    <2>1. Idle(work[w].spec) \in Work
      BY IdleTypes DEF TypeOK, Work
    <2>2. QED
      BY <2>1 DEF Finish, TypeOK
  <1>2. ASSUME NEW pc \in {"client", "get", "unbind", "bind"}
        PROVE  Goto(w, pc) \in [Controllers -> Work]
    BY DEF Goto, TypeOK, Work
  <1>3. QED
    BY <1>1, <1>2 DEF Continue, AfterSecret

(* What a pass makes of the Secret is a Secret.                             *)
LEMMA MergedTypes ==
  ASSUME TypeOK, NEW w \in Controllers
  PROVE  Merged(w) \in Secret
  <1>1. /\ work[w].spec \in Specs /\ work[w].workerless \in BOOLEAN
        /\ work[w].read # None => work[w].read \in Secret
    BY DEF TypeOK, Work
  <1>2. QED
    BY <1>1, EmptyTypes, MergeTypes DEF Merged

LEMMA TypeInit == Init => TypeOK
  <1> SUFFICES ASSUME Init PROVE TypeOK
    OBVIOUS
  <1>1. Idle(spec) \in Work
    BY IdleTypes DEF Init
  <1>2. work \in [Controllers -> Work]
    BY <1>1 DEF Init
  <1>3. edits \in 0 .. MaxEdits /\ faults \in 0 .. MaxFaults
    BY ConstantsAssumption DEF Init
  <1>4. QED
    BY <1>2, <1>3, ConstantsAssumption, Zenon DEF Init, TypeOK

(* One step of a pass keeps the types.                                      *)
LEMMA TypePass ==
  ASSUME TypeOK, NEW w \in Controllers,
         \/ Step(w) \/ PassFails(w) \/ SetRBACFails(w) \/ PassAborted(w)
         \/ RestartShootController(w)
  PROVE  TypeOK'
  <1> USE DEF TypeOK, serverVars, controllerVars, bounds
  <1>1. CASE KeepSecret(w)
    BY <1>1, WorkTypes DEF KeepSecret
  <1>2. CASE WriteSecret(w)
    <2>1. secret' \in Secret \cup {None}
      BY <1>2, MergedTypes DEF WriteSecret
    <2>2. work' \in [Controllers -> Work]
      BY <1>2, WorkTypes DEF WriteSecret
    <2>3. touched' \in BOOLEAN
      BY <1>2 DEF WriteSecret, Unnoticed, Rewrites
    <2>4. QED
      BY <1>2, <2>1, <2>2, <2>3 DEF WriteSecret
  <1>3. CASE WriteSecretConflicts(w)
    BY <1>3, WorkTypes DEF WriteSecretConflicts, Requeue
  <1>4. CASE GetShootClusterClient(w)
    BY <1>4, WorkTypes DEF GetShootClusterClient
  <1>5. CASE GetBinding(w)
    BY <1>5, WorkTypes DEF GetBinding
  <1>6. CASE DeleteBinding(w)
    BY <1>6, WorkTypes DEF DeleteBinding
  <1>7. CASE CreateOrUpdateBinding(w)
    BY <1>7, WorkTypes DEF CreateOrUpdateBinding, Binding
  <1>8. CASE PassFails(w)
    BY <1>8, WorkTypes, ConstantsAssumption DEF PassFails, Requeue, Fault
  <1>9. CASE SetRBACFails(w)
    BY <1>9, WorkTypes, ConstantsAssumption DEF SetRBACFails, Fault
  <1>10. CASE PassAborted(w)
    BY <1>10, WorkTypes DEF PassAborted
  <1>11. CASE RestartShootController(w)
    BY <1>11, IdleTypes DEF RestartShootController
  <1>12. QED
    BY <1>1, <1>2, <1>3, <1>4, <1>5, <1>6, <1>7, <1>8, <1>9, <1>10, <1>11 DEF Step

LEMMA TypeStep == TypeOK /\ [Next]_vars => TypeOK'
  <1> SUFFICES ASSUME TypeOK, [Next]_vars PROVE TypeOK'
    OBVIOUS
  <1> USE DEF TypeOK, serverVars, controllerVars, bounds
  <1>1. CASE Begin
    <2>1. work' = [work EXCEPT ![live].pc = "secret", ![live].workerless = workerless,
                               ![live].read = cached]
      BY <1>1 DEF Begin
    <2>2. [work[live] EXCEPT !.pc = "secret", !.workerless = workerless, !.read = cached]
            \in Work
      BY DEF Work
    <2>3. work' \in [Controllers -> Work]
      BY <2>1, <2>2
    <2>4. queued' \in BOOLEAN /\ touched' \in BOOLEAN
      BY <1>1 DEF Begin
    <2>5. QED
      BY <1>1, <2>3, <2>4, Zenon DEF Begin
  <1>2. CASE DeliverSecret
    BY <1>2 DEF DeliverSecret
  <1>3. CASE Crash
    <2>1. Idle(spec) \in Work
      BY IdleTypes
    <2>2. work' \in [Controllers -> Work]
      BY <1>3, <2>1 DEF Crash
    <2>3. edits' \in 0 .. MaxEdits /\ faults' \in 0 .. MaxFaults
      BY <1>3, ConstantsAssumption DEF Crash, Fault
    <2>4. QED
      BY <1>3, <2>2, <2>3, Zenon DEF Crash
  <1>4. CASE Maintenance
    BY <1>4 DEF Maintenance
  <1>5. ASSUME NEW w \in Controllers,
               \/ Step(w) \/ PassFails(w) \/ SetRBACFails(w) \/ PassAborted(w)
               \/ RestartShootController(w)
        PROVE  TypeOK'
    BY <1>5, TypePass
  <1>6. CASE EditSpec
    BY <1>6, ConstantsAssumption DEF EditSpec, Edit
  <1>7. CASE RecreateShoot
    BY <1>7, ConstantsAssumption DEF RecreateShoot, Edit
  <1>8. CASE TouchSecret
    <2>1. secret' \in Secret
      BY <1>8 DEF TouchSecret, Secret
    <2>2. touched' \in BOOLEAN
      BY <1>8 DEF TouchSecret, Unnoticed, Rewrites
    <2>3. QED
      BY <1>8, <2>1, <2>2, ConstantsAssumption DEF TouchSecret, Edit
  <1>9. CASE TouchBinding
    BY <1>9, ConstantsAssumption DEF TouchBinding, Edit
  <1>10. CASE UNCHANGED vars
    BY <1>10 DEF vars
  <1>11. QED
    BY <1>1, <1>2, <1>3, <1>4, <1>5, <1>6, <1>7, <1>8, <1>9, <1>10 DEF Next

-----------------------------------------------------------------------------
(* The inductive invariant.                                                 *)

LEMMA InvInit == Init => IInv
  <1> SUFFICES ASSUME Init PROVE IInv
    OBVIOUS
  <1>1. TypeOK
    BY TypeInit
  <1>2. secret = None /\ queued
    BY DEF Init
  <1>3. work[live].spec = spec
    BY ConstantsAssumption DEF Init, Idle
  <1>4. QED
    BY <1>1, <1>2, <1>3 DEF IInv, LiveHolds

(* A write that is not refused merges into the Secret as it is.             *)
LEMMA WriteMerges ==
  ASSUME IInv, NEW w \in Controllers, work[w].read = secret
  PROVE  \E old \in Secret :
           /\ Tidy(old)
           /\ secret # None => old = secret
           /\ Merged(w) = MergeSecret(old, work[w].spec, work[w].workerless)
  <1>1. CASE secret = None
    BY <1>1, EmptyTypes DEF Merged
  <1>2. CASE secret # None
    BY <1>2 DEF Merged, IInv, TypeOK
  <1>3. QED
    BY <1>1, <1>2

(* Only the write of a pass and other users change the Secret.              *)
LEMMA SecretWriters ==
  ASSUME [Next]_vars
  PROVE  UNCHANGED secret \/ TouchSecret \/ \E w \in Controllers : WriteSecret(w)
  <1> USE DEF serverVars
  <1>1. ASSUME NEW w \in Controllers,
               \/ KeepSecret(w) \/ WriteSecretConflicts(w) \/ GetShootClusterClient(w)
               \/ GetBinding(w) \/ DeleteBinding(w) \/ CreateOrUpdateBinding(w)
               \/ PassFails(w) \/ SetRBACFails(w) \/ PassAborted(w)
               \/ RestartShootController(w)
        PROVE  UNCHANGED secret
    BY <1>1 DEF KeepSecret, WriteSecretConflicts, GetShootClusterClient, GetBinding,
         DeleteBinding, CreateOrUpdateBinding, PassFails, SetRBACFails, PassAborted,
         RestartShootController
  <1>2. \/ Begin \/ DeliverSecret \/ Crash \/ Maintenance
        \/ EditSpec \/ RecreateShoot \/ TouchBinding \/ UNCHANGED vars
        => UNCHANGED secret
    BY DEF Begin, DeliverSecret, Crash, Maintenance, EditSpec, RecreateShoot,
         TouchBinding, vars
  <1>3. QED
    BY <1>1, <1>2 DEF Next, Step

(* Whoever writes, the Secret stays tidy.                                   *)
LEMMA TidyStep ==
  ASSUME IInv, [Next]_vars
  PROVE  secret' # None => Tidy(secret')
  <1>1. ASSUME NEW w \in Controllers, WriteSecret(w)
        PROVE  Tidy(secret')
    <2>1. PICK old \in Secret :
            Tidy(old) /\ Merged(w) = MergeSecret(old, work[w].spec, work[w].workerless)
      BY <1>1, WriteMerges DEF WriteSecret
    <2>2. work[w].spec \in Specs /\ work[w].workerless \in BOOLEAN
      BY DEF IInv, TypeOK, Work
    <2>3. QED
      BY <1>1, <2>1, <2>2, MergeTidy DEF WriteSecret
  <1>2. CASE TouchSecret
    <2>1. secret \in Secret /\ Tidy(secret)
      BY <1>2 DEF TouchSecret, IInv, TypeOK
    <2>2. PICK k \in Keys, v \in {Foreign, None} : secret' = [secret EXCEPT !.ann[k] = v]
      BY <1>2 DEF TouchSecret
    <2>3. secret'.tracked = secret.tracked
      BY <2>1, <2>2 DEF Secret
    <2>4. \A j \in Keys : secret'.ann[j] = IF j = k THEN v ELSE secret.ann[j]
      BY <2>1, <2>2 DEF Secret
    <2>5. QED
      BY <2>1, <2>3, <2>4, ConstantsAssumption DEF Tidy
  <1>3. CASE UNCHANGED secret
    BY <1>3 DEF IInv, Tidy
  <1>4. QED
    BY <1>1, <1>2, <1>3, SecretWriters

(* SecretRight is about the Secret, the spec and the Shoot only.            *)
LEMMA RightUnchanged ==
  ASSUME SecretRight, UNCHANGED <<secret, spec, workerless>>
  PROVE  SecretRight'
  BY DEF SecretRight, SecretAnnotations

(* A step of one controller leaves the work of the others alone, and its    *)
(* own is past the Secret.                                                  *)
LEMMA WorkOf ==
  ASSUME TypeOK, NEW w \in Controllers,
         \/ work' = Finish(w) \/ work' = AfterSecret(w)
         \/ \E pc \in {"client", "get", "unbind", "bind"} :
              work' = Goto(w, pc) \/ work' = Continue(w, pc)
  PROVE  /\ \A v \in Controllers \ {w} : work'[v] = work[v]
         /\ work'[w].spec = work[w].spec
         /\ work'[w].pc # "secret"
  <1>1. work \in [Controllers -> Work]
    BY DEF TypeOK
  <1>2. CASE work' = Finish(w)
    BY <1>1, <1>2 DEF Finish, Idle
  <1>3. ASSUME NEW pc \in {"client", "get", "unbind", "bind"}, work' = Goto(w, pc)
        PROVE  /\ \A v \in Controllers \ {w} : work'[v] = work[v]
               /\ work'[w].spec = work[w].spec
               /\ work'[w].pc # "secret"
    BY <1>1, <1>3 DEF Goto, Work
  <1>4. QED
    BY <1>2, <1>3 DEF Continue, AfterSecret

(* Steps that leave the Secret and the live controller's work alone, or     *)
(* take place after it wrote the Secret or bring its request back.          *)
LEMMA LiveSame ==
  ASSUME IInv, UNCHANGED <<spec, workerless, secret, live, restart>>,
         touched => touched', queued => queued',
         work'[live] = work[live]
  PROVE  LiveHolds'
  BY RightUnchanged DEF IInv, LiveHolds, At

LEMMA LivePast ==
  ASSUME IInv, UNCHANGED <<spec, workerless, secret, live, restart>>,
         touched => touched', queued => queued',
         work'[live].spec = work[live].spec, work'[live].pc # "secret",
         At(live, "secret") => queued'
  PROVE  LiveHolds'
  BY RightUnchanged DEF IInv, LiveHolds, At

(* A pass of the live controller that finds nothing to write has found the  *)
(* Secret right, or has missed a change.                                    *)
LEMMA LiveKeeps ==
  ASSUME IInv, KeepSecret(live)
  PROVE  LiveHolds'
  <1> USE DEF controllerVars
  <1>1. /\ live \in Controllers /\ TypeOK
        /\ work[live].spec \in Specs /\ work[live].workerless \in BOOLEAN
    BY DEF IInv, TypeOK, Work
  <1>2. work'[live].spec = work[live].spec /\ work'[live].pc # "secret"
    BY <1>1, WorkOf DEF KeepSecret
  <1>3. ASSUME ~queued, ~restart, ~touched' PROVE SecretRight'
    <2>1. work[live].read = secret /\ Merged(live) = secret
      BY <1>3 DEF KeepSecret, Rewrites
    <2>2. work[live].spec = spec /\ work[live].workerless = workerless
      BY <1>3 DEF IInv, LiveHolds, KeepSecret
    <2>3. PICK old \in Secret : Tidy(old) /\ secret = MergeSecret(old, spec, workerless)
      BY <1>1, <2>1, <2>2, WriteMerges
    <2>4. UNCHANGED <<secret, spec, workerless>>
      BY DEF KeepSecret
    <2>5. QED
      BY <1>1, <2>2, <2>3, <2>4, MergeRight
  <1>4. QED
    BY <1>2, <1>3 DEF LiveHolds, At, IInv, KeepSecret

(* A write of the live controller makes the Secret right, for the spec and  *)
(* the Shoot its pass knows.                                                *)
LEMMA LiveWrites ==
  ASSUME IInv, WriteSecret(live)
  PROVE  LiveHolds'
  <1> USE DEF controllerVars
  <1>1. /\ live \in Controllers /\ TypeOK
        /\ work[live].spec \in Specs /\ work[live].workerless \in BOOLEAN
    BY DEF IInv, TypeOK, Work
  <1>2. work'[live].spec = work[live].spec /\ work'[live].pc # "secret"
    BY <1>1, WorkOf DEF WriteSecret
  <1>3. ASSUME ~queued, ~restart PROVE SecretRight'
    <2>1. work[live].spec = spec /\ work[live].workerless = workerless
      BY <1>3 DEF IInv, LiveHolds, WriteSecret, Rewrites
    <2>2. PICK old \in Secret : Tidy(old) /\ Merged(live) = MergeSecret(old, spec, workerless)
      BY <1>1, <2>1, WriteMerges DEF WriteSecret
    <2>3. secret' = Merged(live) /\ UNCHANGED <<spec, workerless>>
      BY DEF WriteSecret
    <2>4. QED
      BY <1>1, <2>1, <2>2, <2>3, MergeRight
  <1>4. QED
    BY <1>2, <1>3 DEF LiveHolds, At, IInv, WriteSecret

(* What others write is noticed, or the live controller is about to meet a  *)
(* conflict.                                                                *)
LEMMA LiveDisturbed ==
  ASSUME IInv, UNCHANGED <<spec, workerless, live, restart, queued>>,
         work'[live] = work[live], touched' = Unnoticed
  PROVE  LiveHolds'
  BY DEF IInv, LiveHolds, At, Unnoticed, Rewrites

(* One step of a pass.                                                      *)
LEMMA LivePass ==
  ASSUME IInv, NEW w \in Controllers,
         Step(w) \/ PassFails(w) \/ SetRBACFails(w) \/ PassAborted(w)
  PROVE  LiveHolds'
  <1> USE DEF serverVars, controllerVars
  <1>0. TypeOK /\ live \in Controllers
    BY DEF IInv, TypeOK
  <1>1. CASE KeepSecret(w)
    <2>1. CASE w # live
      BY <1>0, <1>1, <2>1, WorkOf, LiveSame DEF KeepSecret
    <2>2. QED
      BY <1>1, <2>1, LiveKeeps
  <1>2. CASE WriteSecret(w)
    <2>1. CASE w # live
      <3>1. work'[live] = work[live]
        BY <1>0, <1>2, <2>1, WorkOf DEF WriteSecret
      <3>2. QED
        BY <1>2, <2>1, <3>1, LiveDisturbed DEF WriteSecret
    <2>2. QED
      BY <1>2, <2>1, LiveWrites
  <1>3. CASE WriteSecretConflicts(w) \/ PassFails(w)
    <2>1. /\ UNCHANGED <<spec, workerless, secret, touched, live, restart>>
          /\ work' = Finish(w) /\ queued' = (queued \/ w = live)
      BY <1>3 DEF WriteSecretConflicts, PassFails, Requeue
    <2>2. CASE w # live
      BY <1>0, <2>1, <2>2, WorkOf, LiveSame
    <2>3. CASE w = live
      BY <1>0, <2>1, <2>3, WorkOf, LivePast
    <2>4. QED
      BY <2>2, <2>3
  <1>4. CASE \/ GetShootClusterClient(w) \/ GetBinding(w) \/ DeleteBinding(w)
             \/ CreateOrUpdateBinding(w) \/ SetRBACFails(w)
    <2>1. /\ UNCHANGED <<spec, workerless, secret, touched, live, queued, restart>>
          /\ ~At(w, "secret")
          /\ \/ work' = Finish(w)
             \/ \E pc \in {"client", "get", "unbind", "bind"} :
                  work' = Goto(w, pc) \/ work' = Continue(w, pc)
      BY <1>4 DEF GetShootClusterClient, GetBinding, DeleteBinding, CreateOrUpdateBinding,
           SetRBACFails, At
    <2>2. CASE w # live
      BY <1>0, <2>1, <2>2, WorkOf, LiveSame
    <2>3. CASE w = live
      BY <1>0, <2>1, <2>3, WorkOf, LivePast
    <2>4. QED
      BY <2>2, <2>3
  <1>5. CASE PassAborted(w)
    BY <1>0, <1>5, WorkOf, LiveSame DEF PassAborted
  <1>6. QED
    BY <1>1, <1>2, <1>3, <1>4, <1>5 DEF Step

LEMMA InvStep == IInv /\ [Next]_vars => IInv'
  <1> SUFFICES ASSUME IInv, [Next]_vars PROVE LiveHolds'
    BY TypeStep, TidyStep DEF IInv
  <1> USE DEF serverVars, controllerVars
  <1>0. TypeOK /\ live \in Controllers /\ work \in [Controllers -> Work]
    BY DEF IInv, TypeOK
  <1>1. CASE Begin
    <2>1. /\ work'[live].spec = work[live].spec /\ work'[live].pc = "secret"
          /\ work'[live].workerless = workerless
      BY <1>0, <1>1 DEF Begin, Work
    <2>2. QED
      BY <1>1, <2>1 DEF Begin, IInv, LiveHolds, At
  <1>2. CASE DeliverSecret \/ Maintenance \/ TouchBinding \/ UNCHANGED vars
    BY <1>2, LiveSame DEF DeliverSecret, Maintenance, TouchBinding, vars
  <1>3. CASE Crash
    BY <1>0, <1>3 DEF Crash, LiveHolds, Idle
  <1>4. ASSUME NEW w \in Controllers,
               Step(w) \/ PassFails(w) \/ SetRBACFails(w) \/ PassAborted(w)
        PROVE  LiveHolds'
    BY <1>4, LivePass
  <1>5. ASSUME NEW w \in Controllers, RestartShootController(w)
        PROVE  LiveHolds'
    BY <1>0, <1>5 DEF RestartShootController, LiveHolds, Idle
  <1>6. CASE EditSpec
    BY <1>6 DEF EditSpec, IInv, LiveHolds, At
  <1>7. CASE RecreateShoot
    BY <1>7 DEF RecreateShoot, IInv, LiveHolds, At
  <1>8. CASE TouchSecret
    BY <1>8, LiveDisturbed DEF TouchSecret
  <1>9. QED
    BY <1>1, <1>2, <1>3, <1>4, <1>5, <1>6, <1>7, <1>8 DEF Next

-----------------------------------------------------------------------------
(* The theorems.                                                            *)

(* What every step preserves, whichever controllers are replaced in the     *)
(* middle of a pass, holds in every reachable state.                        *)
THEOREM AccessInvariant == Spec => []IInv
  BY InvInit, InvStep, PTL DEF Spec

(* The variables have their types.                                          *)
THEOREM AccessTypes == Spec => []TypeOK
  <1>1. IInv => TypeOK
    BY DEF IInv
  <1>2. QED
    BY <1>1, AccessInvariant, PTL

(* A value that additionalAnnotations ever gave to the Secret is tracked as *)
(* long as it is there, so that CreateOrUpdate can take it off.             *)
THEOREM NothingForgotten == Spec => []NoForgottenAnnotation
  <1>1. IInv => NoForgottenAnnotation
    BY DEF IInv, Tidy, NoForgottenAnnotation
  <1>2. QED
    BY <1>1, AccessInvariant, PTL

(* At rest the Secret is that of the spec in force and of the Shoot as it   *)
(* is, although passes of replaced controllers, conflicts and failures are  *)
(* behind it.                                                               *)
THEOREM RestingSecretRight == Spec => []AtRestSecret
  <1>1. ASSUME IInv, AtRest, ~touched PROVE SecretRight
    BY <1>1 DEF IInv, TypeOK, AtRest, LiveHolds, At
  <1>2. IInv => AtRestSecret
    BY <1>1 DEF AtRestSecret
  <1>3. QED
    BY <1>2, AccessInvariant, PTL

(* No write of a controller touches an annotation that another wrote under  *)
(* a key that no spec names.                                                *)
THEOREM OthersKept == Spec => ForeignKept
  <1>1. ASSUME IInv, [Next]_vars,
               NEW k \in Keys \ (Reserved \cup {Workerless}),
               secret # None, secret.ann[k] = Foreign,
               \A s \in Specs : k \notin s.keys, UNCHANGED edits
        PROVE  secret'.ann[k] = Foreign
    <2>1. ASSUME NEW w \in Controllers, WriteSecret(w)
          PROVE  secret'.ann[k] = Foreign
      <3>1. secret \in Secret /\ Tidy(secret)
        BY <1>1 DEF IInv, TypeOK
      <3>2. secret' = MergeSecret(secret, work[w].spec, work[w].workerless)
        BY <1>1, <2>1, WriteMerges DEF WriteSecret
      <3>3. work[w].spec \in Specs /\ work[w].workerless \in BOOLEAN
        BY <1>1 DEF IInv, TypeOK, Work
      <3>4. QED
        BY <1>1, <3>1, <3>2, <3>3, MergeForeign
    <2>2. ~TouchSecret
      BY <1>1 DEF TouchSecret, Edit, IInv, TypeOK
    <2>3. CASE UNCHANGED secret
      BY <1>1, <2>3
    <2>4. QED
      BY <1>1, <2>1, <2>2, <2>3, SecretWriters
  <1>2. IInv /\ [Next]_vars =>
          [\A k \in Keys \ (Reserved \cup {Workerless}) :
             /\ secret # None /\ secret.ann[k] = Foreign
             /\ \A s \in Specs : k \notin s.keys
             /\ UNCHANGED edits
             => secret'.ann[k] = Foreign]_vars
    BY <1>1
  <1>3. QED
    BY <1>2, AccessInvariant, PTL DEF Spec, ForeignKept
=============================================================================
