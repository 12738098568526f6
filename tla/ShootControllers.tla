-------------------------- MODULE ShootControllers --------------------------
(***************************************************************************)
(* What the CareInstruction controller promises about shoot controllers,   *)
(* without reconciles, conditions, caches and map entries: a CareInstruc-  *)
(* tion that exists has room for one controller. A controller is started   *)
(* only into an empty place, and a CareInstruction goes only when its      *)
(* place is empty. Module GardenManagers implements this.                  *)
(***************************************************************************)
CONSTANTS CareInstructions, Managers

VARIABLES
  exists,   \* is the CareInstruction on the API server?
  running   \* the shoot controllers that nobody has stopped, by CareInstruction

Init ==
  /\ exists \in [CareInstructions -> BOOLEAN]
  /\ running = [c \in CareInstructions |-> {}]

Create(c) ==
  /\ ~exists[c]
  /\ exists' = [exists EXCEPT ![c] = TRUE]
  /\ UNCHANGED running

Start(c, m) ==
  /\ exists[c] /\ running[c] = {}
  /\ \A d \in CareInstructions : m \notin running[d]
  /\ running' = [running EXCEPT ![c] = {m}]
  /\ UNCHANGED exists

(* It is cancelled, or dies.                                                *)
Stop(c) ==
  /\ running' = [running EXCEPT ![c] = {}]
  /\ UNCHANGED exists

Remove(c) ==
  /\ running[c] = {}
  /\ exists' = [exists EXCEPT ![c] = FALSE]
  /\ UNCHANGED running

Crash ==
  /\ running' = [c \in CareInstructions |-> {}]
  /\ UNCHANGED exists

Next ==
  \/ \E c \in CareInstructions :
       Create(c) \/ Stop(c) \/ Remove(c) \/ \E m \in Managers : Start(c, m)
  \/ Crash

Spec == Init /\ [][Next]_<<exists, running>>
=============================================================================
