--------------------------- MODULE ArmingContract ---------------------------
(***************************************************************************)
(* What the arming gate promises, with nothing of how it is done           *)
(* (docs/CONTROL_PROTOCOL.md, "Safety model and arming lease"): the        *)
(* simulated UPS leaves its safe state only while the simulator is armed,  *)
(* arming does not disturb it, disarming restores it in the same step, and *)
(* an armed simulator with a lease does not stay so for longer than the    *)
(* lease and a fixed slack after the last sign of life of a controller.    *)
(***************************************************************************)
EXTENDS Integers

CONSTANTS
  Worlds,    \* the states of the simulated UPS
  Safe,      \* the safe one
  Slack      \* how late the expiry of the lease may be noticed

VARIABLES
  armed, lease,
  age,       \* time since the last sign of life, while a lease runs
  world      \* the simulated UPS

vars == <<armed, lease, age, world>>

Init == armed = FALSE /\ lease = 0 /\ age = 0 /\ world = Safe

Arm ==
  /\ armed' = TRUE /\ lease' \in Nat /\ age' = 0
  /\ UNCHANGED world

(* A controller is heard of, and may change the UPS. *)
Use ==
  /\ armed /\ world' \in Worlds /\ age' = 0
  /\ UNCHANGED <<armed, lease>>

Restore == armed' = FALSE /\ lease' = 0 /\ age' = 0 /\ world' = Safe

Elapse ==
  /\ armed /\ lease # 0
  /\ age' = age + 1 /\ age' < lease + Slack
  /\ UNCHANGED <<armed, lease, world>>

Next == Arm \/ Use \/ Restore \/ Elapse

Spec == Init /\ [][Next]_vars
=============================================================================
