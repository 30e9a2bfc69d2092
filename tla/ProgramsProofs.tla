--------------------------- MODULE ProgramsProofs ---------------------------
(***************************************************************************)
(* Theorems about module FirmwareSim, for all lines, leases and clocks,    *)
(* and about module Programs, whose programs run against it.  Both move    *)
(* the simulator by command() and advance() only (SimStep), so that what a *)
(* step keeps is proved once, for lines of any content.  Then what follows *)
(* for the programs: what exit status 0 means, and, from the script of the *)
(* self test annotated with what it knows, that a failure it reports is    *)
(* never its own.  At the end, the number parsers of module Arguments, for *)
(* tokens of any length.                                                   *)
(***************************************************************************)
EXTENDS Programs, Arguments, SequenceTheorems, WellFoundedInduction, TLAPS

-----------------------------------------------------------------------------
(* Lemmas about the operators of the model.                                *)

(* what the proofs need of the widths, which stay unexpanded elsewhere *)
LEMMA Bounds ==
  /\ UINT16_MAX \in Int /\ UINT16_MAX >= 23000
  /\ INT16_MAX \in Int /\ INT16_MAX > 0
BY SMT DEF UINT16_MAX, INT16_MAX

LEMMA Widths ==
  /\ \A x \in 0 .. AVG_TIME_TO_EMPTY : x \in UInt16
  /\ \A x \in 0 .. 100 : x \in UInt16
  /\ AVG_TIME_TO_EMPTY \in UInt16
<1>1. \A x \in 0 .. AVG_TIME_TO_EMPTY : x \in UInt16
  BY Bounds, SMT DEF UInt16, AVG_TIME_TO_EMPTY
<1>2. \A x \in 0 .. 100 : x \in UInt16
  BY Bounds, SMT DEF UInt16
<1>3. AVG_TIME_TO_EMPTY \in UInt16
  BY Bounds, SMT DEF UInt16, AVG_TIME_TO_EMPTY
<1> QED BY <1>1, <1>2, <1>3, Zenon

(* the runtime of the automatic mode fits its width *)
LEMMA AutoFacts ==
  /\ \A charge \in 0 .. 100 : AutoRuntime(charge) \in UInt16
  /\ AutoRuntime(100) = AVG_TIME_TO_EMPTY
<1>1. \A charge \in 0 .. 100 : AutoRuntime(charge) \in 0 .. AVG_TIME_TO_EMPTY
  BY SMT DEF AutoRuntime, AVG_TIME_TO_EMPTY, FULL_CHARGE_CAPACITY
<1>2. AutoRuntime(100) = AVG_TIME_TO_EMPTY
  BY SMT DEF AutoRuntime, AVG_TIME_TO_EMPTY, FULL_CHARGE_CAPACITY
<1>3. \A charge \in 0 .. 100 : AutoRuntime(charge) \in UInt16
  BY <1>1, Widths, Zenon
<1> QED BY <1>2, <1>3

LEMMA RuntimeFacts ==
  ASSUME NEW auto \in BOOLEAN, NEW seconds \in UInt16, NEW charge \in 0 .. 100
  PROVE  /\ RuntimeAfter(auto, seconds, charge) \in UInt16
         /\ auto /\ charge = 100 => RuntimeAfter(auto, seconds, charge) = AVG_TIME_TO_EMPTY
BY AutoFacts, Zenon DEF RuntimeAfter

(* what the lines name is a switch, an override, a level *)
LEMMA Names ==
  ASSUME NEW op
  PROVE  /\ op \in DOMAIN SwitchOf => SwitchOf[op] \in Switches
         /\ op \in DOMAIN OverrideOf => OverrideOf[op] \in {"charging", "low_battery"}
         /\ op \in DOMAIN LevelOf => LevelOf[op] \in DOMAIN SafeLevel
         /\ op \in DOMAIN SwitchOf => op \in {"AC", "OVERLOAD", "REPLACE", "COMMLOST", "SHUTDOWN"}
         /\ op \in DOMAIN OverrideOf => op \in {"CHARGING", "LOWBAT"}
         /\ op \in DOMAIN LevelOf => op \in {"LOAD", "VOLTAGE", "INPUTVOLTAGE", "OUTPUTVOLTAGE"}
<1>1. op \in DOMAIN SwitchOf => /\ SwitchOf[op] \in Switches
                                /\ op \in {"AC", "OVERLOAD", "REPLACE", "COMMLOST", "SHUTDOWN"}
  BY DEF SwitchOf, Switches
<1>2. op \in DOMAIN OverrideOf => /\ OverrideOf[op] \in {"charging", "low_battery"}
                                  /\ op \in {"CHARGING", "LOWBAT"}
  BY DEF OverrideOf
<1>3. op \in DOMAIN LevelOf => /\ LevelOf[op] \in DOMAIN SafeLevel
                               /\ op \in {"LOAD", "VOLTAGE", "INPUTVOLTAGE", "OUTPUTVOLTAGE"}
  BY DEF LevelOf, SafeLevel
<1> QED BY <1>1, <1>2, <1>3

(* the defaults are values of their types *)
LEMMA SafeTypes ==
  /\ SafeSwitch \in [Switches -> BOOLEAN]
  /\ SafeOverride \in [{"charging", "low_battery"} -> {Automatic, Off, On}]
  /\ SafeLevel \in [DOMAIN SafeLevel -> UInt16]
  /\ NoDelay \in [DOMAIN NoDelay -> StartDelays]
<1>1. SafeSwitch \in [Switches -> BOOLEAN]
  BY DEF SafeSwitch
<1>2. SafeOverride \in [{"charging", "low_battery"} -> {Automatic, Off, On}]
  BY DEF SafeOverride
<1>3. SafeLevel \in [DOMAIN SafeLevel -> UInt16]
  <2>1. DOMAIN SafeLevel = {"load", "voltage", "input", "output"}
    BY DEF SafeLevel
  <2>2. /\ SafeLevel["load"] \in UInt16 /\ SafeLevel["voltage"] \in UInt16
        /\ SafeLevel["input"] \in UInt16 /\ SafeLevel["output"] \in UInt16
    BY Bounds, SMT DEF SafeLevel, UInt16
  <2>3. SafeLevel = [l \in DOMAIN SafeLevel |-> SafeLevel[l]]
    BY DEF SafeLevel
  <2> QED BY <2>1, <2>2, <2>3, Zenon
<1>4. NoDelay \in [DOMAIN NoDelay -> StartDelays]
  <2>1. DOMAIN NoDelay = {"start", "shutdown", "reboot"}
    BY DEF NoDelay
  <2>2. /\ NoDelay["start"] \in StartDelays /\ NoDelay["shutdown"] \in StartDelays
        /\ NoDelay["reboot"] \in StartDelays
    BY Bounds, SMT DEF NoDelay, StartDelays
  <2>3. NoDelay = [d \in DOMAIN NoDelay |-> NoDelay[d]]
    BY DEF NoDelay
  <2> QED BY <2>1, <2>2, <2>3, Zenon
<1> QED BY <1>1, <1>2, <1>3, <1>4

LEMMA WrappedIsTime ==
  ASSUME NEW t \in Int PROVE Wrapped(t) \in 0 .. ClockWrap - 1
<1>1. ClockWrap \in Nat /\ ClockWrap > 0
  BY SimAssumption, SMT
<1> QED BY <1>1, SMT DEF Wrapped

(* a call of command() or advance(), or none *)
SimStep == (\E r : Command(r)) \/ (\E ms \in Advances : Advance(ms)) \/ UNCHANGED vars

LEMMA NextIsStep == [Next]_vars => SimStep
BY Zenon DEF Next, SimStep

-----------------------------------------------------------------------------
(* Type correctness.                                                       *)

ClockType == now_ms \in 0 .. ClockWrap - 1 /\ last_command_ms \in 0 .. ClockWrap - 1
GateType  == armed \in BOOLEAN /\ arm_lease_ms \in 0 .. ARM_MAX_LEASE /\ silent \in Nat
ScenarioType ==
  /\ switch \in [Switches -> BOOLEAN]
  /\ override \in [{"charging", "low_battery"} -> {Automatic, Off, On}]
  /\ runtime_auto \in BOOLEAN /\ runtime_seconds \in UInt16
  /\ battery_percent \in 0 .. 100
  /\ level \in [DOMAIN SafeLevel -> UInt16]
  /\ host_delay \in [DOMAIN NoDelay -> StartDelays]

LEMMA TypeParts == TypeOK <=> ClockType /\ GateType /\ ScenarioType
BY Zenon DEF TypeOK, ClockType, GateType, ScenarioType

LEMMA TypePartsNext == ClockType' /\ GateType' /\ ScenarioType' => TypeOK'
BY Zenon DEF TypeOK, ClockType, GateType, ScenarioType

LEMMA RestoredType == ASSUME Restore PROVE ScenarioType'
<1>1. runtime_seconds' \in UInt16 /\ battery_percent' \in 0 .. 100
  <2>1. battery_percent' \in 0 .. 100
    BY SMT DEF Restore
  <2> QED BY <2>1, Widths, Zenon DEF Restore
<1> QED BY <1>1, SafeTypes, Zenon DEF Restore, ScenarioType

LEMMA SafeStateType == ASSUME TypeOK, SetSafeState PROVE /\ ScenarioType' /\ armed' \in BOOLEAN
                                                  /\ arm_lease_ms' \in 0 .. ARM_MAX_LEASE
                                                  /\ last_command_ms' \in 0 .. ClockWrap - 1
<1>1. ScenarioType' /\ armed' \in BOOLEAN
  BY RestoredType DEF SetSafeState
<1>2. 0 \in 0 .. ARM_MAX_LEASE /\ 0 \in 0 .. ClockWrap - 1
  BY SimAssumption, SMT
<1> QED BY <1>1, <1>2 DEF SetSafeState

LEMMA RefreshType == ASSUME TypeOK, Refresh PROVE last_command_ms' \in 0 .. ClockWrap - 1 /\ silent' \in Nat
BY DEF Refresh, TypeOK

LEMMA ChangeType ==
  ASSUME TypeOK, NEW r, Change(r) PROVE ScenarioType'
<1>1. switch' \in [Switches -> BOOLEAN]
  BY Names DEF TypeOK, Change
<1>2. override' \in [{"charging", "low_battery"} -> {Automatic, Off, On}]
  <2>1. r.op \in DOMAIN OverrideOf => r.arg \in {Automatic, Off, On}
    BY Names DEF Change, Parses
  <2> QED BY <2>1, Names DEF TypeOK, Change
<1>3. level' \in [DOMAIN SafeLevel -> UInt16]
  <2>0. /\ Parses(r)
        /\ r.op \in DOMAIN SwitchOf => r.op \in {"AC", "OVERLOAD", "REPLACE", "COMMLOST", "SHUTDOWN"}
        /\ r.op \in DOMAIN OverrideOf => r.op \in {"CHARGING", "LOWBAT"}
    BY Names DEF Change
  <2>1. r.op \in {"VOLTAGE", "INPUTVOLTAGE", "OUTPUTVOLTAGE"} => r.arg \in UInt16
    BY <2>0 DEF Parses
  <2>2. r.op = "LOAD" => r.arg \in UInt16
    BY <2>0, Widths DEF Parses
  <2>3. r.op \in DOMAIN LevelOf => r.arg \in UInt16
    BY <2>1, <2>2, Names
  <2> QED BY <2>3, Names DEF TypeOK, Change
<1>4. battery_percent' \in 0 .. 100 /\ runtime_auto' \in BOOLEAN
  BY Names DEF TypeOK, Change, Parses
<1>5. runtime_seconds' \in UInt16
  <2>1. r.op = "RUNTIME" => r.arg \in UInt16
    BY Names DEF Change, Parses
  <2>2. RuntimeAfter(runtime_auto', runtime_seconds, battery_percent') \in UInt16
    BY <1>4, RuntimeFacts DEF TypeOK
  <2> QED BY <2>1, <2>2 DEF Change
<1>6. host_delay' \in [DOMAIN NoDelay -> StartDelays]
  <2>1. r.op = "STARTDELAY" => r.arg \in StartDelays
    BY Names DEF Change, Parses
  <2>2. "start" \in DOMAIN NoDelay
    BY DEF NoDelay
  <2> QED BY <2>1, <2>2 DEF TypeOK, Change
<1> QED BY <1>1, <1>2, <1>3, <1>4, <1>5, <1>6, Zenon DEF ScenarioType

LEMMA TypeStep == TypeOK /\ SimStep => TypeOK'
<1> SUFFICES ASSUME TypeOK, SimStep PROVE TypeOK'
  OBVIOUS
<1>1. ASSUME NEW r, Answer(r) PROVE TypeOK'
  <2>1. ClockType' /\ GateType'
    BY <1>1, RefreshType DEF Answer, TypeOK, ClockType, GateType
  <2>2. ScenarioType'
    BY <1>1, Zenon DEF Answer, ScenarioVars, TypeOK, ScenarioType
  <2> QED BY <2>1, <2>2, TypePartsNext
<1>2. ASSUME NEW r, Recompute(r) PROVE TypeOK'
  <2>1. ClockType' /\ GateType'
    BY <1>2, RefreshType DEF Recompute, TypeOK, ClockType, GateType
  <2>2. ScenarioType'
    BY <1>2, RuntimeFacts, Zenon DEF Recompute, TypeOK, ScenarioType
  <2> QED BY <2>1, <2>2, TypePartsNext
<1>3. ASSUME NEW r, Arm(r) PROVE TypeOK'
  <2>1. ClockType' /\ GateType'
    BY <1>3 DEF Arm, TypeOK, ClockType, GateType
  <2>2. ScenarioType'
    BY <1>3, RuntimeFacts, Zenon DEF Arm, TypeOK, ScenarioType
  <2> QED BY <2>1, <2>2, TypePartsNext
<1>4. ASSUME NEW r, Disarm(r) PROVE TypeOK'
  <2>1. ClockType' /\ GateType'
    BY <1>4, SafeStateType DEF Disarm, TypeOK, ClockType, GateType
  <2> QED BY <1>4, <2>1, SafeStateType, TypePartsNext DEF Disarm
<1>5. ASSUME NEW r, Change(r) PROVE TypeOK'
  <2>1. ClockType' /\ GateType'
    BY <1>5, RefreshType DEF Change, TypeOK, ClockType, GateType
  <2> QED BY <1>5, <2>1, ChangeType, TypePartsNext
<1>6. ASSUME NEW ms \in Advances, Advance(ms) PROVE TypeOK'
  <2>1. now_ms' \in 0 .. ClockWrap - 1
    <3>1. now_ms + ms \in Int
      BY SimAssumption DEF TypeOK
    <3> QED BY <1>6, <3>1, WrappedIsTime DEF Advance
  <2>2. CASE SetSafeState /\ silent' = 0
    BY <2>1, <2>2, SafeStateType, TypePartsNext DEF ClockType, GateType
  <2>3. CASE /\ silent' = IF armed /\ arm_lease_ms # 0 THEN silent + ms ELSE 0
             /\ UNCHANGED <<armed, arm_lease_ms, last_command_ms, ScenarioVars, hid_status>>
    <3>1. ClockType' /\ GateType'
      BY <2>1, <2>3, SimAssumption DEF TypeOK, ClockType, GateType
    <3>2. ScenarioType'
      BY <2>3, Zenon DEF ScenarioVars, TypeOK, ScenarioType
    <3> QED BY <3>1, <3>2, TypePartsNext
  <2> QED BY <1>6, <2>2, <2>3, Zenon DEF Advance
<1>7. CASE UNCHANGED vars
  BY <1>7, Zenon DEF vars, TypeOK
<1> QED BY <1>1, <1>2, <1>3, <1>4, <1>5, <1>6, <1>7, Zenon DEF SimStep, Command

LEMMA InitType == Init => TypeOK
<1> SUFFICES ASSUME Init PROVE TypeOK
  OBVIOUS
<1>1. ClockType /\ GateType
  <2>1. 0 \in 0 .. ClockWrap - 1 /\ 0 \in 0 .. ARM_MAX_LEASE /\ 0 \in Nat
    BY SimAssumption, SMT
  <2> QED BY <2>1, Zenon DEF Init, ClockType, GateType
<1>2. battery_percent \in 0 .. 100 /\ runtime_auto \in BOOLEAN
  BY DEF Init
<1>3. ScenarioType
  BY <1>2, SafeTypes, Widths, Zenon DEF Init, ScenarioType
<1> QED BY <1>1, <1>3, TypeParts

(* Whatever lines are passed to command() and however advance() moves the  *)
(* clock, no attribute leaves its range: the runtime fits sixteen bits     *)
(* also when it is computed, and the clock wraps within its width.         *)
THEOREM TypeCorrect == Spec => []TypeOK
BY InitType, NextIsStep, TypeStep, PTL DEF Spec

-----------------------------------------------------------------------------
(* The status follows every operation.                                     *)

LEMMA InitStatus == Init => StatusIsCurrent
<1>1. NoDelay.shutdown = -1
  BY SMT DEF NoDelay
<1> QED BY <1>1, Zenon DEF Init, StatusIsCurrent

LEMMA StatusStep == StatusIsCurrent /\ SimStep => StatusIsCurrent'
<1> SUFFICES ASSUME StatusIsCurrent, SimStep PROVE StatusIsCurrent'
  OBVIOUS
<1>1. UpdateModel => StatusIsCurrent'
  BY Zenon DEF UpdateModel, StatusIsCurrent
<1>2. UNCHANGED <<armed, ScenarioVars, hid_status>> => StatusIsCurrent'
  BY Zenon DEF ScenarioVars, StatusIsCurrent
<1>3. ASSUME NEW r, Command(r) PROVE StatusIsCurrent'
  BY <1>1, <1>2, <1>3, Zenon DEF Command, Answer, Recompute, Arm, Disarm, Change
<1>4. ASSUME NEW ms \in Advances, Advance(ms) PROVE StatusIsCurrent'
  BY <1>1, <1>2, <1>4, Zenon DEF Advance
<1>5. CASE UNCHANGED vars
  BY <1>2, <1>5, Zenon DEF vars, ScenarioVars
<1> QED BY <1>3, <1>4, <1>5, Zenon DEF SimStep

(* Whatever path command() or advance() takes, the status the HID report   *)
(* is built from is that of the attributes as the operation leaves them:   *)
(* no early return between an assignment and _update_model().              *)
THEOREM StatusIsAlwaysCurrent == Spec => []StatusIsCurrent
BY InitStatus, NextIsStep, StatusStep, PTL DEF Spec

-----------------------------------------------------------------------------
(* A disarmed object holds the defaults.                                   *)

LEMMA RestoredIsSafe == ASSUME SetSafeState PROVE DisarmedIsSafe'
BY Zenon DEF SetSafeState, Restore, DisarmedIsSafe

LEMMA InitDisarmed == Init => DisarmedIsSafe
BY Zenon DEF Init, DisarmedIsSafe

LEMMA DisarmedStep == DisarmedIsSafe /\ SimStep => DisarmedIsSafe'
<1> SUFFICES ASSUME DisarmedIsSafe, SimStep PROVE DisarmedIsSafe'
  OBVIOUS
<1>1. UNCHANGED <<armed, arm_lease_ms, ScenarioVars>> => DisarmedIsSafe'
  BY DEF ScenarioVars, DisarmedIsSafe
<1>2. ASSUME NEW r, Answer(r) PROVE DisarmedIsSafe'
  BY <1>1, <1>2, Zenon DEF Answer
<1>3. ASSUME NEW r, Recompute(r) PROVE DisarmedIsSafe'
  BY <1>3, AutoFacts, Zenon DEF Recompute, RuntimeAfter, DisarmedIsSafe
<1>4. ASSUME NEW r, Arm(r) \/ Change(r) PROVE armed'
  <2>1. Arm(r) => armed'
    BY DEF Arm
  <2>2. Change(r) => armed /\ armed' = armed
    BY DEF Change
  <2> QED BY <1>4, <2>1, <2>2
<1>5. ASSUME NEW r, Disarm(r) PROVE DisarmedIsSafe'
  BY <1>5, RestoredIsSafe, Zenon DEF Disarm
<1>6. ASSUME NEW ms \in Advances, Advance(ms) PROVE DisarmedIsSafe'
  BY <1>1, <1>6, RestoredIsSafe, Zenon DEF Advance
<1>7. CASE UNCHANGED vars
  BY <1>1, <1>7, Zenon DEF vars, ScenarioVars
<1>8. armed' => DisarmedIsSafe'
  BY Zenon DEF DisarmedIsSafe
<1> QED BY <1>2, <1>3, <1>4, <1>5, <1>6, <1>7, <1>8, Zenon DEF SimStep, Command

(* While the simulator is disarmed nothing but the defaults is in any      *)
(* attribute, the lease included: what a program configured while it was   *)
(* armed never survives ARM OFF, RESET or the end of the lease.            *)
THEOREM DisarmedSafe == Spec => []DisarmedIsSafe
BY InitDisarmed, NextIsStep, DisarmedStep, PTL DEF Spec

-----------------------------------------------------------------------------
(* The lease ends in time.                                                 *)

(* no single step of the clock skips the lease and wraps past it           *)
ShortAdvances == \A ms \in Advances : ms + ARM_MAX_LEASE <= ClockWrap

(* the masked difference is the true silence while the lease runs          *)
LeaseInv ==
  armed /\ arm_lease_ms # 0 =>
    silent < arm_lease_ms /\ silent = Elapsed(now_ms)

LEMMA ElapsedNow == ASSUME NEW t \in Int PROVE (t - t) % ClockWrap = 0
<1>1. ClockWrap \in Nat /\ ClockWrap > 0
  BY SimAssumption, SMT
<1>2. t - t = 0
  BY SMT
<1>3. 0 % ClockWrap = 0
  BY <1>1, SMT
<1> QED BY <1>2, <1>3, Zenon

(* masking the clock and the difference keeps the count of the silence     *)
LEMMA ElapsedLater ==
  ASSUME NEW t \in 0 .. ClockWrap - 1, NEW u \in 0 .. ClockWrap - 1, NEW ms \in Nat,
         ((t - u) % ClockWrap) + ms < ClockWrap
  PROVE  (((t + ms) % ClockWrap) - u) % ClockWrap = ((t - u) % ClockWrap) + ms
<1>1. ClockWrap \in Nat /\ ClockWrap > 0
  BY SimAssumption, SMT
<1>2. (t - u) % ClockWrap = IF t >= u THEN t - u ELSE t - u + ClockWrap
  BY <1>1, SMT
<1>3. (t + ms) % ClockWrap = IF t + ms < ClockWrap THEN t + ms ELSE t + ms - ClockWrap
  BY <1>1, <1>2, SMT
<1>4. CASE t + ms < ClockWrap
  BY <1>1, <1>2, <1>3, <1>4, SMT
<1>5. CASE t + ms >= ClockWrap
  BY <1>1, <1>2, <1>3, <1>5, SMT
<1> QED BY <1>1, <1>4, <1>5, SMT

(* a line restarts the count *)
LEMMA RefreshedLease ==
  ASSUME TypeOK, Refresh, UNCHANGED <<now_ms, armed, arm_lease_ms>>
  PROVE  LeaseInv'
<1> SUFFICES ASSUME armed', arm_lease_ms' # 0
             PROVE  silent' < arm_lease_ms' /\ silent' = Elapsed(now_ms)'
  BY DEF LeaseInv
<1>1. last_command_ms' = now_ms /\ now_ms' = now_ms /\ silent' = 0
  BY DEF Refresh
<1>2. Elapsed(now_ms)' = 0
  <2>1. now_ms \in Int
    BY DEF TypeOK
  <2> QED BY <1>1, <2>1, ElapsedNow, Zenon DEF Elapsed
<1>3. silent' < arm_lease_ms'
  BY <1>1, SimAssumption DEF TypeOK
<1> QED BY <1>1, <1>2, <1>3, Zenon

LEMMA LeaseStep ==
  ASSUME ShortAdvances, TypeOK, TypeOK', LeaseInv, SimStep PROVE LeaseInv'
<1>1. ASSUME NEW r, Answer(r) \/ Recompute(r) \/ Change(r) PROVE LeaseInv'
  <2>1. Refresh /\ UNCHANGED <<now_ms, armed, arm_lease_ms>>
    BY <1>1, Zenon DEF Answer, Recompute, Change
  <2> QED BY <2>1, RefreshedLease
<1>2. ASSUME NEW r, Arm(r) PROVE LeaseInv'
  <2>1. last_command_ms' = now_ms /\ now_ms' = now_ms /\ silent' = 0
    BY <1>2 DEF Arm
  <2>2. Elapsed(now_ms)' = 0
    <3>1. now_ms \in Int
      BY DEF TypeOK
    <3> QED BY <2>1, <3>1, ElapsedNow, Zenon DEF Elapsed
  <2>3. arm_lease_ms' # 0 => silent' < arm_lease_ms'
    BY <2>1, SimAssumption DEF TypeOK
  <2> QED BY <2>1, <2>2, <2>3, Zenon DEF LeaseInv
<1>3. SetSafeState => LeaseInv'
  BY DEF SetSafeState, LeaseInv
<1>4. ASSUME NEW r, Disarm(r) PROVE LeaseInv'
  BY <1>3, <1>4 DEF Disarm
<1>5. ASSUME NEW ms \in Advances, Advance(ms) PROVE LeaseInv'
  <2>1. CASE SetSafeState
    BY <1>3, <2>1
  <2>2. CASE ~SetSafeState
    <3> SUFFICES ASSUME armed', arm_lease_ms' # 0
                 PROVE  silent' < arm_lease_ms' /\ silent' = Elapsed(now_ms)'
      BY DEF LeaseInv
    <3>1. /\ now_ms' = Wrapped(now_ms + ms)
          /\ armed' = armed /\ arm_lease_ms' = arm_lease_ms
          /\ last_command_ms' = last_command_ms
          /\ ~(armed /\ arm_lease_ms # 0 /\ Elapsed(now_ms') >= arm_lease_ms)
          /\ silent' = IF armed /\ arm_lease_ms # 0 THEN silent + ms ELSE 0
      BY <1>5, <2>2, Zenon DEF Advance
    <3>2. /\ armed /\ arm_lease_ms # 0 /\ silent' = silent + ms
          /\ ~(Elapsed(now_ms') >= arm_lease_ms)
          /\ silent < arm_lease_ms /\ silent = Elapsed(now_ms)
      BY <3>1, Zenon DEF LeaseInv
    <3>3. Elapsed(now_ms') = Elapsed(now_ms)'
      BY <3>1, Zenon DEF Elapsed
    <3>4. /\ ms \in Nat /\ ms + ARM_MAX_LEASE <= ClockWrap
          /\ silent \in Nat /\ arm_lease_ms \in 0 .. ARM_MAX_LEASE
          /\ now_ms \in 0 .. ClockWrap - 1 /\ last_command_ms \in 0 .. ClockWrap - 1
          /\ ClockWrap \in Nat /\ ARM_MAX_LEASE \in Nat
      BY SimAssumption, Zenon DEF ShortAdvances, TypeOK
    <3>5. silent + ms < ClockWrap
      BY <3>2, <3>4, SMT
    <3>6. Elapsed(now_ms') = silent + ms
      <4>1. ((now_ms - last_command_ms) % ClockWrap) + ms < ClockWrap
        BY <3>2, <3>5, Zenon DEF Elapsed
      <4> QED BY <3>1, <3>2, <3>4, <4>1, ElapsedLater, Zenon DEF Elapsed, Wrapped
    <3>7. silent + ms < arm_lease_ms
      BY <3>2, <3>4, <3>6, SMT
    <3> QED BY <3>1, <3>2, <3>3, <3>6, <3>7, Zenon
  <2> QED BY <2>1, <2>2
<1>6. CASE UNCHANGED vars
  BY <1>6, Zenon DEF vars, LeaseInv, Elapsed
<1> QED BY <1>1, <1>2, <1>4, <1>5, <1>6, Zenon DEF SimStep, Command

LEMMA InitLease == Init => LeaseInv
BY DEF Init, LeaseInv

LEMMA LeaseInvStep == ShortAdvances /\ TypeOK /\ TypeOK' /\ LeaseInv /\ SimStep => LeaseInv'
BY LeaseStep

LEMMA LeaseInvCuts == LeaseInv => LeaseCutsOff
BY DEF LeaseInv, LeaseCutsOff

(* advance() never lets the object stay armed once its lease has run out,  *)
(* for any lease and any steps of the clock, across every wrap of now_ms,  *)
(* as long as no single step together with the longest lease exceeds the   *)
(* range of the clock: a longer step is lost in the mask.                  *)
THEOREM LeaseCuts == ASSUME ShortAdvances PROVE Spec => []LeaseCutsOff
BY InitLease, NextIsStep, LeaseInvStep, LeaseInvCuts, TypeCorrect, PTL DEF Spec

-----------------------------------------------------------------------------
(* The programs and the simulator.                                         *)

LEMMA ProgramsNextIsStep == [ProgramsNext]_<<vars, programVars>> => SimStep
<1> SUFFICES ASSUME [ProgramsNext]_<<vars, programVars>> PROVE SimStep
  OBVIOUS
<1>1. UNCHANGED vars => SimStep
  BY Zenon DEF SimStep
<1>2. CASE BeforeStart
  BY <1>2, Zenon DEF BeforeStart, SimStep
<1>3. CASE StartSelfTest \/ StartCli \/ HidCheck \/ PreCheck
  BY <1>1, <1>3, Zenon DEF StartSelfTest, StartCli, HidCheck, PreCheck, SimulatorUntouched
<1>4. CASE Discover
  BY <1>1, <1>4, Zenon DEF Discover, Probe, SimStep
<1>5. CASE Send \/ Reject \/ Receive \/ TimeOut \/ SendFails
  BY <1>1, <1>5, Zenon DEF Send, Reject, Receive, TimeOut, SendFails, SimulatorUntouched
<1>6. CASE KeyboardInterrupt \/ Kill \/ Cut \/ Lose
  BY <1>1, <1>6, Zenon DEF KeyboardInterrupt, Kill, Cut, Lose, SimulatorUntouched
<1>7. CASE Execute
  BY <1>7, Zenon DEF Execute, SimStep
<1>8. CASE Meddle
  BY <1>8, Zenon DEF Meddle, SimStep
<1>9. ASSUME NEW ms \in Advances, Pass(ms) PROVE SimStep
  BY <1>9, Zenon DEF Pass, SimStep
<1>10. CASE UNCHANGED <<vars, programVars>>
  BY <1>1, <1>10, Zenon
<1> QED BY <1>2, <1>3, <1>4, <1>5, <1>6, <1>7, <1>8, <1>9, <1>10 DEF ProgramsNext, MainStep

(* Whatever the self test, the command line and the controllers beside     *)
(* them send, and wherever they are stopped, the simulator they run        *)
(* against keeps its types, its status is current, and nothing they have   *)
(* configured survives the disarming.                                      *)
THEOREM ProgramsKeepSimulator ==
  ProgramsSpec => [](TypeOK /\ StatusIsCurrent /\ DisarmedIsSafe)
BY InitType, TypeStep, InitStatus, StatusStep, InitDisarmed, DisarmedStep, ProgramsNextIsStep, PTL
   DEF ProgramsSpec, ProgramsInit

(* The lease of what a program armed is cut off in time, whatever becomes  *)
(* of the program.                                                         *)
THEOREM ProgramsLeaseCuts ==
  ASSUME ShortAdvances PROVE ProgramsSpec => []LeaseCutsOff
BY InitType, TypeStep, InitLease, LeaseInvStep, LeaseInvCuts, ProgramsNextIsStep, PTL
   DEF ProgramsSpec, ProgramsInit

-----------------------------------------------------------------------------
(* The scripts.  Their sixty odd steps are annotated piece by piece with   *)
(* what the self test may rely on before each; what follows from the       *)
(* annotation alone is proved once, with the steps unexpanded.             *)

IsSequence(s) == \E S : s \in Seq(S)

LEMMA Joined ==
  ASSUME NEW s, NEW t, IsSequence(s), IsSequence(t)
  PROVE  IsSequence(s \o t) /\ Len(s \o t) = Len(s) + Len(t) /\ Len(s) \in Nat /\ Len(t) \in Nat
<1>1. PICK S : s \in Seq(S)
  BY DEF IsSequence
<1>2. PICK T : t \in Seq(T)
  BY DEF IsSequence
<1>3. s \in Seq(S \cup T) /\ t \in Seq(S \cup T)
  BY <1>1, <1>2, SeqMonotonic
<1>4. s \o t \in Seq(S \cup T) /\ Len(s \o t) = Len(s) + Len(t)
  BY <1>3
<1>5. Len(s) \in Nat /\ Len(t) \in Nat
  BY <1>3
<1> QED BY <1>4, <1>5 DEF IsSequence

LEMMA Singles ==
  ASSUME NEW a, NEW b, NEW c, NEW d
  PROVE  /\ IsSequence(<<a>>) /\ Len(<<a>>) = 1
         /\ IsSequence(<<a, b>>) /\ Len(<<a, b>>) = 2
         /\ IsSequence(<<a, b, c>>) /\ IsSequence(<<a, b, c, d>>)
<1>1. <<a>> \in Seq({a}) /\ <<a, b>> \in Seq({a, b}) /\ <<a, b, c>> \in Seq({a, b, c})
      /\ <<a, b, c, d>> \in Seq({a, b, c, d})
  OBVIOUS
<1>2. Len(<<a>>) = 1 /\ Len(<<a, b>>) = 2
  OBVIOUS
<1> QED BY <1>1, <1>2 DEF IsSequence

LEMMA NineSteps ==
  ASSUME NEW a, NEW b, NEW c, NEW d, NEW e, NEW f, NEW g, NEW h, NEW i
  PROVE  IsSequence(<<a, b, c, d, e, f, g, h, i>>) /\ Len(<<a, b, c, d, e, f, g, h, i>>) = 9
<1>1. <<a, b, c, d, e, f, g, h, i>> \in Seq({a, b, c, d, e, f, g, h, i})
  OBVIOUS
<1>2. Len(<<a, b, c, d, e, f, g, h, i>>) = 9
  OBVIOUS
<1> QED BY <1>1, <1>2 DEF IsSequence

-----------------------------------------------------------------------------
(* The annotation of a script.                                             *)

Disarming(r) == r.op = "RESET" \/ r = Line("ARM", Off)

(* What the self test may rely on before a step: whether it has armed the  *)
(* simulator or knows it disarmed, and values of STATUS? fields.           *)
Knowing(arming, fields) == [arming |-> arming, fields |-> fields]

Flips(arg, v) == (arg = On /\ v = TRUE) \/ (arg = Off /\ v = FALSE)

(* the value a line gives to a field *)
Gives(r, f, v) ==
  \/ r.op = "BATTERY" /\ f = "battery_percent" /\ v = r.arg
  \/ r.op = "RUNTIME" /\ f = "runtime_seconds" /\ v = r.arg
  \/ r.op = "RUNTIME" /\ f = "runtime_mode" /\ v = "manual"
  \/ r.op = "RUNTIME AUTO" /\ f = "runtime_mode" /\ v = "auto"
  \/ r.op = "VOLTAGE" /\ f = "voltage_centivolts" /\ v = r.arg
  \/ r.op = "LOAD" /\ f = "load_percent" /\ v = r.arg
  \/ r.op = "INPUTVOLTAGE" /\ f = "input_voltage_centivolts" /\ v = r.arg
  \/ r.op = "OUTPUTVOLTAGE" /\ f = "output_voltage_centivolts" /\ v = r.arg
  \/ r.op = "STARTDELAY" /\ f = "host_start_delay" /\ v = r.arg
  \/ r.op = "CHARGING" /\ f = "charging_mode" /\ v = ModeName[r.arg]
  \/ r.op = "CHARGING" /\ f = "charging_active" /\ Flips(r.arg, v)
  \/ r.op = "LOWBAT" /\ f = "low_battery_mode" /\ v = ModeName[r.arg]
  \/ r.op = "LOWBAT" /\ f = "low_battery_active" /\ Flips(r.arg, v)
  \/ /\ \/ r.op = "AC" /\ f = "ac_present"
        \/ r.op = "OVERLOAD" /\ f = "overload"
        \/ r.op = "REPLACE" /\ f = "need_replacement"
        \/ r.op = "COMMLOST" /\ f = "communication_lost"
        \/ r.op = "SHUTDOWN" /\ f = "shutdown_requested"
     /\ Flips(r.arg, v)
  \/ r.op = "SHUTDOWN" /\ f = "shutdown_imminent" /\ r.arg = On /\ v = TRUE

(* the values of the safe state *)
IsSafeValue(f, v) ==
  \/ f = "armed" /\ v = FALSE
  \/ f = "ac_present" /\ v = TRUE
  \/ f = "battery_percent" /\ v = 100
  \/ f = "load_percent" /\ v = 25
  \/ f \in {"input_voltage_centivolts", "output_voltage_centivolts"} /\ v = 23000

Inquiries == {"PING", "IDENT?", "NETWORK?", "HELP", "?", "REPORT", "STATUS?"}

(* A step that passes in the knowledge of K and leaves that of L. *)
Inquires(K, s, L) ==
  /\ s.line.op \in Inquiries /\ s.ok = TRUE
  /\ s.fields = NoFields \/ (s.line.op = "STATUS?" /\ s.fields = K.fields)
  /\ L = Knowing(K.arming, NoFields)

IsDenied(K, s, L) ==
  /\ s.line.op = "LOAD" /\ s.ok = FALSE /\ s.fields = NoFields
  /\ K.arming = "off" /\ L = Knowing("off", NoFields)

Disarms(s, L) ==
  /\ Disarming(s.line) /\ s.ok = TRUE /\ s.fields = NoFields
  /\ L.arming = "off" /\ \A f \in DOMAIN L.fields : IsSafeValue(f, L.fields[f])

Arms(s, L) ==
  /\ s.line.op = "ARM" /\ s.line.arg = On /\ s.ok = TRUE /\ s.fields = NoFields
  /\ LeaseArgument(s.line) \in 0 .. ARM_MAX_LEASE
  /\ L.arming = "on" /\ \A f \in DOMAIN L.fields : f = "armed" /\ L.fields[f] = TRUE

Changes(K, s, L) ==
  /\ Parses(s.line) /\ s.line.op \notin Inquiries \cup {"RESET", "ARM", "STATUS"}
  /\ s.ok = TRUE /\ s.fields = NoFields
  /\ K.arming = "on" /\ L.arming = "on"
  /\ \A f \in DOMAIN L.fields : Gives(s.line, f, L.fields[f])

Fits(K, s, L) ==
  Inquires(K, s, L) \/ IsDenied(K, s, L) \/ Disarms(s, L) \/ Arms(s, L) \/ Changes(K, s, L)

(* m is what is known before each step of q, and at the end *)
Annotates(m, q) == \A k \in 1 .. Len(q) : Fits(m[k], q[k], m[k + 1])

Passes(q, K, L) ==
  IsSequence(q) /\ \E m : m[1] = K /\ m[Len(q) + 1] = L /\ Annotates(m, q)

LEMMA JoinPasses ==
  \A q, t, K, L, M : Passes(q, K, L) /\ Passes(t, L, M) => Passes(q \o t, K, M)
<1> SUFFICES ASSUME NEW q, NEW t, NEW K, NEW L, NEW M, Passes(q, K, L), Passes(t, L, M)
             PROVE  Passes(q \o t, K, M)
  OBVIOUS
<1>1. PICK m : m[1] = K /\ m[Len(q) + 1] = L /\ Annotates(m, q)
  BY DEF Passes
<1>2. PICK n : n[1] = L /\ n[Len(t) + 1] = M /\ Annotates(n, t)
  BY DEF Passes
<1> DEFINE both == q \o t
           known == [k \in 1 .. Len(both) + 1 |-> IF k <= Len(q) THEN m[k] ELSE n[k - Len(q)]]
<1>3. IsSequence(both) /\ Len(both) = Len(q) + Len(t) /\ Len(q) \in Nat /\ Len(t) \in Nat
  BY Joined DEF Passes
<1>4. \A k \in 1 .. Len(both) : both[k] = IF k <= Len(q) THEN q[k] ELSE t[k - Len(q)]
  <2>1. PICK S : q \in Seq(S)
    BY DEF Passes, IsSequence
  <2>2. PICK T : t \in Seq(T)
    BY DEF Passes, IsSequence
  <2>3. q \in Seq(S \cup T) /\ t \in Seq(S \cup T)
    BY <2>1, <2>2, SeqMonotonic
  <2> QED BY <2>3
<1> HIDE DEF both
<1>5. known[1] = K /\ known[Len(both) + 1] = M
  <2>1. 1 \in 1 .. Len(both) + 1 /\ Len(both) + 1 \in 1 .. Len(both) + 1
    BY <1>3
  <2> QED BY <1>1, <1>2, <1>3, <2>1
<1>6. Annotates(known, both)
  <2>1. ASSUME NEW k \in 1 .. Len(both) PROVE Fits(known[k], both[k], known[k + 1])
    <3>1. /\ k \in 1 .. Len(both) + 1 /\ k + 1 \in 1 .. Len(both) + 1 /\ k \in Nat
          /\ k <= Len(q) => k \in 1 .. Len(q)
          /\ k > Len(q) => k - Len(q) \in 1 .. Len(t) /\ (k + 1) - Len(q) = (k - Len(q)) + 1
      BY <1>3
    <3>2. CASE k > Len(q)
      <4>1. /\ known[k] = n[k - Len(q)] /\ known[k + 1] = n[(k - Len(q)) + 1]
            /\ both[k] = t[k - Len(q)]
        BY <1>3, <1>4, <3>1, <3>2
      <4> HIDE DEF known
      <4> QED BY <1>2, <3>1, <3>2, <4>1 DEF Annotates
    <3>3. CASE k <= Len(q)
      <4>1. known[k] = m[k] /\ both[k] = q[k]
        BY <1>3, <1>4, <3>1, <3>3
      <4>2. known[k + 1] = m[k + 1]
        <5>1. CASE k < Len(q)
          BY <1>3, <3>1, <5>1
        <5>2. CASE k = Len(q)
          <6>1. known[k + 1] = n[1]
            BY <1>3, <3>1, <5>2
          <6> QED BY <1>1, <1>2, <5>2, <6>1
        <5> QED BY <1>3, <3>1, <3>3, <5>1, <5>2
      <4> HIDE DEF known
      <4> QED BY <1>1, <3>1, <3>3, <4>1, <4>2 DEF Annotates
    <3> QED BY <1>3, <3>1, <3>2, <3>3
  <2> HIDE DEF known
  <2> QED BY <2>1 DEF Annotates
<1> HIDE DEF known
<1> QED BY <1>3, <1>5, <1>6 DEF Passes, both

LEMMA TwoPass ==
  ASSUME NEW K, NEW s, NEW L, NEW t, NEW M, Fits(K, s, L), Fits(L, t, M)
  PROVE  Passes(<<s, t>>, K, M)
<1> DEFINE m == <<K, L, M>>
<1>1. m[1] = K /\ m[Len(<<s, t>>) + 1] = M /\ Annotates(m, <<s, t>>)
  <2>1. /\ Len(<<s, t>>) = 2 /\ <<s, t>>[1] = s /\ <<s, t>>[2] = t
        /\ m[1] = K /\ m[2] = L /\ m[3] = M
    OBVIOUS
  <2> HIDE DEF m
  <2> QED BY <2>1 DEF Annotates
<1>2. IsSequence(<<s, t>>)
  BY Singles
<1> QED BY <1>1, <1>2, Zenon DEF Passes

Armed == Knowing("on", NoFields)

(* a line and the check of its effect *)
LEMMA SetsPasses ==
  ASSUME NEW op, NEW arg, NEW fields, Parses(Line(op, arg)),
         op \notin Inquiries \cup {"RESET", "ARM", "STATUS"},
         \A f \in DOMAIN fields : Gives(Line(op, arg), f, fields[f])
  PROVE  Passes(Sets(op, arg, fields), Armed, Armed)
<1> DEFINE one == Sends(Line(op, arg))
           two == Checks(fields)
           K == Knowing("on", fields)
<1>1. one.line = Line(op, arg) /\ one.line.op = op /\ one.ok = TRUE /\ one.fields = NoFields
  BY DEF Sends, Line
<1>2. two.line.op = "STATUS?" /\ two.ok = TRUE /\ two.fields = fields
  BY DEF Checks, Line
<1>3. K.arming = "on" /\ K.fields = fields /\ Armed.arming = "on"
  BY DEF Knowing, Armed
<1>4. Sets(op, arg, fields) = <<one, two>>
  BY DEF Sets
<1> HIDE DEF one, two, K
<1>5. Changes(Armed, one, K)
  BY <1>1, <1>3 DEF Changes
<1>6. Inquires(K, two, Armed)
  BY <1>2, <1>3 DEF Inquires, Inquiries, Armed
<1> QED BY <1>4, <1>5, <1>6, TwoPass DEF Fits

LEMMA ArmingPasses ==
  /\ LeaseArgument(ArmFor(LongLease)) \in 0 .. ARM_MAX_LEASE
  /\ LeaseArgument(ArmFor(ShortLease)) \in 0 .. ARM_MAX_LEASE
<1>1. /\ LongLease \in 1 .. ARM_MAX_LEASE /\ ShortLease \in 1 .. ARM_MAX_LEASE
      /\ ARM_MAX_LEASE \in Nat
  BY ProgramAssumption, SimAssumption
<1>2. \A x : ArmFor(x).arg2 = x
  BY DEF ArmFor
<1>3. LongLease # Absent /\ ShortLease # Absent
  BY <1>1 DEF Absent
<1> QED BY <1>1, <1>2, <1>3 DEF LeaseArgument

(* the values of the flags *)
LEMMA ModeNames == ModeName[On] = "on" /\ ModeName[Off] = "off" /\ ModeName[Automatic] = "auto"
BY DEF ModeName, On, Off, Automatic

LEMMA FlagsPass ==
  /\ Passes(Sets("CHARGING", On, [charging_mode |-> "on", charging_active |-> TRUE]), Armed, Armed)
  /\ Passes(Sets("CHARGING", Off, [charging_mode |-> "off", charging_active |-> FALSE]), Armed, Armed)
  /\ Passes(Sets("CHARGING", Automatic, [charging_mode |-> "auto"]), Armed, Armed)
  /\ Passes(Sets("LOWBAT", On, [low_battery_mode |-> "on", low_battery_active |-> TRUE]), Armed, Armed)
  /\ Passes(Sets("LOWBAT", Off, [low_battery_mode |-> "off", low_battery_active |-> FALSE]), Armed, Armed)
  /\ Passes(Sets("LOWBAT", Automatic, [low_battery_mode |-> "auto"]), Armed, Armed)
  /\ Passes(Sets("AC", Off, [ac_present |-> FALSE]), Armed, Armed)
  /\ Passes(Sets("AC", On, [ac_present |-> TRUE]), Armed, Armed)
  /\ Passes(Sets("OVERLOAD", On, [overload |-> TRUE]), Armed, Armed)
  /\ Passes(Sets("OVERLOAD", Off, [overload |-> FALSE]), Armed, Armed)
  /\ Passes(Sets("REPLACE", On, [need_replacement |-> TRUE]), Armed, Armed)
  /\ Passes(Sets("REPLACE", Off, [need_replacement |-> FALSE]), Armed, Armed)
  /\ Passes(Sets("COMMLOST", On, [communication_lost |-> TRUE]), Armed, Armed)
  /\ Passes(Sets("COMMLOST", Off, [communication_lost |-> FALSE]), Armed, Armed)
  /\ Passes(Sets("SHUTDOWN", On, [shutdown_requested |-> TRUE, shutdown_imminent |-> TRUE]), Armed, Armed)
  /\ Passes(Sets("SHUTDOWN", Off, [shutdown_requested |-> FALSE]), Armed, Armed)
<1>1. Passes(Sets("CHARGING", On, [charging_mode |-> "on", charging_active |-> TRUE]), Armed, Armed)
  <2> DEFINE r == Line("CHARGING", On)
             fields == [charging_mode |-> "on", charging_active |-> TRUE]
  <2>1. r.op = "CHARGING" /\ r.arg = On
    BY DEF Line
  <2>2. DOMAIN fields = {"charging_mode", "charging_active"} /\ fields["charging_mode"] = "on" /\ fields["charging_active"] = TRUE
    OBVIOUS
  <2> HIDE DEF r, fields
  <2>3. Parses(r) /\ \A f \in DOMAIN fields : Gives(r, f, fields[f])
    BY <2>1, <2>2, ModeNames DEF Parses, SwitchOf, OverrideOf, Gives, Flips
  <2> QED BY <2>3, SetsPasses DEF Inquiries, r, fields
<1>2. Passes(Sets("CHARGING", Off, [charging_mode |-> "off", charging_active |-> FALSE]), Armed, Armed)
  <2> DEFINE r == Line("CHARGING", Off)
             fields == [charging_mode |-> "off", charging_active |-> FALSE]
  <2>1. r.op = "CHARGING" /\ r.arg = Off
    BY DEF Line
  <2>2. DOMAIN fields = {"charging_mode", "charging_active"} /\ fields["charging_mode"] = "off" /\ fields["charging_active"] = FALSE
    OBVIOUS
  <2> HIDE DEF r, fields
  <2>3. Parses(r) /\ \A f \in DOMAIN fields : Gives(r, f, fields[f])
    BY <2>1, <2>2, ModeNames DEF Parses, SwitchOf, OverrideOf, Gives, Flips
  <2> QED BY <2>3, SetsPasses DEF Inquiries, r, fields
<1>3. Passes(Sets("CHARGING", Automatic, [charging_mode |-> "auto"]), Armed, Armed)
  <2> DEFINE r == Line("CHARGING", Automatic)
             fields == [charging_mode |-> "auto"]
  <2>1. r.op = "CHARGING" /\ r.arg = Automatic
    BY DEF Line
  <2>2. DOMAIN fields = {"charging_mode"} /\ fields["charging_mode"] = "auto"
    OBVIOUS
  <2> HIDE DEF r, fields
  <2>3. Parses(r) /\ \A f \in DOMAIN fields : Gives(r, f, fields[f])
    BY <2>1, <2>2, ModeNames DEF Parses, SwitchOf, OverrideOf, Gives, Flips
  <2> QED BY <2>3, SetsPasses DEF Inquiries, r, fields
<1>4. Passes(Sets("LOWBAT", On, [low_battery_mode |-> "on", low_battery_active |-> TRUE]), Armed, Armed)
  <2> DEFINE r == Line("LOWBAT", On)
             fields == [low_battery_mode |-> "on", low_battery_active |-> TRUE]
  <2>1. r.op = "LOWBAT" /\ r.arg = On
    BY DEF Line
  <2>2. DOMAIN fields = {"low_battery_mode", "low_battery_active"} /\ fields["low_battery_mode"] = "on" /\ fields["low_battery_active"] = TRUE
    OBVIOUS
  <2> HIDE DEF r, fields
  <2>3. Parses(r) /\ \A f \in DOMAIN fields : Gives(r, f, fields[f])
    BY <2>1, <2>2, ModeNames DEF Parses, SwitchOf, OverrideOf, Gives, Flips
  <2> QED BY <2>3, SetsPasses DEF Inquiries, r, fields
<1>5. Passes(Sets("LOWBAT", Off, [low_battery_mode |-> "off", low_battery_active |-> FALSE]), Armed, Armed)
  <2> DEFINE r == Line("LOWBAT", Off)
             fields == [low_battery_mode |-> "off", low_battery_active |-> FALSE]
  <2>1. r.op = "LOWBAT" /\ r.arg = Off
    BY DEF Line
  <2>2. DOMAIN fields = {"low_battery_mode", "low_battery_active"} /\ fields["low_battery_mode"] = "off" /\ fields["low_battery_active"] = FALSE
    OBVIOUS
  <2> HIDE DEF r, fields
  <2>3. Parses(r) /\ \A f \in DOMAIN fields : Gives(r, f, fields[f])
    BY <2>1, <2>2, ModeNames DEF Parses, SwitchOf, OverrideOf, Gives, Flips
  <2> QED BY <2>3, SetsPasses DEF Inquiries, r, fields
<1>6. Passes(Sets("LOWBAT", Automatic, [low_battery_mode |-> "auto"]), Armed, Armed)
  <2> DEFINE r == Line("LOWBAT", Automatic)
             fields == [low_battery_mode |-> "auto"]
  <2>1. r.op = "LOWBAT" /\ r.arg = Automatic
    BY DEF Line
  <2>2. DOMAIN fields = {"low_battery_mode"} /\ fields["low_battery_mode"] = "auto"
    OBVIOUS
  <2> HIDE DEF r, fields
  <2>3. Parses(r) /\ \A f \in DOMAIN fields : Gives(r, f, fields[f])
    BY <2>1, <2>2, ModeNames DEF Parses, SwitchOf, OverrideOf, Gives, Flips
  <2> QED BY <2>3, SetsPasses DEF Inquiries, r, fields
<1>7. Passes(Sets("AC", Off, [ac_present |-> FALSE]), Armed, Armed)
  <2> DEFINE r == Line("AC", Off)
             fields == [ac_present |-> FALSE]
  <2>1. r.op = "AC" /\ r.arg = Off
    BY DEF Line
  <2>2. DOMAIN fields = {"ac_present"} /\ fields["ac_present"] = FALSE
    OBVIOUS
  <2> HIDE DEF r, fields
  <2>3. Parses(r) /\ \A f \in DOMAIN fields : Gives(r, f, fields[f])
    BY <2>1, <2>2, ModeNames DEF Parses, SwitchOf, OverrideOf, Gives, Flips
  <2> QED BY <2>3, SetsPasses DEF Inquiries, r, fields
<1>8. Passes(Sets("AC", On, [ac_present |-> TRUE]), Armed, Armed)
  <2> DEFINE r == Line("AC", On)
             fields == [ac_present |-> TRUE]
  <2>1. r.op = "AC" /\ r.arg = On
    BY DEF Line
  <2>2. DOMAIN fields = {"ac_present"} /\ fields["ac_present"] = TRUE
    OBVIOUS
  <2> HIDE DEF r, fields
  <2>3. Parses(r) /\ \A f \in DOMAIN fields : Gives(r, f, fields[f])
    BY <2>1, <2>2, ModeNames DEF Parses, SwitchOf, OverrideOf, Gives, Flips
  <2> QED BY <2>3, SetsPasses DEF Inquiries, r, fields
<1>9. Passes(Sets("OVERLOAD", On, [overload |-> TRUE]), Armed, Armed)
  <2> DEFINE r == Line("OVERLOAD", On)
             fields == [overload |-> TRUE]
  <2>1. r.op = "OVERLOAD" /\ r.arg = On
    BY DEF Line
  <2>2. DOMAIN fields = {"overload"} /\ fields["overload"] = TRUE
    OBVIOUS
  <2> HIDE DEF r, fields
  <2>3. Parses(r) /\ \A f \in DOMAIN fields : Gives(r, f, fields[f])
    BY <2>1, <2>2, ModeNames DEF Parses, SwitchOf, OverrideOf, Gives, Flips
  <2> QED BY <2>3, SetsPasses DEF Inquiries, r, fields
<1>10. Passes(Sets("OVERLOAD", Off, [overload |-> FALSE]), Armed, Armed)
  <2> DEFINE r == Line("OVERLOAD", Off)
             fields == [overload |-> FALSE]
  <2>1. r.op = "OVERLOAD" /\ r.arg = Off
    BY DEF Line
  <2>2. DOMAIN fields = {"overload"} /\ fields["overload"] = FALSE
    OBVIOUS
  <2> HIDE DEF r, fields
  <2>3. Parses(r) /\ \A f \in DOMAIN fields : Gives(r, f, fields[f])
    BY <2>1, <2>2, ModeNames DEF Parses, SwitchOf, OverrideOf, Gives, Flips
  <2> QED BY <2>3, SetsPasses DEF Inquiries, r, fields
<1>11. Passes(Sets("REPLACE", On, [need_replacement |-> TRUE]), Armed, Armed)
  <2> DEFINE r == Line("REPLACE", On)
             fields == [need_replacement |-> TRUE]
  <2>1. r.op = "REPLACE" /\ r.arg = On
    BY DEF Line
  <2>2. DOMAIN fields = {"need_replacement"} /\ fields["need_replacement"] = TRUE
    OBVIOUS
  <2> HIDE DEF r, fields
  <2>3. Parses(r) /\ \A f \in DOMAIN fields : Gives(r, f, fields[f])
    BY <2>1, <2>2, ModeNames DEF Parses, SwitchOf, OverrideOf, Gives, Flips
  <2> QED BY <2>3, SetsPasses DEF Inquiries, r, fields
<1>12. Passes(Sets("REPLACE", Off, [need_replacement |-> FALSE]), Armed, Armed)
  <2> DEFINE r == Line("REPLACE", Off)
             fields == [need_replacement |-> FALSE]
  <2>1. r.op = "REPLACE" /\ r.arg = Off
    BY DEF Line
  <2>2. DOMAIN fields = {"need_replacement"} /\ fields["need_replacement"] = FALSE
    OBVIOUS
  <2> HIDE DEF r, fields
  <2>3. Parses(r) /\ \A f \in DOMAIN fields : Gives(r, f, fields[f])
    BY <2>1, <2>2, ModeNames DEF Parses, SwitchOf, OverrideOf, Gives, Flips
  <2> QED BY <2>3, SetsPasses DEF Inquiries, r, fields
<1>13. Passes(Sets("COMMLOST", On, [communication_lost |-> TRUE]), Armed, Armed)
  <2> DEFINE r == Line("COMMLOST", On)
             fields == [communication_lost |-> TRUE]
  <2>1. r.op = "COMMLOST" /\ r.arg = On
    BY DEF Line
  <2>2. DOMAIN fields = {"communication_lost"} /\ fields["communication_lost"] = TRUE
    OBVIOUS
  <2> HIDE DEF r, fields
  <2>3. Parses(r) /\ \A f \in DOMAIN fields : Gives(r, f, fields[f])
    BY <2>1, <2>2, ModeNames DEF Parses, SwitchOf, OverrideOf, Gives, Flips
  <2> QED BY <2>3, SetsPasses DEF Inquiries, r, fields
<1>14. Passes(Sets("COMMLOST", Off, [communication_lost |-> FALSE]), Armed, Armed)
  <2> DEFINE r == Line("COMMLOST", Off)
             fields == [communication_lost |-> FALSE]
  <2>1. r.op = "COMMLOST" /\ r.arg = Off
    BY DEF Line
  <2>2. DOMAIN fields = {"communication_lost"} /\ fields["communication_lost"] = FALSE
    OBVIOUS
  <2> HIDE DEF r, fields
  <2>3. Parses(r) /\ \A f \in DOMAIN fields : Gives(r, f, fields[f])
    BY <2>1, <2>2, ModeNames DEF Parses, SwitchOf, OverrideOf, Gives, Flips
  <2> QED BY <2>3, SetsPasses DEF Inquiries, r, fields
<1>15. Passes(Sets("SHUTDOWN", On, [shutdown_requested |-> TRUE, shutdown_imminent |-> TRUE]), Armed, Armed)
  <2> DEFINE r == Line("SHUTDOWN", On)
             fields == [shutdown_requested |-> TRUE, shutdown_imminent |-> TRUE]
  <2>1. r.op = "SHUTDOWN" /\ r.arg = On
    BY DEF Line
  <2>2. DOMAIN fields = {"shutdown_requested", "shutdown_imminent"} /\ fields["shutdown_requested"] = TRUE /\ fields["shutdown_imminent"] = TRUE
    OBVIOUS
  <2> HIDE DEF r, fields
  <2>3. Parses(r) /\ \A f \in DOMAIN fields : Gives(r, f, fields[f])
    BY <2>1, <2>2, ModeNames DEF Parses, SwitchOf, OverrideOf, Gives, Flips
  <2> QED BY <2>3, SetsPasses DEF Inquiries, r, fields
<1>16. Passes(Sets("SHUTDOWN", Off, [shutdown_requested |-> FALSE]), Armed, Armed)
  <2> DEFINE r == Line("SHUTDOWN", Off)
             fields == [shutdown_requested |-> FALSE]
  <2>1. r.op = "SHUTDOWN" /\ r.arg = Off
    BY DEF Line
  <2>2. DOMAIN fields = {"shutdown_requested"} /\ fields["shutdown_requested"] = FALSE
    OBVIOUS
  <2> HIDE DEF r, fields
  <2>3. Parses(r) /\ \A f \in DOMAIN fields : Gives(r, f, fields[f])
    BY <2>1, <2>2, ModeNames DEF Parses, SwitchOf, OverrideOf, Gives, Flips
  <2> QED BY <2>3, SetsPasses DEF Inquiries, r, fields
<1> QED BY <1>1, <1>2, <1>3, <1>4, <1>5, <1>6, <1>7, <1>8, <1>9, <1>10, <1>11, <1>12, <1>13, <1>14, <1>15, <1>16

(* nothing known, and nothing but that the simulator is disarmed *)
Unknown == Knowing("any", NoFields)
Safe    == Knowing("off", NoFields)

LEMMA InquiryFits ==
  ASSUME NEW op \in Inquiries, NEW arming
  PROVE  Fits(Knowing(arming, NoFields), Query(op), Knowing(arming, NoFields))
<1>1. Query(op).line.op = op /\ Query(op).ok = TRUE /\ Query(op).fields = NoFields
  BY DEF Query, Sends, Line
<1>2. Knowing(arming, NoFields).arming = arming
  BY DEF Knowing
<1> QED BY <1>1, <1>2 DEF Fits, Inquires

LEMMA CheckFits ==
  ASSUME NEW arming, NEW fields
  PROVE  Fits(Knowing(arming, fields), Checks(fields), Knowing(arming, NoFields))
<1>1. Checks(fields).line.op = "STATUS?" /\ Checks(fields).ok = TRUE /\ Checks(fields).fields = fields
  BY DEF Checks, Line
<1>2. Knowing(arming, fields).arming = arming /\ Knowing(arming, fields).fields = fields
  BY DEF Knowing
<1> QED BY <1>1, <1>2 DEF Fits, Inquires, Inquiries

(* RESET and ARM OFF *)
LEMMA DisarmFits ==
  ASSUME NEW K, NEW r, Disarming(r), NEW fields, \A f \in DOMAIN fields : IsSafeValue(f, fields[f])
  PROVE  Fits(K, Sends(r), Knowing("off", fields))
<1>1. Sends(r).line = r /\ Sends(r).ok = TRUE /\ Sends(r).fields = NoFields
  BY DEF Sends
<1>2. Knowing("off", fields).arming = "off" /\ Knowing("off", fields).fields = fields
  BY DEF Knowing
<1> QED BY <1>1, <1>2 DEF Fits, Disarms

LEMMA ArmFits ==
  ASSUME NEW K, NEW lease \in {LongLease, ShortLease}
  PROVE  Fits(K, Sends(ArmFor(lease)), Knowing("on", [armed |-> TRUE]))
<1> DEFINE fields == [armed |-> TRUE]
<1>1. Sends(ArmFor(lease)).line = ArmFor(lease) /\ Sends(ArmFor(lease)).ok = TRUE
      /\ Sends(ArmFor(lease)).fields = NoFields
  BY DEF Sends
<1>2. ArmFor(lease).op = "ARM" /\ ArmFor(lease).arg = On
  BY DEF ArmFor
<1>3. DOMAIN fields = {"armed"} /\ fields["armed"] = TRUE
  OBVIOUS
<1> HIDE DEF fields
<1>4. Knowing("on", fields).arming = "on" /\ Knowing("on", fields).fields = fields
  BY DEF Knowing
<1>5. Arms(Sends(ArmFor(lease)), Knowing("on", fields))
  BY <1>1, <1>2, <1>3, <1>4, ArmingPasses DEF Arms
<1> QED BY <1>5 DEF Fits, fields

LEMMA SafeValues ==
  /\ \A f \in DOMAIN SafeStateChecks : IsSafeValue(f, SafeStateChecks[f])
  /\ \A f \in DOMAIN QuerySteps[2].fields : IsSafeValue(f, QuerySteps[2].fields[f])
<1>1. \A f \in DOMAIN SafeStateChecks : IsSafeValue(f, SafeStateChecks[f])
  <2>1. /\ DOMAIN SafeStateChecks = {"armed", "ac_present", "battery_percent"}
        /\ SafeStateChecks["armed"] = FALSE /\ SafeStateChecks["ac_present"] = TRUE
        /\ SafeStateChecks["battery_percent"] = 100
    BY DEF SafeStateChecks
  <2> QED BY <2>1 DEF IsSafeValue
<1>2. \A f \in DOMAIN QuerySteps[2].fields : IsSafeValue(f, QuerySteps[2].fields[f])
  <2> DEFINE fields == [armed |-> FALSE, ac_present |-> TRUE, battery_percent |-> 100,
                        load_percent |-> 25, input_voltage_centivolts |-> 23000,
                        output_voltage_centivolts |-> 23000]
  <2>1. /\ DOMAIN fields = {"armed", "ac_present", "battery_percent", "load_percent",
                            "input_voltage_centivolts", "output_voltage_centivolts"}
        /\ fields["armed"] = FALSE /\ fields["ac_present"] = TRUE
        /\ fields["battery_percent"] = 100 /\ fields["load_percent"] = 25
        /\ fields["input_voltage_centivolts"] = 23000
        /\ fields["output_voltage_centivolts"] = 23000
    BY SMT
  <2>2. QuerySteps[2] = Checks(fields)
    BY SMT DEF QuerySteps
  <2>3. QuerySteps[2].fields = fields
    <3> HIDE DEF fields
    <3> QED BY <2>2 DEF Checks
  <2> HIDE DEF fields
  <2> QED BY <2>1, <2>3, SMT DEF IsSafeValue
<1> QED BY <1>1, <1>2

LEMMA QueryStepsPass == Passes(QuerySteps, Unknown, Safe)
<1> DEFINE fields == [armed |-> FALSE, ac_present |-> TRUE, battery_percent |-> 100,
                      load_percent |-> 25, input_voltage_centivolts |-> 23000,
                      output_voltage_centivolts |-> 23000]
           load == IsRefused(Line("LOAD", 30))
           after == Knowing("off", fields)
           m == <<Unknown, after, Safe, Safe, Safe, Safe, Safe, Safe, Safe, Safe>>
<1>1. QuerySteps = <<Query("RESET"), Checks(fields), Query("PING"), Query("IDENT?"),
                     Query("NETWORK?"), Query("STATUS?"), Query("HELP"), Query("?"), load>>
  BY SMT DEF QuerySteps
<1>2. \A f \in DOMAIN fields : IsSafeValue(f, fields[f])
  <2>1. QuerySteps[2] = Checks(fields)
    BY SMT DEF QuerySteps
  <2>2. QuerySteps[2].fields = fields
    <3> HIDE DEF fields
    <3> QED BY <2>1 DEF Checks
  <2> HIDE DEF fields
  <2> QED BY <2>2, SafeValues
<1> HIDE DEF fields
<1>3. Fits(Unknown, Query("RESET"), after)
  <2>1. Query("RESET") = Sends(Line("RESET", Absent)) /\ Disarming(Line("RESET", Absent))
    BY DEF Query, Disarming, Line
  <2> QED BY <1>2, <2>1, DisarmFits
<1>4. Fits(after, Checks(fields), Safe)
  BY CheckFits DEF Safe
<1>5. \A op \in Inquiries : Fits(Safe, Query(op), Safe)
  BY InquiryFits DEF Safe
<1>6. Fits(Safe, load, Safe)
  <2>1. load.line.op = "LOAD" /\ load.ok = FALSE /\ load.fields = NoFields
    BY DEF IsRefused, Line
  <2>2. Safe.arming = "off"
    BY DEF Safe, Knowing
  <2> HIDE DEF load
  <2> QED BY <2>1, <2>2 DEF Fits, IsDenied, Safe
<1> HIDE DEF load, after
<1>7. Len(QuerySteps) = 9 /\ IsSequence(QuerySteps)
  BY <1>1, NineSteps
<1>8. Annotates(m, QuerySteps)
  <2>1. /\ QuerySteps[1] = Query("RESET") /\ QuerySteps[2] = Checks(fields)
        /\ \A k \in 3 .. 8 : \E op \in Inquiries : QuerySteps[k] = Query(op)
        /\ QuerySteps[9] = load
    BY <1>1 DEF Inquiries
  <2>2. m[1] = Unknown /\ m[2] = after /\ \A k \in 3 .. 10 : m[k] = Safe
    OBVIOUS
  <2> HIDE DEF m
  <2>3. ASSUME NEW k \in 1 .. 9 PROVE Fits(m[k], QuerySteps[k], m[k + 1])
    <3>1. CASE k = 1
      BY <1>3, <2>1, <2>2, <3>1
    <3>2. CASE k = 2
      <4>1. m[k + 1] = Safe
        BY <2>2, <3>2
      <4> QED BY <1>4, <2>1, <2>2, <3>2, <4>1
    <3>3. CASE k \in 3 .. 8
      <4>1. m[k] = Safe /\ m[k + 1] = Safe
        BY <2>2, <3>3
      <4> QED BY <1>5, <2>1, <3>3, <4>1
    <3>4. CASE k = 9
      <4>1. m[k] = Safe /\ m[k + 1] = Safe
        BY <2>2, <3>4
      <4> QED BY <1>6, <2>1, <3>4, <4>1
    <3> QED BY <3>1, <3>2, <3>3, <3>4
  <2> QED BY <1>7, <2>3 DEF Annotates
<1>9. m[1] = Unknown /\ m[Len(QuerySteps) + 1] = Safe
  BY <1>7
<1> HIDE DEF m
<1> QED BY <1>7, <1>8, <1>9 DEF Passes

LEMMA RuntimePasses ==
  ASSUME NEW n \in UInt16
  PROVE  Passes(Sets("RUNTIME", n, [runtime_seconds |-> n, runtime_mode |-> "manual"]), Armed, Armed)
<1> DEFINE r == Line("RUNTIME", n)
           values == [runtime_seconds |-> n, runtime_mode |-> "manual"]
<1>1. r.op = "RUNTIME" /\ r.arg = n
  BY DEF Line
<1>2. /\ DOMAIN values = {"runtime_seconds", "runtime_mode"}
      /\ values["runtime_seconds"] = n /\ values["runtime_mode"] = "manual"
  OBVIOUS
<1> HIDE DEF r, values
<1>3. Parses(r)
  BY <1>1, Zenon DEF Parses
<1>4. Gives(r, "runtime_seconds", n) /\ Gives(r, "runtime_mode", "manual")
  BY <1>1, Zenon DEF Gives
<1>5. \A f \in DOMAIN values : Gives(r, f, values[f])
  BY <1>2, <1>4, Zenon
<1>6. "RUNTIME" \notin Inquiries \cup {"RESET", "ARM", "STATUS"}
  BY DEF Inquiries
<1>7. Passes(Sets("RUNTIME", n, values), Armed, Armed)
  BY <1>3, <1>5, <1>6, SetsPasses DEF r
<1> QED BY <1>7 DEF values

LEMMA MeasurementStepsPass == Passes(MeasurementSteps, Safe, Armed)
<1> DEFINE fields == [armed |-> TRUE]
           after == Knowing("on", fields)
           begin == <<Sends(SelfTestArms), Checks(fields), Query("REPORT")>>
           m == <<Safe, after, Armed, Armed>>
<1>1. Passes(begin, Safe, Armed)
  <2>1. Fits(Safe, Sends(SelfTestArms), after)
    BY ArmFits DEF SelfTestArms
  <2>2. Fits(after, Checks(fields), Armed) /\ Fits(Armed, Query("REPORT"), Armed)
    <3>1. "REPORT" \in Inquiries
      BY DEF Inquiries
    <3> HIDE DEF fields
    <3> QED BY <3>1, CheckFits, InquiryFits DEF Armed
  <2> HIDE DEF fields, after
  <2>3. /\ Len(begin) = 3 /\ begin[1] = Sends(SelfTestArms) /\ begin[2] = Checks(fields)
        /\ begin[3] = Query("REPORT")
        /\ m[1] = Safe /\ m[2] = after /\ m[3] = Armed /\ m[4] = Armed
    OBVIOUS
  <2>4. IsSequence(begin)
    BY Singles
  <2> HIDE DEF begin, m
  <2>5. Annotates(m, begin)
    BY <2>1, <2>2, <2>3 DEF Annotates
  <2> QED BY <2>3, <2>4, <2>5 DEF Passes
<1> DEFINE battery == Sets("BATTERY", 73, [battery_percent |-> 73])
           runtime == Sets("RUNTIME", 1234, [runtime_seconds |-> 1234, runtime_mode |-> "manual"])
           auto == Sets("RUNTIME AUTO", Absent, [runtime_mode |-> "auto"])
           voltage == Sets("VOLTAGE", 1325, [voltage_centivolts |-> 1325])
           load == Sets("LOAD", 42, [load_percent |-> 42])
           input == Sets("INPUTVOLTAGE", 22850, [input_voltage_centivolts |-> 22850])
           output == Sets("OUTPUTVOLTAGE", 22950, [output_voltage_centivolts |-> 22950])
           delay == Sets("STARTDELAY", 15, [host_start_delay |-> 15])
<1>2. /\ 73 \in 0 .. 100 /\ 42 \in 0 .. 100 /\ 15 \in StartDelays
      /\ 1234 \in UInt16 /\ 1325 \in UInt16 /\ 22850 \in UInt16 /\ 22950 \in UInt16
  BY SMT DEF UInt16, StartDelays, UINT16_MAX, INT16_MAX
<1>3. Passes(battery, Armed, Armed)
  <2> DEFINE r == Line("BATTERY", 73)
             values == [battery_percent |-> 73]
  <2>1. r.op = "BATTERY" /\ r.arg = 73
    BY DEF Line
  <2>2. DOMAIN values = {"battery_percent"} /\ values["battery_percent"] = 73
    OBVIOUS
  <2> HIDE DEF r, values
  <2>3. Parses(r) /\ \A f \in DOMAIN values : Gives(r, f, values[f])
    BY <1>2, <2>1, <2>2, SMT DEF Parses, Gives
  <2> QED BY <2>3, SetsPasses, SMT DEF Inquiries, r, values
<1>4. Passes(runtime, Armed, Armed)
  BY <1>2, RuntimePasses
<1>5. Passes(auto, Armed, Armed)
  <2> DEFINE r == Line("RUNTIME AUTO", Absent)
             values == [runtime_mode |-> "auto"]
  <2>1. r.op = "RUNTIME AUTO" /\ r.arg = Absent
    BY DEF Line
  <2>2. DOMAIN values = {"runtime_mode"} /\ values["runtime_mode"] = "auto"
    OBVIOUS
  <2> HIDE DEF r, values
  <2>3. Parses(r) /\ \A f \in DOMAIN values : Gives(r, f, values[f])
    BY <2>1, <2>2 DEF Parses, Gives
  <2> QED BY <2>3, SetsPasses DEF Inquiries, r, values
<1>6. Passes(voltage, Armed, Armed)
  <2> DEFINE r == Line("VOLTAGE", 1325)
             values == [voltage_centivolts |-> 1325]
  <2>1. r.op = "VOLTAGE" /\ r.arg = 1325
    BY DEF Line
  <2>2. DOMAIN values = {"voltage_centivolts"} /\ values["voltage_centivolts"] = 1325
    OBVIOUS
  <2> HIDE DEF r, values
  <2>3. Parses(r) /\ \A f \in DOMAIN values : Gives(r, f, values[f])
    BY <1>2, <2>1, <2>2, SMT DEF Parses, Gives
  <2> QED BY <2>3, SetsPasses, SMT DEF Inquiries, r, values
<1>7. Passes(load, Armed, Armed)
  <2> DEFINE r == Line("LOAD", 42)
             values == [load_percent |-> 42]
  <2>1. r.op = "LOAD" /\ r.arg = 42
    BY DEF Line
  <2>2. DOMAIN values = {"load_percent"} /\ values["load_percent"] = 42
    OBVIOUS
  <2> HIDE DEF r, values
  <2>3. Parses(r) /\ \A f \in DOMAIN values : Gives(r, f, values[f])
    BY <1>2, <2>1, <2>2, SMT DEF Parses, Gives
  <2> QED BY <2>3, SetsPasses, SMT DEF Inquiries, r, values
<1>8. Passes(input, Armed, Armed)
  <2> DEFINE r == Line("INPUTVOLTAGE", 22850)
             values == [input_voltage_centivolts |-> 22850]
  <2>1. r.op = "INPUTVOLTAGE" /\ r.arg = 22850
    BY DEF Line
  <2>2. DOMAIN values = {"input_voltage_centivolts"} /\ values["input_voltage_centivolts"] = 22850
    OBVIOUS
  <2> HIDE DEF r, values
  <2>3. Parses(r) /\ \A f \in DOMAIN values : Gives(r, f, values[f])
    BY <1>2, <2>1, <2>2, SMT DEF Parses, Gives
  <2> QED BY <2>3, SetsPasses, SMT DEF Inquiries, r, values
<1>9. Passes(output, Armed, Armed)
  <2> DEFINE r == Line("OUTPUTVOLTAGE", 22950)
             values == [output_voltage_centivolts |-> 22950]
  <2>1. r.op = "OUTPUTVOLTAGE" /\ r.arg = 22950
    BY DEF Line
  <2>2. DOMAIN values = {"output_voltage_centivolts"} /\ values["output_voltage_centivolts"] = 22950
    OBVIOUS
  <2> HIDE DEF r, values
  <2>3. Parses(r) /\ \A f \in DOMAIN values : Gives(r, f, values[f])
    BY <1>2, <2>1, <2>2, SMT DEF Parses, Gives
  <2> QED BY <2>3, SetsPasses, SMT DEF Inquiries, r, values
<1>10. Passes(delay, Armed, Armed)
  <2> DEFINE r == Line("STARTDELAY", 15)
             values == [host_start_delay |-> 15]
  <2>1. r.op = "STARTDELAY" /\ r.arg = 15
    BY DEF Line
  <2>2. DOMAIN values = {"host_start_delay"} /\ values["host_start_delay"] = 15
    OBVIOUS
  <2> HIDE DEF r, values
  <2>3. Parses(r) /\ \A f \in DOMAIN values : Gives(r, f, values[f])
    BY <1>2, <2>1, <2>2, SMT DEF Parses, Gives
  <2> QED BY <2>3, SetsPasses, SMT DEF Inquiries, r, values
<1>11. MeasurementSteps = begin \o battery \o runtime \o auto \o voltage \o load \o input
                         \o output \o delay
  BY DEF MeasurementSteps
<1> HIDE DEF begin, battery, runtime, auto, voltage, load, input, output, delay
<1> QED BY <1>1, <1>3, <1>4, <1>5, <1>6, <1>7, <1>8, <1>9, <1>10, <1>11, JoinPasses, Zenon

LEMMA FlagStepsPass == Passes(FlagSteps, Armed, Armed)
<1> DEFINE one == Sets("CHARGING", On, [charging_mode |-> "on", charging_active |-> TRUE])
                  \o Sets("CHARGING", Off, [charging_mode |-> "off", charging_active |-> FALSE])
                  \o Sets("CHARGING", Automatic, [charging_mode |-> "auto"])
                  \o Sets("AC", Off, [ac_present |-> FALSE]) \o Sets("AC", On, [ac_present |-> TRUE])
           two == one \o Sets("LOWBAT", On, [low_battery_mode |-> "on", low_battery_active |-> TRUE])
                  \o Sets("LOWBAT", Off, [low_battery_mode |-> "off", low_battery_active |-> FALSE])
                  \o Sets("LOWBAT", Automatic, [low_battery_mode |-> "auto"])
                  \o Sets("OVERLOAD", On, [overload |-> TRUE])
                  \o Sets("OVERLOAD", Off, [overload |-> FALSE])
           three == two \o Sets("REPLACE", On, [need_replacement |-> TRUE])
                    \o Sets("REPLACE", Off, [need_replacement |-> FALSE])
                    \o Sets("COMMLOST", On, [communication_lost |-> TRUE])
                    \o Sets("COMMLOST", Off, [communication_lost |-> FALSE])
                    \o Sets("SHUTDOWN", On, [shutdown_requested |-> TRUE, shutdown_imminent |-> TRUE])
                    \o Sets("SHUTDOWN", Off, [shutdown_requested |-> FALSE])
<1>1. \A q, t : Passes(q, Armed, Armed) /\ Passes(t, Armed, Armed) => Passes(q \o t, Armed, Armed)
  BY JoinPasses, Zenon
<1>2. Passes(one, Armed, Armed)
  BY <1>1, FlagsPass, Zenon
<1>3. Passes(two, Armed, Armed)
  <2> HIDE DEF one
  <2> QED BY <1>1, <1>2, FlagsPass, Zenon
<1>4. Passes(three, Armed, Armed)
  <2> HIDE DEF two
  <2> QED BY <1>1, <1>3, FlagsPass, Zenon
<1>5. FlagSteps = three
  BY Zenon DEF FlagSteps
<1> HIDE DEF three
<1> QED BY <1>4, <1>5

LEMMA ArmingStepsPass == Passes(ArmingSteps, Armed, Safe)
<1> DEFINE fields == [armed |-> TRUE]
           armed_again == Knowing("on", fields)
           disarmed == Knowing("off", SafeStateChecks)
           first == Sets("ARM", Off, SafeStateChecks)
           rest == <<Sends(ArmFor(ShortLease)), Checks(fields), Query("RESET"), Checks(SafeStateChecks)>>
           m == <<Safe, armed_again, Armed, disarmed, Safe>>
<1>1. Fits(disarmed, Checks(SafeStateChecks), Safe)
  BY CheckFits DEF Safe
<1>2. Passes(first, Armed, Safe)
  <2>1. Disarming(Line("ARM", Off))
    BY DEF Disarming
  <2>2. Fits(Armed, Sends(Line("ARM", Off)), disarmed)
    BY <2>1, DisarmFits, SafeValues
  <2> HIDE DEF disarmed
  <2> QED BY <1>1, <2>2, TwoPass DEF Sets
<1>3. Passes(rest, Safe, Safe)
  <2>1. Fits(Safe, Sends(ArmFor(ShortLease)), armed_again)
    BY ArmFits
  <2>2. Fits(armed_again, Checks(fields), Armed)
    <3> HIDE DEF fields
    <3> QED BY CheckFits DEF Armed
  <2>3. Fits(Armed, Query("RESET"), disarmed)
    <3>1. Query("RESET") = Sends(Line("RESET", Absent)) /\ Disarming(Line("RESET", Absent))
      BY DEF Query, Disarming, Line
    <3> QED BY <3>1, DisarmFits, SafeValues
  <2> HIDE DEF fields, armed_again, disarmed
  <2>4. /\ Len(rest) = 4 /\ rest[1] = Sends(ArmFor(ShortLease)) /\ rest[2] = Checks(fields)
        /\ rest[3] = Query("RESET") /\ rest[4] = Checks(SafeStateChecks)
        /\ m[1] = Safe /\ m[2] = armed_again /\ m[3] = Armed /\ m[4] = disarmed /\ m[5] = Safe
    OBVIOUS
  <2>5. IsSequence(rest)
    BY Singles
  <2> HIDE DEF rest, m
  <2>6. Annotates(m, rest)
    BY <1>1, <2>1, <2>2, <2>3, <2>4 DEF Annotates
  <2> QED BY <2>4, <2>5, <2>6 DEF Passes
<1>4. ArmingSteps = first \o rest
  BY DEF ArmingSteps
<1> HIDE DEF first, rest
<1> QED BY <1>2, <1>3, <1>4, JoinPasses

LEMMA SelfTestPasses == Passes(SelfTestSteps, Unknown, Safe)
BY QueryStepsPass, MeasurementStepsPass, FlagStepsPass, ArmingStepsPass, JoinPasses, ZenonT(30)
   DEF SelfTestSteps

LEMMA SelfTestLength == IsSequence(SelfTestSteps) /\ Len(SelfTestSteps) \in Nat \ {0}
<1>1. PICK m : m[1] = Unknown /\ m[Len(SelfTestSteps) + 1] = Safe
  BY SelfTestPasses DEF Passes
<1>2. IsSequence(SelfTestSteps) /\ Len(SelfTestSteps) \in Nat
  <2>1. IsSequence(SelfTestSteps)
    BY SelfTestPasses DEF Passes
  <2> QED BY <2>1, Joined
<1>3. Unknown # Safe
  <2>1. Unknown.arming = "any" /\ Safe.arming = "off"
    BY DEF Unknown, Safe, Knowing
  <2> QED BY <2>1
<1> QED BY <1>1, <1>2, <1>3

LEMMA StepsFacts ==
  /\ Len(Opening) = 2
  /\ Len(Steps("connect")) = 2
  /\ Len(Steps("body")) = IF IsSelfTest THEN Len(SelfTestSteps) ELSE 1
  /\ Len(Steps("cleanup")) = 1
  /\ Steps("cleanup")[1].line.op = "RESET"
  /\ ~IsSelfTest => Steps("body")[1].line = job.line
<1>1. Len(Opening) = 2
  BY Singles DEF Opening
<1>2. Steps("connect") = Opening
  BY DEF Steps
<1>3. Steps("body") = IF IsSelfTest THEN SelfTestSteps ELSE <<Sends(job.line)>>
  BY DEF Steps
<1>4. Steps("cleanup") = <<Query("RESET")>>
  BY DEF Steps
<1>5. \A a : Len(<<a>>) = 1 /\ <<a>>[1] = a
  OBVIOUS
<1>6. Query("RESET").line.op = "RESET"
  BY DEF Query, Sends, Line
<1>7. Sends(job.line).line = job.line
  BY DEF Sends
<1> QED BY <1>1, <1>2, <1>3, <1>4, <1>5, <1>6, <1>7

(* lines that wait to be executed: one more, one less *)
LEMMA Queued ==
  ASSUME NEW s, IsSequence(s), NEW x
  PROVE  /\ Len(s) \in Nat
         /\ IsSequence(Append(s, x)) /\ Len(Append(s, x)) = Len(s) + 1
         /\ s # <<>> => IsSequence(Tail(s)) /\ Len(Tail(s)) = Len(s) - 1 /\ Len(s) > 0
<1>1. PICK S : s \in Seq(S)
  BY DEF IsSequence
<1>2. s \in Seq(S \cup {x}) /\ x \in S \cup {x}
  BY <1>1, SeqMonotonic
<1>3. Append(s, x) \in Seq(S \cup {x}) /\ Len(Append(s, x)) = Len(s) + 1 /\ Len(s) \in Nat
  BY <1>2
<1>4. s # <<>> => Tail(s) \in Seq(S) /\ Len(Tail(s)) = Len(s) - 1 /\ Len(s) > 0
  BY <1>1
<1> QED BY <1>3, <1>4 DEF IsSequence

LEMMA EmptyQueue == IsSequence(<<>>) /\ Len(<<>>) = 0
<1>1. <<>> \in Seq({}) /\ Len(<<>>) = 0
  OBVIOUS
<1> QED BY <1>1 DEF IsSequence

LEMMA OneQueued ==
  \A x : /\ Append(<<>>, x) = <<x>> /\ <<x>> # <<>> /\ Tail(<<x>>) = <<>>
         /\ Head(<<x>>) = x /\ Len(<<x>>) = 1 /\ IsSequence(<<x>>)
<1>1. \A x : /\ Append(<<>>, x) = <<x>> /\ <<x>> # <<>> /\ Tail(<<x>>) = <<>>
             /\ Head(<<x>>) = x /\ Len(<<x>>) = 1 /\ <<x>> \in Seq({x})
  OBVIOUS
<1> QED BY <1>1 DEF IsSequence

-----------------------------------------------------------------------------
(* The inductive invariant of a script.                                    *)

InScript == stage \in {"connect", "body", "cleanup"}

Preparing == stage \in {"off", "hid", "discover", "precheck"}

(* how many lines the program has sent before this stage, and so far *)
Before == IF stage = "connect" THEN 0
          ELSE IF stage = "body" THEN Len(Opening) ELSE Len(Opening) + Len(SelfTestSteps)
Sent == Before + (step - 1) + (IF waiting THEN 1 ELSE 0)

ProgramType ==
  /\ job \in {SelfTest} \cup {CommandLine(r) : r \in CliLines}
  /\ InScript \/ Preparing \/ stage = "ended"
  /\ InScript => step \in 1 .. Len(Steps(stage))
  /\ waiting \in BOOLEAN /\ outcome \in {0, 1, 2, Interrupted, Killed}
  /\ link \in {"closed", "open", "dead"}
  /\ disturbed \in {"no", "yes", "meddled"} /\ owner \in {"us", "other"}
  /\ ran \in Nat /\ IsSequence(lines)

PlaceInv ==
  /\ Preparing => /\ step = 1 /\ ~waiting /\ outcome = 0 /\ ran = 0
                  /\ lines = <<>> /\ answers = <<>> /\ link = "closed"
  /\ stage \in {"hid", "discover", "precheck", "cleanup"} => IsSelfTest
  /\ InScript => link # "closed" /\ (stage # "cleanup" => outcome = 0)
  /\ stage = "ended" => ~waiting

(* Nothing is executed that was not sent. *)
CountInv ==
  /\ InScript => ran + Len(lines) <= Sent
  /\ stage = "ended" => ran + Len(lines) <= AllSteps

(* As long as nothing has gone wrong, the line that was sent last, or its  *)
(* answer, is all that is on its way.                                      *)
ExchangeInv ==
  InScript /\ outcome = 0 =>
    /\ ~waiting => lines = <<>> /\ answers = <<>> /\ ran = Sent
    /\ waiting => \/ lines = <<Current.line>> /\ answers = <<>> /\ ran = Sent - 1
                  \/ lines = <<>> /\ answers # <<>> /\ Tail(answers) = <<>> /\ ran = Sent
                  \/ lines = <<>> /\ answers = <<>> /\ link = "dead"
    /\ answers # <<>> /\ disturbed # "meddled" /\ Disarming(Current.line) => ~armed

EndInv ==
  stage = "ended" /\ outcome = 0 =>
    /\ lines = <<>> /\ ran = AllSteps
    /\ disturbed # "meddled" /\ (IsSelfTest \/ Disarming(job.line)) => ~armed

ScriptInv == ProgramType /\ PlaceInv /\ CountInv /\ ExchangeInv /\ EndInv

LEMMA SentFacts ==
  ASSUME ScriptInv
  PROVE  /\ AllSteps \in Nat /\ Len(lines) \in Nat /\ ran \in Nat
         /\ InScript => Sent \in Nat /\ Sent <= AllSteps /\ step \in Nat
         /\ Running => ran + Len(lines) <= AllSteps
<1>1. Len(lines) \in Nat /\ ran \in Nat
  BY Queued DEF ScriptInv, ProgramType
<1>2. AllSteps \in Nat /\ AllSteps = 2 + (IF IsSelfTest THEN Len(SelfTestSteps) + 1 ELSE 1)
  BY StepsFacts, SelfTestLength DEF AllSteps
<1>3. ASSUME InScript PROVE Sent \in Nat /\ Sent <= AllSteps /\ step \in Nat
  <2>1. step \in 1 .. Len(Steps(stage))
    BY <1>3 DEF ScriptInv, ProgramType
  <2>2. CASE stage = "connect"
    <3>1. step \in 1 .. 2 /\ Before = 0
      BY <2>1, <2>2, StepsFacts DEF Before
    <3> QED BY <1>2, <3>1, SelfTestLength DEF Sent
  <2>3. CASE stage = "body"
    <3>1. step \in 1 .. (IF IsSelfTest THEN Len(SelfTestSteps) ELSE 1) /\ Before = 2
      BY <2>1, <2>3, StepsFacts DEF Before
    <3> QED BY <1>2, <3>1, SelfTestLength DEF Sent
  <2>4. CASE stage = "cleanup"
    <3>1. step \in 1 .. 1 /\ Before = 2 + Len(SelfTestSteps)
      BY <2>1, <2>4, StepsFacts DEF Before
    <3>2. IsSelfTest
      BY <2>4 DEF ScriptInv, PlaceInv
    <3> QED BY <1>2, <3>1, <3>2, SelfTestLength DEF Sent
  <2> QED BY <1>3, <2>2, <2>3, <2>4 DEF InScript
<1>4. Running => ran + Len(lines) <= AllSteps
  <2>1. CASE InScript
    BY <1>1, <1>2, <1>3, <2>1 DEF ScriptInv, CountInv
  <2>2. CASE Preparing
    BY <1>1, <1>2, <2>2, EmptyQueue DEF ScriptInv, PlaceInv
  <2> QED BY <2>1, <2>2 DEF ScriptInv, ProgramType, Running
<1> QED BY <1>1, <1>2, <1>3, <1>4

LEMMA SameScript ==
  ASSUME UNCHANGED job
  PROVE  /\ IsSelfTest' = IsSelfTest /\ AllSteps' = AllSteps
         /\ UNCHANGED stage => Steps(stage)' = Steps(stage)
         /\ UNCHANGED <<stage, step>> => Current' = Current /\ Before' = Before
BY DEF IsSelfTest, AllSteps, Steps, Current, Before

-----------------------------------------------------------------------------
(* Steps that keep the invariant.                                          *)

(* Nothing happens to the script and what it has sent; who meddles with    *)
(* the simulator has disturbed it.                                         *)
LEMMA KeptScript ==
  ASSUME ScriptInv, UNCHANGED <<progress, traffic, ran>>,
         disturbed' \in {"no", "yes", "meddled"}, owner' \in {"us", "other"},
         disturbed = "meddled" => disturbed' = "meddled",
         armed' => armed \/ Preparing \/ disturbed' = "meddled"
  PROVE  ScriptInv'
<1>1. /\ job' = job /\ stage' = stage /\ step' = step /\ waiting' = waiting /\ outcome' = outcome
      /\ link' = link /\ lines' = lines /\ answers' = answers /\ ran' = ran
  BY DEF progress, traffic
<1>2. /\ IsSelfTest' = IsSelfTest /\ AllSteps' = AllSteps /\ Steps(stage)' = Steps(stage)
      /\ Current' = Current /\ Before' = Before
  BY <1>1, SameScript
<1>3. Sent' = Sent /\ InScript' = InScript /\ Preparing' = Preparing
  BY <1>1, <1>2 DEF Sent, InScript, Preparing
<1>4. ProgramType'
  BY <1>1, <1>2, <1>3 DEF ScriptInv, ProgramType
<1>5. PlaceInv'
  BY <1>1, <1>2, <1>3 DEF ScriptInv, PlaceInv
<1>6. CountInv'
  BY <1>1, <1>2, <1>3 DEF ScriptInv, CountInv
<1>7. ~(InScript /\ Preparing) /\ ~(stage = "ended" /\ Preparing)
  BY DEF InScript, Preparing
<1>8. ExchangeInv'
  BY <1>1, <1>2, <1>3, <1>7 DEF ScriptInv, ExchangeInv
<1>9. EndInv'
  BY <1>1, <1>2, <1>3, <1>7 DEF ScriptInv, EndInv
<1> QED BY <1>4, <1>5, <1>6, <1>8, <1>9 DEF ScriptInv

(* A program ends with an error, or is killed. *)
LEMMA FailedEnd ==
  ASSUME ScriptInv, Running, NEW status \in {1, 2, Interrupted, Killed}, Ended(status),
         UNCHANGED <<lines, ran>>,
         disturbed' \in {"no", "yes", "meddled"}, owner' \in {"us", "other"}
  PROVE  ScriptInv'
<1>1. /\ stage' = "ended" /\ outcome' = status /\ status # 0 /\ waiting' = FALSE
      /\ link' = "closed" /\ job' = job /\ lines' = lines /\ ran' = ran
  BY DEF Ended, Interrupted, Killed
<1>2. AllSteps' = AllSteps /\ ran + Len(lines) <= AllSteps
  BY <1>1, SameScript, SentFacts
<1>3. ~InScript' /\ ~Preparing'
  BY <1>1 DEF InScript, Preparing
<1>4. ProgramType'
  <2>1. waiting' \in BOOLEAN
    BY <1>1
  <2> QED BY <1>1, <1>3, <2>1 DEF ScriptInv, ProgramType
<1>5. PlaceInv' /\ ExchangeInv' /\ EndInv'
  BY <1>1, <1>3 DEF PlaceInv, ExchangeInv, EndInv
<1>6. CountInv'
  BY <1>1, <1>2, <1>3 DEF CountInv
<1> QED BY <1>4, <1>5, <1>6 DEF ScriptInv

(* An exception, in the body of the self test or elsewhere. *)
LEMMA FailedStep ==
  ASSUME ScriptInv, Running, NEW status \in {1, 2, Interrupted}, Raised(status),
         UNCHANGED <<lines, ran>>,
         disturbed' \in {"no", "yes", "meddled"}, owner' \in {"us", "other"}
  PROVE  ScriptInv'
<1>1. CASE stage = "body" /\ IsSelfTest
  <2>1. /\ stage' = "cleanup" /\ step' = 1 /\ waiting' = FALSE /\ outcome' = status
        /\ link' = link /\ job' = job /\ lines' = lines /\ ran' = ran /\ status # 0
    BY <1>1 DEF Raised, Interrupted
  <2>2. IsSelfTest' /\ InScript /\ InScript' /\ ~Preparing'
    BY <1>1, <2>1, SameScript DEF InScript, Preparing
  <2>3. Len(Steps(stage))' = 1
    BY <2>1, StepsFacts DEF Steps
  <2>4. Sent' = 2 + Len(SelfTestSteps) /\ Sent <= 2 + Len(SelfTestSteps) /\ Sent \in Nat
    <3>1. Before = 2 /\ Before' = 2 + Len(SelfTestSteps)
      BY <1>1, <2>1, StepsFacts DEF Before
    <3>2. step \in 1 .. Len(SelfTestSteps)
      BY <1>1, <2>2, StepsFacts DEF ScriptInv, ProgramType
    <3> QED BY <2>1, <3>1, <3>2, SelfTestLength DEF Sent
  <2>5. ProgramType'
    <3>1. waiting' \in BOOLEAN
      BY <2>1, Zenon
    <3>2. step' \in 1 .. 1
      BY <2>1
    <3> QED BY <2>1, <2>2, <2>3, <3>1, <3>2 DEF ScriptInv, ProgramType
  <2>6. PlaceInv' /\ ExchangeInv' /\ EndInv'
    BY <2>1, <2>2 DEF ScriptInv, PlaceInv, ExchangeInv, EndInv
  <2>7. CountInv'
    BY <2>1, <2>2, <2>4, SentFacts DEF ScriptInv, CountInv
  <2> QED BY <2>5, <2>6, <2>7 DEF ScriptInv
<1>2. CASE ~(stage = "body" /\ IsSelfTest)
  BY <1>2, FailedEnd DEF Raised
<1> QED BY <1>1, <1>2

(* main() before the connection *)
LEMMA PrepareStep ==
  ASSUME ScriptInv, StartSelfTest \/ StartCli \/ HidCheck \/ Discover \/ PreCheck
  PROVE  ScriptInv'
<1>1. Preparing
  BY DEF StartSelfTest, StartCli, HidCheck, Discover, PreCheck, Preparing
<1>2. /\ step = 1 /\ waiting = FALSE /\ outcome = 0 /\ ran = 0
      /\ lines = <<>> /\ answers = <<>> /\ link = "closed"
  BY <1>1 DEF ScriptInv, PlaceInv, ProgramType
<1>3. UNCHANGED <<lines, ran, owner>> /\ (disturbed' = disturbed)
  BY DEF StartSelfTest, StartCli, HidCheck, Discover, PreCheck, traffic, auxiliary,
         SimulatorUntouched
<1>4. disturbed \in {"no", "yes", "meddled"} /\ owner \in {"us", "other"}
  BY DEF ScriptInv, ProgramType
<1>5. ASSUME Ended(1), Running PROVE ScriptInv'
  BY <1>3, <1>4, <1>5, FailedEnd
<1>6. ASSUME stage' \in {"hid", "discover", "precheck"}, IsSelfTest', step' = 1, waiting' = FALSE,
             UNCHANGED <<outcome, link, answers>>,
             job' \in {SelfTest} \cup {CommandLine(r) : r \in CliLines}
      PROVE  ScriptInv'
  <2>1. ~InScript' /\ Preparing' /\ stage' # "ended"
    BY <1>6 DEF InScript, Preparing
  <2> QED BY <1>2, <1>3, <1>6, <2>1
          DEF ScriptInv, ProgramType, PlaceInv, CountInv, ExchangeInv, EndInv
<1>7. ASSUME stage' = "connect", link' = "open", waiting' = FALSE,
             UNCHANGED <<step, outcome, answers>>,
             job' \in {SelfTest} \cup {CommandLine(r) : r \in CliLines}
      PROVE  ScriptInv'
  <2>1. InScript' /\ ~Preparing' /\ stage' # "ended"
    BY <1>7 DEF InScript, Preparing
  <2>2. Len(Steps(stage))' = 2 /\ Sent' = 0
    <3>1. Steps(stage)' = Opening /\ Before' = 0
      BY <1>7 DEF Steps, Before
    <3> QED BY <1>2, <1>7, <3>1, StepsFacts DEF Sent
  <2>3. step' \in 1 .. 2
    BY <1>2, <1>7
  <2>4. ProgramType'
    BY <1>3, <1>7, <2>1, <2>2, <2>3 DEF ScriptInv, ProgramType
  <2>5. PlaceInv' /\ EndInv'
    BY <1>2, <1>7, <2>1 DEF PlaceInv, EndInv
  <2>6. CountInv'
    BY <1>2, <1>3, <2>1, <2>2, EmptyQueue DEF CountInv
  <2>7. ExchangeInv'
    BY <1>2, <1>3, <1>7, <2>2 DEF ExchangeInv
  <2> QED BY <2>4, <2>5, <2>6, <2>7 DEF ScriptInv
<1>8. CASE StartSelfTest
  <2>1. job' = SelfTest /\ IsSelfTest'
    BY <1>8 DEF StartSelfTest, IsSelfTest, SelfTest
  <2> QED BY <1>2, <1>6, <1>8, <2>1 DEF StartSelfTest, traffic
<1>9. CASE StartCli
  BY <1>2, <1>7, <1>9 DEF StartCli
<1>10. ASSUME stage \in {"hid", "discover", "precheck"}, job' = job
       PROVE  Running /\ IsSelfTest' /\ job' \in {SelfTest} \cup {CommandLine(r) : r \in CliLines}
  BY <1>10, SameScript DEF ScriptInv, ProgramType, PlaceInv, Running
<1>11. CASE HidCheck
  BY <1>2, <1>5, <1>6, <1>10, <1>11 DEF HidCheck, GoesTo, Ended
<1>12. CASE Discover
  BY <1>2, <1>5, <1>6, <1>10, <1>12 DEF Discover, GoesTo, Ended
<1>13. CASE PreCheck
  BY <1>2, <1>5, <1>7, <1>10, <1>13 DEF PreCheck, Ended
<1> QED BY <1>8, <1>9, <1>11, <1>12, <1>13

LEMMA SendStep == ASSUME ScriptInv, Send PROVE ScriptInv'
<1>1. /\ InScript /\ waiting = FALSE /\ link = "open" /\ lines' = Append(lines, Current.line)
      /\ waiting' = TRUE /\ job' = job /\ stage' = stage /\ step' = step /\ outcome' = outcome
      /\ link' = link /\ answers' = answers /\ disturbed' = disturbed /\ owner' = owner
      /\ ran' = ran /\ armed' = armed
  BY DEF Send, SimulatorUntouched, vars, InScript, ScriptInv, ProgramType
<1>2. /\ IsSelfTest' = IsSelfTest /\ AllSteps' = AllSteps /\ Steps(stage)' = Steps(stage)
      /\ Current' = Current /\ Before' = Before
  BY <1>1, SameScript
<1>3. InScript' /\ ~Preparing /\ ~Preparing' /\ stage' # "ended"
  BY <1>1 DEF InScript, Preparing
<1>4. Sent' = Sent + 1 /\ Sent \in Nat
  <2>1. Sent' = Before + (step - 1) + 1 /\ Sent = Before + (step - 1) + 0
    BY <1>1, <1>2 DEF Sent
  <2>2. Before \in Nat /\ step \in Int /\ Sent \in Nat
    BY <1>1, StepsFacts, SelfTestLength, SentFacts DEF Before
  <2> QED BY <2>1, <2>2
<1>5. Len(lines) \in Nat /\ IsSequence(lines') /\ Len(lines') = Len(lines) + 1
  BY <1>1, Queued DEF ScriptInv, ProgramType
<1>6. ProgramType'
  <2>1. waiting' \in BOOLEAN
    BY <1>1, Zenon
  <2> QED BY <1>1, <1>2, <1>3, <1>5, <2>1 DEF ScriptInv, ProgramType
<1>7. PlaceInv' /\ EndInv'
  BY <1>1, <1>2, <1>3 DEF ScriptInv, PlaceInv, EndInv
<1>8. CountInv'
  <2>1. ran + Len(lines) <= Sent /\ ran \in Nat
    BY <1>1 DEF ScriptInv, CountInv, ProgramType
  <2>2. ran' + Len(lines') <= Sent'
    BY <1>1, <1>4, <1>5, <2>1
  <2> QED BY <1>3, <2>2 DEF CountInv
<1>9. ExchangeInv'
  <2>1. CASE outcome = 0
    <3>1. lines = <<>> /\ answers = <<>> /\ ran = Sent
      BY <1>1, <2>1 DEF ScriptInv, ExchangeInv
    <3>2. lines' = <<Current.line>> /\ ran' = Sent' - 1
      BY <1>1, <1>4, <3>1, OneQueued
    <3> QED BY <1>1, <1>2, <3>1, <3>2 DEF ExchangeInv
  <2>2. CASE outcome # 0
    BY <1>1, <2>2 DEF ExchangeInv
  <2> QED BY <2>1, <2>2
<1> QED BY <1>6, <1>7, <1>8, <1>9 DEF ScriptInv

(* a line that disarms does so *)
LEMMA DisarmingDisarms ==
  ASSUME NEW r, Disarming(r), Command(r) PROVE ~armed'
<1>1. r.op = "RESET" \/ (r.op = "ARM" /\ r.arg = Off)
  BY DEF Disarming, Line
<1>2. ~Answer(r)
  BY <1>1 DEF Answer, ReadOnly, Off, On
<1>3. ~Recompute(r) /\ ~Arm(r)
  BY <1>1 DEF Recompute, Arm, Off, On
<1>4. ~Change(r)
  BY <1>1, Names DEF Change, Parses
<1>5. Disarm(r) => ~armed'
  BY DEF Disarm, SetSafeState
<1> QED BY <1>2, <1>3, <1>4, <1>5 DEF Command

LEMMA ExecuteStep == ASSUME ScriptInv, Execute PROVE ScriptInv'
<1> DEFINE r == Head(lines)
<1>1. /\ lines # <<>> /\ lines' = Tail(lines) /\ Command(r) /\ ran' = ran + 1
      /\ job' = job /\ stage' = stage /\ step' = step /\ waiting' = waiting /\ outcome' = outcome
      /\ link' = link /\ disturbed' = disturbed /\ owner' = Owner(r)
  BY DEF Execute, progress
<1>2. /\ link = "open" => \E a : answers' = Append(answers, a)
      /\ link # "open" => answers' = answers
  BY Zenon DEF Execute
<1>3. /\ IsSelfTest' = IsSelfTest /\ AllSteps' = AllSteps /\ Steps(stage)' = Steps(stage)
      /\ Current' = Current /\ Before' = Before
  BY <1>1, SameScript
<1>4. Sent' = Sent /\ InScript' = InScript /\ Preparing' = Preparing /\ ~Preparing
  BY <1>1, <1>3 DEF Sent, InScript, Preparing, ScriptInv, PlaceInv
<1>5. /\ Len(lines) \in Nat /\ IsSequence(lines') /\ Len(lines') = Len(lines) - 1
      /\ ran \in Nat /\ ran' \in Nat /\ ran' + Len(lines') = ran + Len(lines)
  <2>1. IsSequence(lines) /\ ran \in Nat
    BY DEF ScriptInv, ProgramType
  <2>2. Len(lines) \in Nat /\ IsSequence(Tail(lines)) /\ Len(Tail(lines)) = Len(lines) - 1
    BY <1>1, <2>1, Queued
  <2> QED BY <1>1, <2>1, <2>2
<1>6. owner' \in {"us", "other"}
  BY <1>1 DEF ScriptInv, ProgramType, Owner
<1>7. ProgramType'
  BY <1>1, <1>3, <1>4, <1>5, <1>6 DEF ScriptInv, ProgramType
<1>8. PlaceInv'
  BY <1>1, <1>3, <1>4 DEF ScriptInv, PlaceInv
<1>9. CountInv'
  BY <1>1, <1>3, <1>4, <1>5 DEF ScriptInv, CountInv
<1>10. EndInv'
  BY <1>1 DEF ScriptInv, EndInv
<1>11. ExchangeInv'
  <2>1. CASE InScript /\ outcome = 0
    <3>1. waiting /\ lines = <<Current.line>> /\ answers = <<>> /\ ran = Sent - 1
      BY <1>1, <2>1 DEF ScriptInv, ExchangeInv
    <3>2. r = Current.line /\ lines' = <<>>
      BY <1>1, <3>1, OneQueued
    <3>3. Sent \in Nat /\ ran' = Sent
      BY <1>1, <2>1, <3>1, SentFacts
    <3>4. link = "open" => answers' # <<>> /\ Tail(answers') = <<>>
      BY <1>2, <3>1, OneQueued
    <3>5. link # "open" => answers' = <<>> /\ link = "dead"
      BY <1>2, <2>1, <3>1 DEF ScriptInv, ProgramType, PlaceInv
    <3>6. Disarming(Current.line) => ~armed'
      BY <1>1, <3>2, DisarmingDisarms
    <3> QED BY <1>1, <1>3, <1>4, <3>1, <3>2, <3>3, <3>4, <3>5, <3>6 DEF ExchangeInv
  <2>2. CASE ~(InScript /\ outcome = 0)
    BY <1>1, <1>4, <2>2 DEF ExchangeInv
  <2> QED BY <2>1, <2>2
<1> QED BY <1>7, <1>8, <1>9, <1>10, <1>11 DEF ScriptInv

(* what is on its way is lost, with the connection or after it *)
LEMMA LossStep == ASSUME ScriptInv, Cut \/ Lose PROVE ScriptInv'
<1>1. /\ job' = job /\ stage' = stage /\ step' = step /\ waiting' = waiting /\ outcome' = outcome
      /\ ran' = ran /\ owner' = owner /\ armed' = armed /\ answers' = answers
      /\ lines' = lines \/ lines' = <<>>
      /\ disturbed' \in {disturbed, "yes"} /\ (disturbed = "meddled" => disturbed' = "meddled")
      /\ (link = "open" /\ link' = "dead") \/ (link = "closed" /\ link' = link)
  BY DEF Cut, Lose, Disturbed, SimulatorUntouched, vars, progress
<1>2. /\ IsSelfTest' = IsSelfTest /\ AllSteps' = AllSteps /\ Steps(stage)' = Steps(stage)
      /\ Current' = Current /\ Before' = Before
  BY <1>1, SameScript
<1>3. Sent' = Sent /\ InScript' = InScript /\ Preparing' = Preparing /\ ~Preparing
  <2>1. ~Preparing
    BY DEF Cut, Lose, ScriptInv, PlaceInv
  <2> QED BY <1>1, <1>2, <2>1 DEF Sent, InScript, Preparing
<1>4. /\ IsSequence(lines') /\ ran' + Len(lines') <= ran + Len(lines)
      /\ Len(lines) \in Nat /\ Len(lines') \in Nat /\ ran \in Nat
  BY <1>1, EmptyQueue, SentFacts DEF ScriptInv, ProgramType
<1>5. ProgramType'
  BY <1>1, <1>2, <1>3, <1>4 DEF ScriptInv, ProgramType
<1>6. PlaceInv' /\ EndInv'
  BY <1>1, <1>2, <1>3 DEF ScriptInv, PlaceInv, EndInv
<1>7. CountInv'
  BY <1>1, <1>2, <1>3, <1>4, SentFacts DEF ScriptInv, CountInv
<1>8. ExchangeInv'
  <2>1. CASE InScript /\ outcome = 0
    <3>1. link' = "dead"
      BY <1>1, <2>1 DEF ScriptInv, PlaceInv
    <3> QED BY <1>1, <1>2, <1>3, <2>1, <3>1 DEF ScriptInv, ExchangeInv
  <2>2. CASE ~(InScript /\ outcome = 0)
    BY <1>1, <1>3, <2>2 DEF ExchangeInv
  <2> QED BY <2>1, <2>2
<1> QED BY <1>5, <1>6, <1>7, <1>8 DEF ScriptInv

LEMMA KeptSteps ==
  ASSUME ScriptInv, BeforeStart \/ Meddle \/ \E ms \in Advances : Pass(ms)
  PROVE  ScriptInv'
<1>1. disturbed \in {"no", "yes", "meddled"} /\ owner \in {"us", "other"}
  BY DEF ScriptInv, ProgramType
<1>2. CASE BeforeStart
  BY <1>1, <1>2, KeptScript DEF BeforeStart, programVars, auxiliary, Preparing
<1>3. CASE Meddle
  BY <1>1, <1>3, KeptScript DEF Meddle
<1>4. ASSUME NEW ms \in Advances, Pass(ms) PROVE ScriptInv'
  <2>1. armed' => armed
    BY <1>4 DEF Pass, Advance, SetSafeState
  <2>2. /\ disturbed' \in {"no", "yes", "meddled"}
        /\ disturbed = "meddled" => disturbed' = "meddled"
    BY <1>1, <1>4 DEF Pass, Disturbed
  <2>3. UNCHANGED <<progress, traffic, ran>> /\ owner' = owner
    BY <1>4 DEF Pass
  <2> QED BY <1>1, <2>1, <2>2, <2>3, KeptScript
<1> QED BY <1>2, <1>3, <1>4

(* A program gives up. *)
LEMMA GivesUpStep ==
  ASSUME ScriptInv, Reject \/ TimeOut \/ SendFails \/ KeyboardInterrupt \/ Kill
  PROVE  ScriptInv'
<1>1. disturbed \in {"no", "yes", "meddled"} /\ owner \in {"us", "other"}
  BY DEF ScriptInv, ProgramType
<1>2. UNCHANGED <<lines, ran>> /\ owner' = owner /\ disturbed' \in {"no", "yes", "meddled"}
  BY <1>1 DEF Reject, TimeOut, SendFails, KeyboardInterrupt, Kill, SimulatorUntouched, Disturbed
<1>3. Running
  BY DEF Reject, TimeOut, SendFails, KeyboardInterrupt, Kill, Running,
         ScriptInv, ProgramType, PlaceInv, InScript, Preparing
<1>4. ErrorStatus \in {1, 2}
  BY DEF ErrorStatus
<1>5. CASE Reject
  BY <1>1, <1>2, <1>3, <1>4, <1>5, FailedEnd DEF Reject
<1>6. CASE TimeOut \/ SendFails
  <2>1. Raised(ErrorStatus)
    BY <1>6 DEF TimeOut, SendFails, Unanswered
  <2> QED BY <1>1, <1>2, <1>3, <1>4, <2>1, FailedStep
<1>7. CASE KeyboardInterrupt
  BY <1>1, <1>2, <1>3, <1>7, FailedStep DEF KeyboardInterrupt
<1>8. CASE Kill
  BY <1>1, <1>2, <1>3, <1>8, FailedEnd DEF Kill
<1> QED BY <1>5, <1>6, <1>7, <1>8

LEMMA ReceiveStep == ASSUME ScriptInv, Receive PROVE ScriptInv'
<1>1. /\ waiting = TRUE /\ answers # <<>> /\ lines' = lines /\ ran' = ran /\ owner' = owner
      /\ armed' = armed /\ disturbed' = disturbed
  BY DEF Receive, SimulatorUntouched, vars, ScriptInv, ProgramType
<1>2. InScript /\ Running /\ ~Preparing /\ stage # "ended"
  BY <1>1 DEF ScriptInv, ProgramType, PlaceInv, InScript, Preparing, Running
<1>3. disturbed \in {"no", "yes", "meddled"} /\ owner \in {"us", "other"}
  BY DEF ScriptInv, ProgramType
<1>4. CASE Raised(ErrorStatus)
  BY <1>1, <1>2, <1>3, <1>4, FailedStep DEF ErrorStatus
<1>5. CASE Returned /\ (stage' # "ended" => answers' = Tail(answers))
  <2>1. Sent \in Nat /\ step \in 1 .. Len(Steps(stage)) /\ Sent = Before + (step - 1) + 1
        /\ Before \in Nat
    BY <1>1, <1>2, SentFacts, StepsFacts, SelfTestLength DEF ScriptInv, ProgramType, Sent, Before
  <2>2. ran + Len(lines) <= Sent
    BY <1>2 DEF ScriptInv, CountInv
  <2>3. outcome = 0 => lines = <<>> /\ Tail(answers) = <<>> /\ ran = Sent
    BY <1>1, <1>2 DEF ScriptInv, ExchangeInv
  <2>4. outcome = 0 /\ disturbed # "meddled" /\ Disarming(Current.line) => ~armed
    BY <1>1, <1>2 DEF ScriptInv, ExchangeInv
  (* the next line, of this stage or of the next *)
  <2>5. ASSUME job' = job, outcome' = outcome, link' = link, waiting' = FALSE, InScript',
               answers' = Tail(answers), step' \in 1 .. Len(Steps(stage))',
               Before' + (step' - 1) = Sent,
               stage' = "cleanup" => IsSelfTest, stage' # "cleanup" => outcome = 0
        PROVE  ScriptInv'
    <3>1. Sent' = Sent /\ ~Preparing' /\ stage' # "ended" /\ IsSelfTest' = IsSelfTest
      <4>1. Sent' = Before' + (step' - 1) + 0
        BY <2>5 DEF Sent
      <4>2. ~Preparing' /\ stage' # "ended"
        BY <2>5 DEF InScript, Preparing
      <4> QED BY <2>1, <2>5, <4>1, <4>2, SameScript
    <3>2. ProgramType'
      <4>1. waiting' \in BOOLEAN
        BY <2>5, Zenon
      <4> QED BY <1>1, <2>5, <4>1 DEF ScriptInv, ProgramType
    <3>3. PlaceInv' /\ EndInv'
      BY <1>2, <2>5, <3>1 DEF ScriptInv, PlaceInv, EndInv, InScript
    <3>4. CountInv'
      BY <1>1, <2>2, <3>1 DEF CountInv
    <3>5. ExchangeInv'
      BY <1>1, <2>3, <2>5, <3>1 DEF ExchangeInv
    <3> QED BY <3>2, <3>3, <3>4, <3>5 DEF ScriptInv
  <2>6. CASE MoreSteps
    <3>1. /\ step' = step + 1 /\ waiting' = FALSE /\ job' = job /\ stage' = stage
          /\ outcome' = outcome /\ link' = link /\ answers' = Tail(answers)
      BY <1>2, <1>5, <2>6 DEF Returned
    <3>2. Steps(stage)' = Steps(stage) /\ Before' = Before
      BY <3>1 DEF Steps, Before, IsSelfTest
    <3>3. Len(Steps(stage)) \in Nat
      BY <1>2, StepsFacts, SelfTestLength DEF InScript
    <3>4. step' \in 1 .. Len(Steps(stage))' /\ Before' + (step' - 1) = Sent
      BY <2>1, <2>6, <3>1, <3>2, <3>3 DEF MoreSteps
    <3>5. InScript' /\ (stage' = "cleanup" => IsSelfTest) /\ (stage' # "cleanup" => outcome = 0)
      BY <1>2, <3>1 DEF ScriptInv, PlaceInv, InScript
    <3> QED BY <2>5, <3>1, <3>4, <3>5
  <2>7. CASE ~MoreSteps
    <3>1. step = Len(Steps(stage)) /\ Len(Steps(stage)) \in Nat
      BY <1>2, <2>1, <2>7, StepsFacts, SelfTestLength DEF InScript, MoreSteps
    <3>2. CASE stage = "connect"
      <4>1. /\ stage' = "body" /\ step' = 1 /\ waiting' = FALSE /\ job' = job
            /\ outcome' = outcome /\ link' = link /\ answers' = Tail(answers)
        BY <1>5, <2>7, <3>2 DEF Returned, GoesTo
      <4>2. Len(Steps(stage))' = (IF IsSelfTest THEN Len(SelfTestSteps) ELSE 1)
        <5>1. Steps(stage)' = Steps("body")
          BY <4>1 DEF Steps, IsSelfTest
        <5> QED BY <5>1, StepsFacts
      <4>3. Before' = 2 /\ Before = 0 /\ step = 2
        BY <3>1, <3>2, <4>1, StepsFacts DEF Before
      <4>4. InScript' /\ outcome = 0
        BY <1>2, <3>2, <4>1 DEF ScriptInv, PlaceInv, InScript
      <4>5. step' \in 1 .. Len(Steps(stage))'
        BY <4>1, <4>2, SelfTestLength
      <4>6. Before' + (step' - 1) = Sent /\ stage' # "cleanup"
        BY <2>1, <4>1, <4>3
      <4> QED BY <2>5, <4>1, <4>4, <4>5, <4>6
    <3>3. CASE stage = "body" /\ IsSelfTest
      <4>1. /\ stage' = "cleanup" /\ step' = 1 /\ waiting' = FALSE /\ job' = job
            /\ outcome' = outcome /\ link' = link /\ answers' = Tail(answers)
        BY <1>5, <2>7, <3>3 DEF Returned, GoesTo
      <4>2. Steps(stage)' = Steps("cleanup")
        BY <4>1 DEF Steps
      <4>3. Before' = 2 + Len(SelfTestSteps) /\ Before = 2 /\ step = Len(SelfTestSteps)
        BY <3>1, <3>3, <4>1, StepsFacts DEF Before
      <4>4. InScript'
        BY <4>1 DEF InScript
      <4>5. step' \in 1 .. Len(Steps(stage))' /\ Before' + (step' - 1) = Sent
        BY <2>1, <4>1, <4>2, <4>3, StepsFacts, SelfTestLength
      <4> QED BY <2>5, <3>3, <4>1, <4>4, <4>5
    <3>4. CASE stage # "connect" /\ ~(stage = "body" /\ IsSelfTest)
      <4>1. Ended(outcome)
        BY <1>5, <2>7, <3>4 DEF Returned
      <4>2. outcome \in {0, 1, 2, Interrupted, Killed}
        BY DEF ScriptInv, ProgramType
      <4>3. CASE outcome # 0
        BY <1>1, <1>2, <1>3, <4>1, <4>2, <4>3, FailedEnd
      <4>4. CASE outcome = 0
        <5>1. /\ stage' = "ended" /\ outcome' = 0 /\ waiting' = FALSE /\ link' = "closed"
              /\ job' = job
          BY <4>1, <4>4 DEF Ended
        <5>2. ~InScript' /\ ~Preparing' /\ IsSelfTest' = IsSelfTest /\ AllSteps' = AllSteps
          BY <5>1, SameScript DEF InScript, Preparing
        <5>3. (stage = "cleanup" /\ IsSelfTest) \/ (stage = "body" /\ ~IsSelfTest)
          BY <1>2, <3>4 DEF InScript, ScriptInv, PlaceInv
        <5>4. Sent = AllSteps
          <6>1. CASE stage = "cleanup" /\ IsSelfTest
            <7>1. Before = 2 + Len(SelfTestSteps) /\ step = 1
              BY <3>1, <6>1, StepsFacts DEF Before
            <7>2. AllSteps = 2 + (Len(SelfTestSteps) + 1)
              BY <6>1, StepsFacts DEF AllSteps
            <7> QED BY <2>1, <7>1, <7>2, SelfTestLength
          <6>2. CASE stage = "body" /\ ~IsSelfTest
            <7>1. Before = 2 /\ step = 1
              BY <3>1, <6>2, StepsFacts DEF Before
            <7>2. AllSteps = 2 + 1
              BY <6>2, StepsFacts DEF AllSteps
            <7> QED BY <2>1, <7>1, <7>2
          <6> QED BY <5>3, <6>1, <6>2
        <5>5. disturbed # "meddled" /\ (IsSelfTest \/ Disarming(job.line)) => ~armed
          <6>1. CASE stage = "cleanup" /\ IsSelfTest
            <7>1. Current = Steps("cleanup")[1]
              BY <3>1, <6>1, StepsFacts DEF Current
            <7>2. Disarming(Current.line)
              BY <7>1, StepsFacts DEF Disarming
            <7> QED BY <2>4, <4>4, <7>2
          <6>2. CASE stage = "body" /\ ~IsSelfTest
            <7>1. Current = Steps("body")[1]
              BY <3>1, <6>2, StepsFacts DEF Current
            <7>2. Current.line = job.line
              BY <6>2, <7>1, StepsFacts
            <7> QED BY <2>4, <4>4, <6>2, <7>2
          <6> QED BY <5>3, <6>1, <6>2
        <5>6. ProgramType'
          <6>1. waiting' \in BOOLEAN
            BY <5>1, Zenon
          <6> QED BY <1>1, <5>1, <5>2, <6>1 DEF ScriptInv, ProgramType
        <5>7. PlaceInv' /\ ExchangeInv'
          BY <5>1, <5>2 DEF PlaceInv, ExchangeInv
        <5>8. CountInv'
          BY <1>1, <1>2, <5>2, SentFacts DEF CountInv
        <5>9. EndInv'
          BY <1>1, <2>3, <4>4, <5>1, <5>2, <5>4, <5>5 DEF EndInv
        <5> QED BY <5>6, <5>7, <5>8, <5>9 DEF ScriptInv
      <4> QED BY <4>3, <4>4
    <3> QED BY <3>2, <3>3, <3>4
  <2> QED BY <2>6, <2>7
<1> QED BY <1>4, <1>5 DEF Receive

LEMMA InitScript == ProgramsInit => ScriptInv
<1> SUFFICES ASSUME ProgramsInit PROVE ScriptInv
  OBVIOUS
<1>1. /\ job = SelfTest /\ stage = "off" /\ step = 1 /\ waiting = FALSE /\ outcome = 0
      /\ link = "closed" /\ lines = <<>> /\ answers = <<>>
      /\ disturbed = "no" /\ owner = "other" /\ ran = 0
  BY DEF ProgramsInit
<1>2. waiting \in BOOLEAN
  BY <1>1, Zenon
<1>3. Preparing /\ ~InScript
  BY <1>1 DEF Preparing, InScript
<1>4. ProgramType
  BY <1>1, <1>2, <1>3, EmptyQueue DEF ProgramType
<1> QED BY <1>1, <1>3, <1>4 DEF ScriptInv, PlaceInv, CountInv, ExchangeInv, EndInv

LEMMA ScriptStep == ScriptInv /\ [ProgramsNext]_<<vars, programVars>> => ScriptInv'
<1> SUFFICES ASSUME ScriptInv, [ProgramsNext]_<<vars, programVars>> PROVE ScriptInv'
  OBVIOUS
<1>1. CASE UNCHANGED <<vars, programVars>>
  <2>1. UNCHANGED <<progress, traffic, ran>> /\ owner' = owner /\ disturbed' = disturbed
        /\ armed' = armed
    BY <1>1 DEF programVars, auxiliary, vars
  <2> QED BY <2>1, KeptScript DEF ScriptInv, ProgramType
<1>2. CASE BeforeStart \/ Meddle \/ \E ms \in Advances : Pass(ms)
  BY <1>2, KeptSteps
<1>3. CASE StartSelfTest \/ StartCli \/ HidCheck \/ Discover \/ PreCheck
  BY <1>3, PrepareStep
<1>4. CASE Reject \/ TimeOut \/ SendFails \/ KeyboardInterrupt \/ Kill
  BY <1>4, GivesUpStep
<1>5. CASE Send \/ Receive \/ Execute \/ Cut \/ Lose
  BY <1>5, SendStep, ReceiveStep, ExecuteStep, LossStep
<1> QED BY <1>1, <1>2, <1>3, <1>4, <1>5 DEF ProgramsNext, MainStep

LEMMA ScriptHolds == ProgramsSpec => []ScriptInv
BY InitScript, ScriptStep, PTL DEF ProgramsSpec

(* A program stays in its script: it never asks for a line past the end of *)
(* a stage, and nothing is executed that it did not send.                  *)
THEOREM ProgramsTypeCorrect == ProgramsSpec => []ProgramsTypeOK
<1>1. ASSUME TypeOK, ScriptInv PROVE ProgramsTypeOK
  <2>1. ran \in 0 .. AllSteps
    <3>1. CASE stage = "ended"
      BY <1>1, <3>1, SentFacts DEF ScriptInv, CountInv
    <3>2. CASE stage = "off"
      BY <1>1, <3>2, SentFacts DEF ScriptInv, PlaceInv, Preparing
    <3>3. CASE Running
      BY <1>1, <3>3, SentFacts
    <3> QED BY <3>1, <3>2, <3>3 DEF Running
  <2>2. stage \in {"off", "hid", "discover", "precheck", "connect", "body", "cleanup", "ended"}
    BY <1>1 DEF ScriptInv, ProgramType, InScript, Preparing
  <2> QED BY <1>1, <2>1, <2>2 DEF ProgramsTypeOK, ScriptInv, ProgramType, InScript
<1> QED BY <1>1, ProgramsKeepSimulator, ScriptHolds, PTL

(* Exit status 0 is never a lie: all the lines of the program have been    *)
(* executed, once each, and the simulator is disarmed after a self test,   *)
(* "reset" and "disarm" unless another controller was there.               *)
THEOREM ZeroIsAlwaysTrue == ProgramsSpec => []ZeroIsTrue
<1>1. ScriptInv => ZeroIsTrue
  BY DEF ScriptInv, EndInv, ZeroIsTrue, Disarming
<1> QED BY <1>1, ScriptHolds, PTL

(* the lines at the ends of the ranges have numbers, and their own names   *)
LEMMA EdgeFacts ==
  ASSUME NEW r \in EdgeLines
  PROVE  \/ /\ r.op \in DOMAIN SwitchOf \cup DOMAIN OverrideOf \cup DOMAIN LevelOf
                        \cup {"BATTERY", "RUNTIME", "STARTDELAY"}
            /\ r.arg \in Int
         \/ r.op = "ARM" /\ r.arg = On /\ r.arg2 \in Int
<1> DEFINE Ops == DOMAIN SwitchOf \cup DOMAIN OverrideOf \cup DOMAIN LevelOf
                  \cup {"BATTERY", "RUNTIME", "STARTDELAY"}
           Values == {-2, -1, 0, 1, 100, 101, 32767, 32768, 65535, 65536}
           Leases == {-1, 0, ARM_MAX_LEASE, ARM_MAX_LEASE + 1}
<1>1. EdgeLines = {Line(op, v) : op \in Ops, v \in Values} \cup {ArmFor(v) : v \in Leases}
  BY DEF EdgeLines
<1>2. Values \subseteq Int /\ Leases \subseteq Int
  BY SimAssumption
<1> HIDE DEF Ops, Values, Leases
<1>3. CASE \E op \in Ops, v \in Values : r = Line(op, v)
  BY <1>2, <1>3 DEF Line, Ops
<1>4. CASE \E v \in Leases : r = ArmFor(v)
  BY <1>2, <1>4 DEF ArmFor
<1> QED BY <1>1, <1>3, <1>4

LEMMA RangesAgree ==
  ASSUME armed, NEW r \in EdgeLines PROVE DriverSends(r) <=> RepliesOk(r)
<1> DEFINE Flags == {"AC", "OVERLOAD", "REPLACE", "COMMLOST", "SHUTDOWN"}
           Words == {"RUNTIME", "VOLTAGE", "INPUTVOLTAGE", "OUTPUTVOLTAGE"}
           Always == {"PING", "IDENT?", "STATUS?", "NETWORK?", "RESET", "REPORT"}
           lease == 0 <= r.arg2 /\ r.arg2 <= ARM_MAX_LEASE
           percent == 0 <= r.arg /\ r.arg <= 100
           word == 0 <= r.arg /\ r.arg <= UINT16_MAX
           delay == -1 <= r.arg /\ r.arg <= INT16_MAX
<1>1. DOMAIN SwitchOf = Flags
  BY DEF SwitchOf
<1>2. DOMAIN OverrideOf = {"CHARGING", "LOWBAT"}
  BY DEF OverrideOf
<1>3. DOMAIN LevelOf = {"LOAD", "VOLTAGE", "INPUTVOLTAGE", "OUTPUTVOLTAGE"}
  BY DEF LevelOf
<1>4. \/ r.op = "ARM" /\ r.arg = On /\ r.arg2 \in Int
      \/ /\ r.op \in Flags \cup {"CHARGING", "LOWBAT"} \cup Words
                     \cup {"LOAD", "BATTERY", "STARTDELAY"}
         /\ r.arg \in Int
  BY <1>1, <1>2, <1>3, EdgeFacts
<1>5. r.arg \in Int => /\ r.arg \in UInt16 <=> word
                       /\ r.arg \in StartDelays <=> delay
                       /\ r.arg \in 0 .. 100 <=> percent
  <2>1. \A v \in Int : v \in UInt16 <=> 0 <= v /\ v <= UINT16_MAX
    BY Bounds, SMT DEF UInt16
  <2>2. \A v \in Int : v \in StartDelays <=> -1 <= v /\ v <= INT16_MAX
    BY Bounds, SMT DEF StartDelays
  <2>3. \A v \in Int : v \in 0 .. 100 <=> 0 <= v /\ v <= 100
    BY SMT
  <2>4. ASSUME r.arg \in Int
        PROVE  (r.arg \in UInt16 <=> word) /\ (r.arg \in StartDelays <=> delay)
               /\ (r.arg \in 0 .. 100 <=> percent)
    <3>1. r.arg \in UInt16 <=> word
      BY <2>1, <2>4, SMT
    <3>2. r.arg \in StartDelays <=> delay
      BY <2>2, <2>4, SMT
    <3>3. r.arg \in 0 .. 100 <=> percent
      BY <2>3, <2>4, SMT
    <3> HIDE DEF word, delay, percent
    <3> QED BY <3>1, <3>2, <3>3, Zenon
  <2> HIDE DEF word, delay, percent
  <2> QED BY <2>4, Zenon
<1>6. r.arg2 \in Int => (r.arg2 \in 0 .. ARM_MAX_LEASE <=> lease)
  BY SimAssumption, SMT
<1>7. DriverSends(r) <=>
        \/ r.op \in Always
        \/ r.op = "ARM" /\ (r.arg = Off \/ r.arg2 = Absent \/ lease)
        \/ r.op \in Flags /\ r.arg \in {Off, On}
        \/ r.op \in {"CHARGING", "LOWBAT"} /\ r.arg \in {Automatic, On, Off}
        \/ r.op \in {"BATTERY", "LOAD"} /\ percent
        \/ r.op = "RUNTIME AUTO"
        \/ r.op \in Words /\ word
        \/ r.op = "STARTDELAY" /\ delay
  BY DEF DriverSends, UINT16_MAX, INT16_MAX
<1>8. Parses(r) <=>
        \/ r.op \in Flags /\ r.arg \in {Off, On}
        \/ r.op \in {"CHARGING", "LOWBAT"} /\ r.arg \in {Automatic, Off, On}
        \/ r.op \in {"BATTERY", "LOAD"} /\ r.arg \in 0 .. 100
        \/ r.op \in {"VOLTAGE", "INPUTVOLTAGE", "OUTPUTVOLTAGE", "RUNTIME"} /\ r.arg \in UInt16
        \/ r.op = "RUNTIME AUTO"
        \/ r.op = "STARTDELAY" /\ r.arg \in StartDelays
  BY <1>1, <1>2, Zenon DEF Parses
<1> HIDE DEF lease, percent, word, delay
<1>9. CASE r.op = "ARM"
  <2>1. r.arg = On /\ r.arg2 \in Int
    BY <1>4, <1>9
  <2>2. RepliesOk(r) <=> LeaseArgument(r) \in 0 .. ARM_MAX_LEASE
    BY <1>8, <1>9, <2>1 DEF RepliesOk, ReadOnly, On, Off
  <2>3. DriverSends(r) <=> r.arg2 = Absent \/ lease
    BY <1>7, <1>9, <2>1 DEF On, Off
  <2>4. LeaseArgument(r) = IF r.arg2 = Absent THEN ARM_DEFAULT_LEASE ELSE r.arg2
    BY DEF LeaseArgument
  <2> QED BY <1>6, <2>1, <2>2, <2>3, <2>4, SimAssumption, Zenon
<1>10. CASE r.op # "ARM"
  <2>1. /\ r.op \in Flags \cup {"CHARGING", "LOWBAT"} \cup Words
                    \cup {"LOAD", "BATTERY", "STARTDELAY"}
        /\ r.arg \in Int
    BY <1>4, <1>10
  <2>2. RepliesOk(r) <=> Parses(r)
    BY <1>10, <2>1 DEF RepliesOk, ReadOnly
  <2>3. DriverSends(r) <=> Parses(r)
    <3>1. /\ r.arg \in UInt16 <=> word
          /\ r.arg \in StartDelays <=> delay
          /\ r.arg \in 0 .. 100 <=> percent
      BY <1>5, <2>1, Zenon
    <3>2. r.op \notin Always
      BY <2>1
    <3> QED BY <1>7, <1>8, <1>10, <3>1, <3>2, Zenon
  <2> QED BY <2>2, <2>3
<1> QED BY <1>9, <1>10

(* The ranges the driver checks before it sends are those of the           *)
(* simulator, at both ends of each, whatever the longest lease is.         *)
THEOREM DriverAlwaysAgrees == ProgramsSpec => []DriverAgrees
<1>1. DriverAgrees
  BY RangesAgree, Zenon DEF DriverAgrees
<1> QED BY <1>1, PTL

-----------------------------------------------------------------------------
(* The runtime of the automatic mode follows every operation, so that a    *)
(* query changes nothing.                                                  *)

RuntimeIsCurrent == runtime_auto => runtime_seconds = AutoRuntime(battery_percent)

LEMMA InitRuntime == Init => RuntimeIsCurrent
BY AutoFacts, Zenon DEF Init, RuntimeIsCurrent

LEMMA RuntimeStep == RuntimeIsCurrent /\ SimStep => RuntimeIsCurrent'
<1> SUFFICES ASSUME RuntimeIsCurrent, SimStep PROVE RuntimeIsCurrent'
  OBVIOUS
<1>1. SetSafeState => RuntimeIsCurrent'
  BY AutoFacts, Zenon DEF SetSafeState, Restore, RuntimeIsCurrent
<1>2. UNCHANGED ScenarioVars => RuntimeIsCurrent'
  BY Zenon DEF ScenarioVars, RuntimeIsCurrent
<1>3. ASSUME NEW r, Answer(r) PROVE RuntimeIsCurrent'
  BY <1>2, <1>3, Zenon DEF Answer
<1>4. ASSUME NEW r, Recompute(r) \/ Arm(r) PROVE RuntimeIsCurrent'
  BY <1>4, Zenon DEF Recompute, Arm, RuntimeAfter, RuntimeIsCurrent
<1>5. ASSUME NEW r, Disarm(r) PROVE RuntimeIsCurrent'
  BY <1>1, <1>5, Zenon DEF Disarm
<1>6. ASSUME NEW r, Change(r) PROVE RuntimeIsCurrent'
  <2>1. CASE r.op = "RUNTIME"
    <3>1. runtime_auto' = FALSE
      BY <1>6, <2>1 DEF Change
    <3> QED BY <3>1 DEF RuntimeIsCurrent
  <2>2. CASE r.op # "RUNTIME"
    BY <1>6, <2>2, Zenon DEF Change, RuntimeAfter, RuntimeIsCurrent
  <2> QED BY <2>1, <2>2
<1>7. ASSUME NEW ms \in Advances, Advance(ms) PROVE RuntimeIsCurrent'
  BY <1>1, <1>2, <1>7, Zenon DEF Advance
<1>8. CASE UNCHANGED vars
  BY <1>2, <1>8, Zenon DEF vars, ScenarioVars
<1> QED BY <1>3, <1>4, <1>5, <1>6, <1>7, <1>8, Zenon DEF SimStep, Command

-----------------------------------------------------------------------------
(* What the lines of the self test do.                                     *)

LEMMA QueriesChangeNothing ==
  ASSUME StatusIsCurrent, StatusIsCurrent', RuntimeIsCurrent, NEW r, Answer(r) \/ Recompute(r)
  PROVE  StatusFields' = StatusFields /\ armed' = armed
<1>1. UNCHANGED <<armed, ScenarioVars>>
  BY Zenon DEF Answer, Recompute, ScenarioVars, RuntimeAfter, RuntimeIsCurrent
<1>2. hid_status' = hid_status
  BY <1>1, Zenon DEF StatusIsCurrent, ScenarioVars
<1> QED BY <1>1, <1>2, Zenon DEF StatusFields, ScenarioVars

LEMMA InquiryIsQuery ==
  ASSUME NEW r, r.op \in Inquiries, Command(r)
  PROVE  (Answer(r) \/ Recompute(r)) /\ RepliesOk(r)
<1>1. ~Arm(r) /\ ~Disarm(r)
  BY DEF Arm, Disarm, Inquiries
<1>2. ~Change(r)
  BY Names DEF Change, Parses, Inquiries
<1>3. RepliesOk(r)
  BY DEF RepliesOk, ReadOnly, Inquiries
<1> QED BY <1>1, <1>2, <1>3 DEF Command

LEMMA DeniedIsQuery ==
  ASSUME NEW r, r.op = "LOAD", ~armed, Command(r) PROVE Answer(r) /\ ~RepliesOk(r)
<1>1. ~Arm(r) /\ ~Disarm(r) /\ ~Recompute(r) /\ ~Change(r)
  BY DEF Arm, Disarm, Recompute, Change
<1>2. ~RepliesOk(r)
  BY DEF RepliesOk, ReadOnly
<1> QED BY <1>1, <1>2 DEF Command

(* the fields of STATUS? that a line sets, and where they come from *)
StatusRead ==
  /\ {"armed", "ac_present", "battery_percent", "runtime_seconds", "runtime_mode",
      "voltage_centivolts", "load_percent", "input_voltage_centivolts",
      "output_voltage_centivolts", "charging_mode", "charging_active", "low_battery_mode",
      "low_battery_active", "overload", "need_replacement", "communication_lost",
      "shutdown_requested", "shutdown_imminent", "host_start_delay"} \subseteq DOMAIN StatusFields
  /\ StatusFields["armed"] = armed
  /\ StatusFields["ac_present"] = switch["ac_present"]
  /\ StatusFields["battery_percent"] = battery_percent
  /\ StatusFields["runtime_seconds"] = runtime_seconds
  /\ StatusFields["runtime_mode"] = IF runtime_auto THEN "auto" ELSE "manual"
  /\ StatusFields["voltage_centivolts"] = level["voltage"]
  /\ StatusFields["load_percent"] = level["load"]
  /\ StatusFields["input_voltage_centivolts"] = level["input"]
  /\ StatusFields["output_voltage_centivolts"] = level["output"]
  /\ StatusFields["charging_mode"] = ModeName[override["charging"]]
  /\ StatusFields["charging_active"] = hid_status["charging"]
  /\ StatusFields["low_battery_mode"] = ModeName[override["low_battery"]]
  /\ StatusFields["low_battery_active"] = hid_status["below_remaining_capacity_limit"]
  /\ StatusFields["overload"] = switch["overload"]
  /\ StatusFields["need_replacement"] = switch["need_replacement"]
  /\ StatusFields["communication_lost"] = switch["communication_lost"]
  /\ StatusFields["shutdown_requested"] = switch["shutdown_requested"]
  /\ StatusFields["shutdown_imminent"] = hid_status["shutdown_imminent"]
  /\ StatusFields["host_start_delay"] = host_delay["start"]

LEMMA FieldsRead == StatusRead
<1> DEFINE mode == IF runtime_auto THEN "auto" ELSE "manual"
<1>1. StatusFields =
  [armed |-> armed, ac_present |-> switch["ac_present"], battery_percent |-> battery_percent,
   runtime_seconds |-> runtime_seconds, runtime_mode |-> mode,
   voltage_centivolts |-> level["voltage"], load_percent |-> level["load"],
   input_voltage_centivolts |-> level["input"], output_voltage_centivolts |-> level["output"],
   charging_mode |-> ModeName[override["charging"]], charging_active |-> hid_status["charging"],
   low_battery_mode |-> ModeName[override["low_battery"]],
   low_battery_active |-> hid_status["below_remaining_capacity_limit"],
   overload |-> switch["overload"], need_replacement |-> switch["need_replacement"],
   communication_lost |-> switch["communication_lost"],
   shutdown_requested |-> switch["shutdown_requested"],
   shutdown_imminent |-> hid_status["shutdown_imminent"],
   host_start_delay |-> host_delay["start"], host_shutdown_delay |-> host_delay["shutdown"],
   host_reboot_delay |-> host_delay["reboot"]]
  BY DEF StatusFields
<1>2. StatusFields["runtime_mode"] = IF runtime_auto THEN "auto" ELSE "manual"
  <2>1. StatusFields["runtime_mode"] = mode
    <3> HIDE DEF mode
    <3> QED BY <1>1
  <2> QED BY <2>1
<1> HIDE DEF mode
<1> QED BY <1>1, <1>2 DEF StatusRead

LEMMA FieldsReadNext == StatusRead'
BY FieldsRead, PTL

LEMMA SafeFields ==
  ASSUME ~armed', TypeOK', DisarmedIsSafe', NEW f, NEW v, IsSafeValue(f, v)
  PROVE  f \in DOMAIN StatusFields' /\ StatusFields'[f] = v
<1>1. switch' = SafeSwitch /\ battery_percent' = 100 /\ level' = SafeLevel /\ armed' = FALSE
  <2>1. armed' = FALSE
    BY Zenon DEF TypeOK
  <2> QED BY <2>1, Zenon DEF DisarmedIsSafe
<1>2. /\ SafeSwitch["ac_present"] = TRUE /\ SafeLevel["load"] = 25
      /\ SafeLevel["input"] = 23000 /\ SafeLevel["output"] = 23000
  <2>1. SafeSwitch["ac_present"] = TRUE
    BY Zenon DEF SafeSwitch, Switches
  <2>2. /\ SafeLevel["load"] = 25 /\ SafeLevel["input"] = 23000
        /\ SafeLevel["output"] = 23000
    BY SMT DEF SafeLevel
  <2> QED BY <2>1, <2>2, SMT
<1> DEFINE voltage == 23000
<1>3. /\ {"armed", "ac_present", "battery_percent", "load_percent", "input_voltage_centivolts",
          "output_voltage_centivolts"} \subseteq DOMAIN StatusFields'
      /\ StatusFields'["armed"] = FALSE /\ StatusFields'["ac_present"] = TRUE
      /\ StatusFields'["battery_percent"] = 100 /\ StatusFields'["load_percent"] = 25
      /\ StatusFields'["input_voltage_centivolts"] = voltage
      /\ StatusFields'["output_voltage_centivolts"] = voltage
  <2> HIDE DEF voltage
  <2>1. SafeLevel["input"] = voltage /\ SafeLevel["output"] = voltage
    BY <1>2 DEF voltage
  <2> QED BY <1>1, <1>2, <2>1, FieldsReadNext DEF StatusRead
<1>4. \/ f = "armed" /\ v = FALSE
      \/ f = "ac_present" /\ v = TRUE
      \/ f = "battery_percent" /\ v = 100
      \/ f = "load_percent" /\ v = 25
      \/ f \in {"input_voltage_centivolts", "output_voltage_centivolts"} /\ v = voltage
  BY SMT DEF IsSafeValue
<1> HIDE DEF voltage
<1> QED BY <1>3, <1>4

LEMMA DisarmReplies ==
  ASSUME NEW r, Disarming(r), Command(r) PROVE ~armed' /\ RepliesOk(r)
<1>1. ~armed'
  BY DisarmingDisarms
<1>2. RepliesOk(r)
  BY DEF RepliesOk, Disarming, Line
<1> QED BY <1>1, <1>2

LEMMA ArmReplies ==
  ASSUME NEW r, r.op = "ARM", r.arg = On, LeaseArgument(r) \in 0 .. ARM_MAX_LEASE, Command(r)
  PROVE  /\ armed' = TRUE /\ RepliesOk(r) /\ Owner(r) = "us"
         /\ "armed" \in DOMAIN StatusFields' /\ StatusFields'["armed"] = TRUE
<1>1. ~Answer(r) /\ ~Recompute(r) /\ ~Disarm(r) /\ ~Change(r)
  <2>1. ~Disarm(r) /\ ~Recompute(r)
    BY DEF Disarm, Recompute, On, Off
  <2>2. ~Answer(r)
    BY DEF Answer, ReadOnly
  <2>3. ~Change(r)
    BY Names DEF Change, Parses
  <2> QED BY <2>1, <2>2, <2>3
<1>2. armed' = TRUE
  BY <1>1 DEF Command, Arm
<1>3. RepliesOk(r)
  BY DEF RepliesOk
<1> QED BY <1>2, <1>3, FieldsReadNext DEF Owner, StatusRead

LEMMA ChangeReplies ==
  ASSUME armed, NEW r, Parses(r), r.op \notin Inquiries \cup {"RESET", "ARM", "STATUS"}, Command(r)
  PROVE  Change(r) /\ RepliesOk(r) /\ armed' = armed
<1>1. ~Recompute(r) /\ ~Arm(r) /\ ~Disarm(r) /\ ~Answer(r)
  BY DEF Recompute, Arm, Disarm, Answer, ReadOnly, Inquiries
<1>2. RepliesOk(r)
  BY DEF RepliesOk
<1> QED BY <1>1, <1>2 DEF Command, Change

(* what a line gives to a field is what STATUS? then reports *)
LEMMA GivenFields ==
  ASSUME TypeOK, TypeOK', armed', StatusIsCurrent', NEW r, Change(r), NEW f, NEW v, Gives(r, f, v)
  PROVE  f \in DOMAIN StatusFields' /\ StatusFields'[f] = v
<1>1. Parses(r)
  BY DEF Change
<1>2. CASE r.op = "BATTERY" /\ f = "battery_percent" /\ v = r.arg
  BY <1>2, FieldsReadNext DEF Change, StatusRead
<1>3. CASE r.op = "RUNTIME" /\ f = "runtime_seconds" /\ v = r.arg
  BY <1>3, FieldsReadNext DEF Change, StatusRead
<1>4. CASE r.op = "RUNTIME" /\ f = "runtime_mode" /\ v = "manual"
  <2>1. ~runtime_auto'
    BY <1>4 DEF Change
  <2> QED BY <1>4, <2>1, FieldsReadNext DEF StatusRead
<1>5. CASE r.op = "RUNTIME AUTO" /\ f = "runtime_mode" /\ v = "auto"
  <2>1. runtime_auto'
    BY <1>5 DEF Change
  <2> QED BY <1>5, <2>1, FieldsReadNext DEF StatusRead
<1>6. CASE r.op \in DOMAIN LevelOf /\ v = r.arg /\ StatusFields'[f] = level'[LevelOf[r.op]]
           /\ f \in DOMAIN StatusFields'
  <2>1. level' = [level EXCEPT ![LevelOf[r.op]] = r.arg]
    BY <1>6 DEF Change
  <2>2. LevelOf[r.op] \in DOMAIN level
    BY <1>6, Names DEF TypeOK
  <2> QED BY <1>6, <2>1, <2>2
<1>7. CASE r.op = "VOLTAGE" /\ f = "voltage_centivolts" /\ v = r.arg
  <2>1. r.op \in DOMAIN LevelOf /\ LevelOf[r.op] = "voltage"
    BY <1>7 DEF LevelOf
  <2> QED BY <1>6, <1>7, <2>1, FieldsReadNext DEF StatusRead
<1>8. CASE r.op = "LOAD" /\ f = "load_percent" /\ v = r.arg
  <2>1. r.op \in DOMAIN LevelOf /\ LevelOf[r.op] = "load"
    BY <1>8 DEF LevelOf
  <2> QED BY <1>6, <1>8, <2>1, FieldsReadNext DEF StatusRead
<1>9. CASE r.op = "INPUTVOLTAGE" /\ f = "input_voltage_centivolts" /\ v = r.arg
  <2>1. r.op \in DOMAIN LevelOf /\ LevelOf[r.op] = "input"
    BY <1>9 DEF LevelOf
  <2> QED BY <1>6, <1>9, <2>1, FieldsReadNext DEF StatusRead
<1>10. CASE r.op = "OUTPUTVOLTAGE" /\ f = "output_voltage_centivolts" /\ v = r.arg
  <2>1. r.op \in DOMAIN LevelOf /\ LevelOf[r.op] = "output"
    BY <1>10 DEF LevelOf
  <2> QED BY <1>6, <1>10, <2>1, FieldsReadNext DEF StatusRead
<1>11. CASE r.op = "STARTDELAY" /\ f = "host_start_delay" /\ v = r.arg
  <2>1. "start" \in DOMAIN host_delay
    BY DEF TypeOK, NoDelay
  <2> QED BY <1>11, <2>1, FieldsReadNext DEF Change, StatusRead
<1>12. ASSUME r.op \in DOMAIN OverrideOf
       PROVE  override'[OverrideOf[r.op]] = r.arg
  <2>1. override' = [override EXCEPT ![OverrideOf[r.op]] = r.arg]
    BY <1>12 DEF Change
  <2>2. OverrideOf[r.op] \in DOMAIN override
    BY <1>12, Names DEF TypeOK
  <2> QED BY <2>1, <2>2
<1>13. r.op = "CHARGING" => override'["charging"] = r.arg
  BY <1>12 DEF OverrideOf
<1>14. r.op = "LOWBAT" => override'["low_battery"] = r.arg
  BY <1>12 DEF OverrideOf
<1>15. CASE r.op = "CHARGING" /\ f = "charging_mode" /\ v = ModeName[r.arg]
  BY <1>13, <1>15, FieldsReadNext DEF StatusRead
<1>16. CASE r.op = "LOWBAT" /\ f = "low_battery_mode" /\ v = ModeName[r.arg]
  BY <1>14, <1>16, FieldsReadNext DEF StatusRead
<1>17. \A a : Forced(On, a) = TRUE /\ Forced(Off, a) = FALSE
  BY DEF Forced, On, Off, Automatic
<1>18. /\ \E a : hid_status'["charging"] = Forced(override'["charging"], a)
       /\ \E a : hid_status'["below_remaining_capacity_limit"] = Forced(override'["low_battery"], a)
       /\ switch'["shutdown_requested"] = TRUE => hid_status'["shutdown_imminent"] = TRUE
  <2>1. hid_status' = StatusFrom(armed', switch', override', battery_percent', runtime_seconds', host_delay'.shutdown)
    BY Zenon DEF StatusIsCurrent
  <2> QED BY <2>1 DEF StatusFrom
<1>19. CASE r.op = "CHARGING" /\ f = "charging_active" /\ Flips(r.arg, v)
  BY <1>13, <1>17, <1>18, <1>19, FieldsReadNext DEF StatusRead, Flips
<1>20. CASE r.op = "LOWBAT" /\ f = "low_battery_active" /\ Flips(r.arg, v)
  BY <1>14, <1>17, <1>18, <1>20, FieldsReadNext DEF StatusRead, Flips
<1>21. ASSUME r.op \in DOMAIN SwitchOf
       PROVE  switch'[SwitchOf[r.op]] = (r.arg = On)
  <2>1. switch' = [switch EXCEPT ![SwitchOf[r.op]] = (r.arg = On)]
    BY <1>21 DEF Change
  <2>2. SwitchOf[r.op] \in DOMAIN switch
    BY <1>21, Names DEF TypeOK
  <2> QED BY <2>1, <2>2
<1>22. ASSUME Flips(r.arg, v)
       PROVE  (r.arg = On /\ v = TRUE) \/ (~(r.arg = On) /\ v = FALSE)
  BY <1>22 DEF On, Off, Flips
<1>23. CASE /\ \/ r.op = "AC" /\ f = "ac_present"
               \/ r.op = "OVERLOAD" /\ f = "overload"
               \/ r.op = "REPLACE" /\ f = "need_replacement"
               \/ r.op = "COMMLOST" /\ f = "communication_lost"
               \/ r.op = "SHUTDOWN" /\ f = "shutdown_requested"
           /\ Flips(r.arg, v)
  <2>1. r.op \in DOMAIN SwitchOf /\ SwitchOf[r.op] = f
    BY <1>23 DEF SwitchOf
  <2>2. f \in DOMAIN StatusFields' /\ StatusFields'[f] = switch'[f]
    BY <1>23, FieldsReadNext DEF StatusRead
  <2>3. CASE r.arg = On /\ v = TRUE
    BY <1>21, <2>1, <2>2, <2>3
  <2>4. CASE ~(r.arg = On) /\ v = FALSE
    BY <1>21, <2>1, <2>2, <2>4
  <2> QED BY <1>22, <1>23, <2>3, <2>4
<1>24. CASE r.op = "SHUTDOWN" /\ f = "shutdown_imminent" /\ r.arg = On /\ v = TRUE
  <2>1. r.op \in DOMAIN SwitchOf /\ SwitchOf[r.op] = "shutdown_requested"
    BY <1>24 DEF SwitchOf
  <2>2. switch'["shutdown_requested"] = TRUE
    BY <1>21, <1>24, <2>1
  <2> QED BY <1>18, <1>24, <2>2, FieldsReadNext DEF StatusRead
<1> QED BY <1>2, <1>3, <1>4, <1>5, <1>7, <1>8, <1>9, <1>10, <1>11, <1>15, <1>16, <1>19, <1>20,
           <1>23, <1>24 DEF Gives

-----------------------------------------------------------------------------
Holds(K) ==
  /\ K.arming = "off" => ~armed
  /\ K.arming = "on" => armed /\ owner = "us"
  /\ K.arming \in {"off", "on"} \/ K.fields = NoFields
  /\ \A f \in DOMAIN K.fields : f \in DOMAIN StatusFields /\ StatusFields[f] = K.fields[f]

(* the reply to the line r, when the simulator has executed it *)
Replied(answer, r) ==
  /\ answer.ok = RepliesOk(r)
  /\ answer.fields = IF r.op = "STATUS?" THEN StatusFields' ELSE NoFields

LEMMA NothingInNoFields == DOMAIN NoFields = {}
BY DEF NoFields

LEMMA KnowingParts == \A a, f : Knowing(a, f).arming = a /\ Knowing(a, f).fields = f
BY DEF Knowing

(* a reply to a line that is answered with OK, or with ERR *)
LEMMA SatisfiedReply ==
  ASSUME NEW s, NEW answer, Replied(answer, s.line), RepliesOk(s.line), s.ok = TRUE,
         s.fields = NoFields \/ (/\ s.line.op = "STATUS?"
                                 /\ \A f \in DOMAIN s.fields : /\ f \in DOMAIN StatusFields'
                                                               /\ StatusFields'[f] = s.fields[f])
  PROVE  Satisfies(answer, s)
<1>1. answer.ok = TRUE
  <2>1. RepliesOk(s.line) = TRUE
    BY DEF RepliesOk
  <2> QED BY <2>1 DEF Replied
<1> QED BY <1>1, NothingInNoFields DEF Replied, Satisfies

LEMMA RefusedReply ==
  ASSUME NEW s, NEW answer, Replied(answer, s.line), ~RepliesOk(s.line), s.ok = FALSE,
         s.fields = NoFields
  PROVE  Satisfies(answer, s)
<1>1. answer.ok = FALSE
  <2>1. RepliesOk(s.line) = FALSE
    BY DEF RepliesOk
  <2> QED BY <2>1 DEF Replied
<1> QED BY <1>1, NothingInNoFields DEF Satisfies

(* A step that fits what is known gets the reply it requires, and what is  *)
(* known after it holds.                                                   *)
LEMMA FittingStep ==
  ASSUME TypeOK, TypeOK', StatusIsCurrent, StatusIsCurrent', RuntimeIsCurrent, DisarmedIsSafe',
         NEW K, NEW s, NEW L, Fits(K, s, L), Holds(K),
         Command(s.line), owner' = Owner(s.line), NEW answer, Replied(answer, s.line)
  PROVE  Satisfies(answer, s) /\ Holds(L)'
<1> DEFINE r == s.line
<1>1. CASE Inquires(K, s, L)
  <2>1. /\ r.op \in Inquiries /\ s.ok = TRUE /\ L = Knowing(K.arming, NoFields)
        /\ s.fields = NoFields \/ (r.op = "STATUS?" /\ s.fields = K.fields)
    BY <1>1 DEF Inquires
  <2>2. (Answer(r) \/ Recompute(r)) /\ RepliesOk(r)
    BY <2>1, InquiryIsQuery
  <2>3. StatusFields' = StatusFields /\ armed' = armed
    BY <2>2, QueriesChangeNothing
  <2>4. owner' = owner
    BY <2>1 DEF Owner, Inquiries
  <2>5. Satisfies(answer, s)
    BY <2>1, <2>2, <2>3, SatisfiedReply DEF Holds
  <2>6. Holds(L)'
    <3>1. L.arming = K.arming /\ L.fields = NoFields
      BY <2>1, KnowingParts
    <3> QED BY <2>3, <2>4, <3>1, NothingInNoFields DEF Holds
  <2> QED BY <2>5, <2>6
<1>2. CASE IsDenied(K, s, L)
  <2>1. r.op = "LOAD" /\ s.ok = FALSE /\ s.fields = NoFields /\ ~armed /\ L = Knowing("off", NoFields)
    BY <1>2 DEF IsDenied, Holds
  <2>2. Answer(r) /\ ~RepliesOk(r)
    BY <2>1, DeniedIsQuery
  <2>3. armed' = armed
    BY <2>2, QueriesChangeNothing
  <2>4. L.arming = "off" /\ L.fields = NoFields
    BY <2>1, KnowingParts
  <2>5. Holds(L)'
    BY <2>1, <2>3, <2>4, NothingInNoFields DEF Holds
  <2> QED BY <2>1, <2>2, <2>5, RefusedReply
<1>3. CASE Disarms(s, L)
  <2>1. /\ Disarming(r) /\ s.ok = TRUE /\ s.fields = NoFields /\ L.arming = "off"
        /\ \A f \in DOMAIN L.fields : IsSafeValue(f, L.fields[f])
    BY <1>3 DEF Disarms
  <2>2. ~armed' /\ RepliesOk(r)
    BY <2>1, DisarmReplies
  <2>3. \A f \in DOMAIN L.fields : f \in DOMAIN StatusFields' /\ StatusFields'[f] = L.fields[f]
    BY <2>1, <2>2, SafeFields
  <2>4. Holds(L)'
    BY <2>1, <2>2, <2>3 DEF Holds
  <2> QED BY <2>1, <2>2, <2>4, SatisfiedReply
<1>4. CASE Arms(s, L)
  <2>1. /\ r.op = "ARM" /\ r.arg = On /\ LeaseArgument(r) \in 0 .. ARM_MAX_LEASE
        /\ s.ok = TRUE /\ s.fields = NoFields /\ L.arming = "on"
        /\ \A f \in DOMAIN L.fields : f = "armed" /\ L.fields[f] = TRUE
    BY <1>4 DEF Arms
  <2>2. /\ armed' = TRUE /\ RepliesOk(r) /\ Owner(r) = "us"
        /\ "armed" \in DOMAIN StatusFields' /\ StatusFields'["armed"] = TRUE
    BY <2>1, ArmReplies
  <2>3. Holds(L)'
    BY <2>1, <2>2 DEF Holds
  <2> QED BY <2>1, <2>2, <2>3, SatisfiedReply
<1>5. CASE Changes(K, s, L)
  <2>1. /\ Parses(r) /\ r.op \notin Inquiries \cup {"RESET", "ARM", "STATUS"}
        /\ s.ok = TRUE /\ s.fields = NoFields /\ armed /\ owner = "us" /\ L.arming = "on"
        /\ \A f \in DOMAIN L.fields : Gives(r, f, L.fields[f])
    BY <1>5 DEF Changes, Holds
  <2>2. Change(r) /\ RepliesOk(r) /\ armed' = armed
    BY <2>1, ChangeReplies
  <2>3. owner' = owner
    BY <2>1 DEF Owner
  <2>4. \A f \in DOMAIN L.fields : f \in DOMAIN StatusFields' /\ StatusFields'[f] = L.fields[f]
    BY <2>1, <2>2, GivenFields
  <2>5. Holds(L)'
    BY <2>1, <2>2, <2>3, <2>4 DEF Holds
  <2> QED BY <2>1, <2>2, <2>5, SatisfiedReply
<1> QED BY <1>1, <1>2, <1>3, <1>4, <1>5 DEF Fits

(* What a setter sends, an armed simulator takes. *)
LEMMA SentIsTaken ==
  ASSUME armed, NEW r \in CliLines PROVE DriverSends(r) => RepliesOk(r)
<1> DEFINE percent == 0 <= r.arg /\ r.arg <= 100
           word == 0 <= r.arg /\ r.arg <= UINT16_MAX
           delay == -1 <= r.arg /\ r.arg <= INT16_MAX
           lease == 0 <= r.arg2 /\ r.arg2 <= ARM_MAX_LEASE
<1>1. /\ r.arg \in Int /\ r.arg2 \in Int /\ ARM_MAX_LEASE \in Nat
      /\ ARM_DEFAULT_LEASE \in 0 .. ARM_MAX_LEASE
      /\ r.op = "ARM" => r.arg \in {Off, On}
  <2>1. r \in [op : STRING, arg : Int, arg2 : Int]
    BY CliAssumption
  <2> QED BY <2>1, CliAssumption, SimAssumption
<1>2. /\ percent => r.arg \in 0 .. 100
      /\ word => r.arg \in UInt16
      /\ delay => r.arg \in StartDelays
      /\ lease => r.arg2 \in 0 .. ARM_MAX_LEASE
  <2>1. \A v \in Int : 0 <= v /\ v <= UINT16_MAX => v \in UInt16
    BY Bounds, SMT DEF UInt16
  <2>2. \A v \in Int : -1 <= v /\ v <= INT16_MAX => v \in StartDelays
    BY Bounds, SMT DEF StartDelays
  <2>3. percent => r.arg \in 0 .. 100
    BY <1>1
  <2>4. lease => r.arg2 \in 0 .. ARM_MAX_LEASE
    BY <1>1
  <2> QED BY <1>1, <2>1, <2>2, <2>3, <2>4, Zenon
<1>3. DriverSends(r) <=>
      \/ r.op \in {"PING", "IDENT?", "STATUS?", "NETWORK?", "RESET", "REPORT"}
      \/ r.op = "ARM" /\ (r.arg = Off \/ r.arg2 = Absent \/ lease)
      \/ r.op \in {"AC", "OVERLOAD", "REPLACE", "COMMLOST", "SHUTDOWN"} /\ r.arg \in {Off, On}
      \/ r.op \in {"CHARGING", "LOWBAT"} /\ r.arg \in {Automatic, On, Off}
      \/ r.op \in {"BATTERY", "LOAD"} /\ percent
      \/ r.op = "RUNTIME AUTO"
      \/ r.op \in {"RUNTIME", "VOLTAGE", "INPUTVOLTAGE", "OUTPUTVOLTAGE"} /\ word
      \/ r.op = "STARTDELAY" /\ delay
  BY DEF DriverSends, UINT16_MAX, INT16_MAX
<1> HIDE DEF percent, word, delay, lease
<1>4. /\ DOMAIN SwitchOf = {"AC", "OVERLOAD", "REPLACE", "COMMLOST", "SHUTDOWN"}
      /\ DOMAIN OverrideOf = {"CHARGING", "LOWBAT"}
  BY DEF SwitchOf, OverrideOf
<1>5. CASE r.op \in {"PING", "IDENT?", "STATUS?", "NETWORK?", "RESET", "REPORT"}
  BY <1>5 DEF RepliesOk, ReadOnly
<1>6. CASE r.op = "ARM" /\ (r.arg = Off \/ r.arg2 = Absent \/ lease)
  BY <1>1, <1>2, <1>6 DEF RepliesOk, LeaseArgument
<1>7. CASE Parses(r)
  BY <1>7 DEF RepliesOk
<1>8. DriverSends(r) =>
      Parses(r) \/ r.op \in {"PING", "IDENT?", "STATUS?", "NETWORK?", "RESET", "REPORT"}
      \/ (r.op = "ARM" /\ (r.arg = Off \/ r.arg2 = Absent \/ lease))
  BY <1>2, <1>3, <1>4, Zenon DEF Parses
<1> QED BY <1>5, <1>6, <1>7, <1>8

(* A line that is answered with ERR changes nothing. *)
LEMMA RefusedIsAnswered ==
  ASSUME NEW r, Command(r), ~RepliesOk(r) PROVE Answer(r) /\ armed' = armed
<1>1. ~Recompute(r) /\ ~Arm(r) /\ ~Disarm(r) /\ ~Change(r)
  BY DEF Recompute, Arm, Disarm, Change, RepliesOk
<1> QED BY <1>1 DEF Command, Answer

-----------------------------------------------------------------------------
(* what is known before each step of the self test, and at its end *)
Known == CHOOSE m : m[1] = Unknown /\ m[Len(SelfTestSteps) + 1] = Safe /\ Annotates(m, SelfTestSteps)

LEMMA KnownFacts ==
  Known[1] = Unknown /\ \A k \in 1 .. Len(SelfTestSteps) : Fits(Known[k], SelfTestSteps[k], Known[k + 1])
<1>1. \E m : m[1] = Unknown /\ m[Len(SelfTestSteps) + 1] = Safe /\ Annotates(m, SelfTestSteps)
  BY SelfTestPasses DEF Passes
<1>2. Known[1] = Unknown /\ Annotates(Known, SelfTestSteps)
  BY <1>1, Zenon DEF Known
<1> QED BY <1>2 DEF Annotates

LEMMA UnknownHolds == Holds(Unknown)
<1>1. Unknown.arming = "any" /\ Unknown.fields = NoFields
  BY KnowingParts DEF Unknown
<1> QED BY <1>1, NothingInNoFields DEF Holds

LEMMA UnknownHoldsNext == Holds(Unknown)'
BY UnknownHolds, PTL

Sendable(r) == DriverSends(r) \/ r.op \in {"HELP", "?"}

(* Nothing has disturbed the program: what is answered is what it          *)
(* requires, but to ups-sim by a disarmed simulator, and the self test     *)
(* knows the simulator.                                                    *)
Undisturbed ==
  InScript /\ disturbed = "no" =>
    /\ outcome = 0 /\ link = "open"
    /\ waiting => Sendable(Current.line)
    /\ answers # <<>> => Satisfies(Head(answers), Current) \/ (~IsSelfTest /\ stage = "body" /\ ~armed)
    /\ IsSelfTest /\ stage = "body" => Holds(Known[IF answers = <<>> THEN step ELSE step + 1])

EndUndisturbed == stage = "ended" /\ disturbed = "no" => lines = <<>>

AlarmInv == Undisturbed /\ EndUndisturbed /\ NoFalseAlarm

SimInv == TypeOK /\ StatusIsCurrent /\ DisarmedIsSafe /\ RuntimeIsCurrent

LEMMA DisturbedKeeps == ASSUME disturbed' # "no" PROVE AlarmInv'
BY DEF AlarmInv, Undisturbed, EndUndisturbed, NoFalseAlarm

LEMMA KeptHolds ==
  ASSUME UNCHANGED <<armed, owner, StatusFields>>, NEW K, Holds(K) PROVE Holds(K)'
BY DEF Holds

LEMMA KeptFields ==
  ASSUME UNCHANGED <<armed, ScenarioVars, hid_status>> PROVE StatusFields' = StatusFields
BY Zenon DEF StatusFields, ScenarioVars

(* Nothing happens to the script, and the simulator does as it did. *)
LEMMA KeptAlarm ==
  ASSUME ScriptInv, AlarmInv, UNCHANGED <<progress, traffic, ran>>, disturbed' = disturbed,
         armed' => armed, \A K : Holds(K) => Holds(K)'
  PROVE  AlarmInv'
<1>1. /\ job' = job /\ stage' = stage /\ step' = step /\ waiting' = waiting /\ outcome' = outcome
      /\ link' = link /\ lines' = lines /\ answers' = answers /\ ran' = ran
  BY DEF progress, traffic
<1>2. /\ IsSelfTest' = IsSelfTest /\ Current' = Current /\ InScript' = InScript
  BY <1>1, SameScript DEF InScript
<1>3. Undisturbed'
  <2>1. PICK k : k = IF answers = <<>> THEN step ELSE step + 1
    OBVIOUS
  <2>2. k = (IF answers = <<>> THEN step ELSE step + 1)'
    BY <1>1, <2>1
  <2>3. Holds(Known[k]) => Holds(Known[k])'
    OBVIOUS
  <2> QED BY <1>1, <1>2, <2>1, <2>2, <2>3 DEF AlarmInv, Undisturbed
<1>4. EndUndisturbed' /\ NoFalseAlarm'
  BY <1>1, <1>2 DEF AlarmInv, EndUndisturbed, NoFalseAlarm
<1> QED BY <1>3, <1>4 DEF AlarmInv

LEMMA UntouchedHolds ==
  ASSUME SimulatorUntouched PROVE armed' = armed /\ ran' = ran /\ \A K : Holds(K) => Holds(K)'
<1>1. UNCHANGED <<armed, ScenarioVars, hid_status, owner, ran>>
  BY DEF SimulatorUntouched, vars, ScenarioVars
<1>2. StatusFields' = StatusFields
  BY <1>1, KeptFields
<1> QED BY <1>1, <1>2, KeptHolds

LEMMA PrepareAlarm ==
  ASSUME ScriptInv, AlarmInv, StartSelfTest \/ StartCli \/ HidCheck \/ Discover \/ PreCheck
  PROVE  AlarmInv'
<1>1. Preparing
  BY DEF StartSelfTest, StartCli, HidCheck, Discover, PreCheck, Preparing
<1>2. /\ waiting = FALSE /\ outcome = 0 /\ ran = 0
      /\ lines = <<>> /\ answers = <<>>
  BY <1>1 DEF ScriptInv, PlaceInv, ProgramType
<1>3. UNCHANGED <<lines, ran>>
  BY DEF StartSelfTest, StartCli, HidCheck, Discover, PreCheck, traffic, auxiliary,
         SimulatorUntouched
<1>4. ~(ran' > 0) /\ lines' = <<>>
  BY <1>2, <1>3
<1>5. EndUndisturbed' /\ NoFalseAlarm'
  BY <1>4 DEF EndUndisturbed, NoFalseAlarm
<1>6. \/ stage' \in {"hid", "discover", "precheck", "ended"}
      \/ stage' = "connect" /\ link' = "open" /\ UNCHANGED <<waiting, outcome, answers>>
  BY DEF StartSelfTest, StartCli, HidCheck, Discover, PreCheck, GoesTo, Ended
<1>7. Undisturbed'
  <2>1. CASE stage' \in {"hid", "discover", "precheck", "ended"}
    BY <2>1 DEF Undisturbed, InScript
  <2>2. CASE stage' = "connect" /\ link' = "open" /\ UNCHANGED <<waiting, outcome, answers>>
    BY <1>2, <2>2 DEF Undisturbed
  <2> QED BY <1>6, <2>1, <2>2
<1> QED BY <1>5, <1>7 DEF AlarmInv

LEMMA SendAlarm == ASSUME ScriptInv, AlarmInv, Send PROVE AlarmInv'
<1>1. /\ InScript /\ waiting = FALSE /\ link = "open" /\ Sendable(Current.line)
      /\ job' = job /\ stage' = stage /\ step' = step /\ outcome' = outcome
      /\ link' = link /\ answers' = answers /\ disturbed' = disturbed
  BY DEF Send, SimulatorUntouched, InScript, ScriptInv, ProgramType, Sendable
<1>2. armed' = armed /\ ran' = ran /\ \A K : Holds(K) => Holds(K)'
  BY UntouchedHolds DEF Send
<1>3. IsSelfTest' = IsSelfTest /\ Current' = Current /\ InScript' = InScript /\ stage' # "ended"
  BY <1>1, SameScript DEF InScript
<1>4. Undisturbed'
  <2>1. CASE disturbed = "no"
    <3>1. answers = <<>>
      BY <1>1, <2>1 DEF AlarmInv, Undisturbed, ScriptInv, ExchangeInv
    <3>2. PICK k : k = step
      OBVIOUS
    <3>3. k = step'
      BY <1>1, <3>2
    <3>4. IsSelfTest /\ stage = "body" => Holds(Known[k])
      BY <1>1, <2>1, <3>1, <3>2 DEF AlarmInv, Undisturbed
    <3>5. IsSelfTest /\ stage = "body" => Holds(Known[k])'
      BY <1>2, <3>4
    <3>6. Sendable(Current.line)'
      <4>1. Current.line' = Current.line
        BY <1>3
      <4> QED BY <1>1, <4>1
    <3> QED BY <1>1, <1>3, <2>1, <3>1, <3>3, <3>5, <3>6 DEF AlarmInv, Undisturbed
  <2>2. CASE disturbed # "no"
    BY <1>1, <2>2 DEF Undisturbed
  <2> QED BY <2>1, <2>2
<1> QED BY <1>3, <1>4 DEF AlarmInv, EndUndisturbed, NoFalseAlarm

LEMMA RejectAlarm == ASSUME ScriptInv, AlarmInv, Reject PROVE AlarmInv'
<1>1. /\ stage = "body" /\ ~IsSelfTest /\ ~waiting /\ stage' = "ended" /\ job' = job
      /\ lines' = lines /\ ran' = ran /\ disturbed' = disturbed
  BY DEF Reject, Ended, SimulatorUntouched
<1>2. InScript /\ outcome = 0
  BY <1>1 DEF InScript, ScriptInv, PlaceInv
<1>3. lines = <<>> /\ ran = Sent
  BY <1>1, <1>2 DEF ScriptInv, ExchangeInv
<1>4. Sent = 2
  <2>1. Before = 2 /\ step \in 1 .. 1
    BY <1>1, <1>2, StepsFacts DEF Before, ScriptInv, ProgramType
  <2> QED BY <1>1, <2>1 DEF Sent
<1>5. ~IsSelfTest' /\ ~InScript'
  BY <1>1, SameScript DEF InScript
<1>6. EndUndisturbed'
  BY <1>1, <1>3 DEF EndUndisturbed
<1>7. NoFalseAlarm'
  BY <1>1, <1>3, <1>4, <1>5, StepsFacts DEF NoFalseAlarm
<1>8. Undisturbed'
  BY <1>5 DEF Undisturbed
<1> QED BY <1>6, <1>7, <1>8 DEF AlarmInv

LEMMA ReceiveAlarm == ASSUME ScriptInv, AlarmInv, Receive PROVE AlarmInv'
<1>1. /\ waiting = TRUE /\ answers # <<>> /\ lines' = lines /\ disturbed' = disturbed
  BY DEF Receive, SimulatorUntouched, ScriptInv, ProgramType
<1>2. InScript /\ stage # "ended"
  BY <1>1 DEF ScriptInv, ProgramType, PlaceInv, InScript, Preparing
<1>3. armed' = armed /\ ran' = ran /\ \A K : Holds(K) => Holds(K)'
  BY UntouchedHolds DEF Receive
<1>4. SUFFICES ASSUME disturbed = "no" PROVE AlarmInv'
  BY <1>1, DisturbedKeeps
<1>5. /\ outcome = 0 /\ link = "open"
      /\ Satisfies(Head(answers), Current) \/ (~IsSelfTest /\ stage = "body" /\ ~armed)
      /\ IsSelfTest /\ stage = "body" => Holds(Known[step + 1])
  BY <1>1, <1>2, <1>4 DEF AlarmInv, Undisturbed
<1>6. lines = <<>> /\ Tail(answers) = <<>>
  BY <1>1, <1>2, <1>5 DEF ScriptInv, ExchangeInv
<1>7. ASSUME stage' = "ended", outcome' = 0 \/ (~IsSelfTest' /\ ~armed') PROVE AlarmInv'
  BY <1>1, <1>6, <1>7 DEF AlarmInv, Undisturbed, EndUndisturbed, NoFalseAlarm, InScript
<1>8. CASE ~Satisfies(Head(answers), Current)
  <2>1. ~IsSelfTest /\ stage = "body" /\ ~armed
    BY <1>5, <1>8
  <2>2. stage' = "ended" /\ job' = job
    BY <1>8, <2>1 DEF Receive, Raised, Ended
  <2> QED BY <1>3, <1>7, <2>1, <2>2, SameScript
<1>9. CASE Satisfies(Head(answers), Current)
  <2>1. Returned /\ (stage' # "ended" => answers' = <<>>)
    BY <1>6, <1>9 DEF Receive
  <2>2. ASSUME stage' \in {"connect", "body", "cleanup"}, job' = job, outcome' = outcome, link' = link,
               waiting' = FALSE, IsSelfTest /\ stage' = "body" => Holds(Known[step])'
        PROVE  AlarmInv'
    <3>1. answers' = <<>> /\ stage' # "ended" /\ IsSelfTest' = IsSelfTest
      BY <2>1, <2>2, SameScript
    <3>2. Holds(Known[step])' => Holds(Known[IF answers = <<>> THEN step ELSE step + 1])'
      BY <3>1
    <3> QED BY <1>5, <2>2, <3>1, <3>2 DEF AlarmInv, Undisturbed, EndUndisturbed, NoFalseAlarm
  <2>3. CASE MoreSteps
    <3>1. /\ step' = step + 1 /\ waiting' = FALSE /\ job' = job /\ stage' = stage
          /\ outcome' = outcome /\ link' = link
      BY <2>1, <2>3 DEF Returned
    <3>2. PICK k : k = step + 1
      OBVIOUS
    <3>3. IsSelfTest /\ stage = "body" => Holds(Known[k])'
      BY <1>3, <1>5, <3>2
    <3>4. k = step'
      BY <3>1, <3>2
    <3> QED BY <1>2, <2>2, <3>1, <3>3, <3>4 DEF InScript
  <2>4. CASE ~MoreSteps /\ stage = "connect"
    <3>1. /\ stage' = "body" /\ step' = 1 /\ waiting' = FALSE
          /\ job' = job /\ outcome' = outcome /\ link' = link
      BY <2>1, <2>4 DEF Returned, GoesTo
    <3>2. Holds(Known[step])'
      BY <3>1, KnownFacts, UnknownHoldsNext
    <3> QED BY <2>2, <3>1, <3>2
  <2>5. CASE ~MoreSteps /\ stage = "body" /\ IsSelfTest
    <3>1. /\ stage' = "cleanup" /\ waiting' = FALSE
          /\ job' = job /\ outcome' = outcome /\ link' = link
      BY <2>1, <2>5 DEF Returned, GoesTo
    <3> QED BY <2>2, <3>1
  <2>6. CASE ~MoreSteps /\ stage # "connect" /\ ~(stage = "body" /\ IsSelfTest)
    <3>1. stage' = "ended" /\ outcome' = 0
      BY <1>5, <2>1, <2>6 DEF Returned, Ended
    <3> QED BY <1>7, <3>1
  <2> QED BY <2>3, <2>4, <2>5, <2>6
<1> QED BY <1>8, <1>9

(* the lines around the body *)
LEMMA AroundTheBody ==
  ASSUME step \in 1 .. Len(Steps(stage)), stage \in {"connect", "cleanup"}
  PROVE  \E op \in {"PING", "IDENT?", "RESET"} : Current = Query(op)
<1>1. CASE stage = "connect"
  <2>1. Steps(stage) = <<Query("PING"), Query("IDENT?")>> /\ step \in 1 .. 2
    BY <1>1, StepsFacts DEF Steps, Opening
  <2> QED BY <2>1 DEF Current
<1>2. CASE stage = "cleanup"
  <2>1. Steps(stage) = <<Query("RESET")>> /\ step \in 1 .. 1
    BY <1>2, StepsFacts DEF Steps
  <2> QED BY <2>1 DEF Current
<1> QED BY <1>1, <1>2

LEMMA ExecuteAlarm ==
  ASSUME SimInv, SimInv', ScriptInv, AlarmInv, Execute PROVE AlarmInv'
<1>1. /\ lines # <<>> /\ Command(Head(lines)) /\ owner' = Owner(Head(lines))
      /\ job' = job /\ stage' = stage /\ step' = step /\ waiting' = waiting /\ outcome' = outcome
      /\ link' = link /\ disturbed' = disturbed
  BY DEF Execute, progress
<1>2. SUFFICES ASSUME disturbed = "no" PROVE AlarmInv'
  BY <1>1, DisturbedKeeps
<1>3. InScript /\ stage # "ended"
  BY <1>1, <1>2 DEF AlarmInv, EndUndisturbed, ScriptInv, ProgramType, PlaceInv, InScript, Preparing
<1>4. outcome = 0 /\ link = "open" /\ (waiting => Sendable(Current.line))
  BY <1>2, <1>3 DEF AlarmInv, Undisturbed
<1>5. waiting /\ lines = <<Current.line>> /\ answers = <<>>
  BY <1>1, <1>3, <1>4 DEF ScriptInv, ExchangeInv
<1> DEFINE r == Current.line
<1>6. Head(lines) = r
  BY <1>5, OneQueued
<1>7. Command(r) /\ owner' = Owner(r) /\ Sendable(r)
  BY <1>1, <1>4, <1>5, <1>6
<1>8. PICK answer : answers' = Append(answers, answer) /\ Replied(answer, r)
  <2> DEFINE fields == IF r.op = "STATUS?" THEN StatusFields' ELSE NoFields
             answer == [ok |-> RepliesOk(r), fields |-> fields]
  <2>1. answers' = Append(answers, answer)
    BY <1>4, <1>6 DEF Execute
  <2>2. answer.ok = RepliesOk(r) /\ answer.fields = fields
    <3> HIDE DEF fields
    <3> QED OBVIOUS
  <2>3. Replied(answer, r)
    BY <2>2 DEF Replied
  <2> HIDE DEF answer
  <2> QED BY <2>1, <2>3
<1>9. answers' # <<>> /\ Head(answers') = answer
  BY <1>5, <1>8, OneQueued
<1>10. IsSelfTest' = IsSelfTest /\ Current' = Current /\ InScript' = InScript
  BY <1>1, SameScript DEF InScript
<1>11. step \in 1 .. Len(Steps(stage))
  BY <1>3 DEF ScriptInv, ProgramType
<1>12. CASE IsSelfTest /\ stage = "body"
  <2>1. Steps(stage) = SelfTestSteps /\ Current = SelfTestSteps[step]
    BY <1>12 DEF Steps, Current
  <2>2. PICK k : k = step
    OBVIOUS
  <2>3. PICK s : s = Current
    OBVIOUS
  <2>4. Fits(Known[k], s, Known[k + 1])
    BY <1>11, <2>1, <2>2, <2>3, KnownFacts
  <2>5. Holds(Known[k])
    BY <1>2, <1>3, <1>5, <1>12, <2>2 DEF AlarmInv, Undisturbed
  <2>6. Command(s.line) /\ owner' = Owner(s.line) /\ Replied(answer, s.line)
    BY <1>7, <1>8, <2>3
  <2>7. Satisfies(answer, s) /\ Holds(Known[k + 1])'
    BY <2>4, <2>5, <2>6, FittingStep DEF SimInv
  <2>8. (IF answers = <<>> THEN step ELSE step + 1)' = k + 1
    BY <1>1, <1>9, <2>2
  <2>9. Satisfies(Head(answers), Current)'
    BY <1>9, <1>10, <2>3, <2>7 DEF Satisfies
  <2>10. Undisturbed'
    BY <1>1, <1>4, <1>7, <1>10, <2>7, <2>8, <2>9 DEF Undisturbed
  <2> QED BY <1>1, <1>3, <2>10 DEF AlarmInv, EndUndisturbed, NoFalseAlarm
<1>13. CASE ~(IsSelfTest /\ stage = "body")
  <2>1. Satisfies(answer, Current) \/ (~IsSelfTest /\ stage = "body" /\ ~armed')
    <3>1. CASE stage \in {"connect", "cleanup"}
      <4>1. PICK op \in {"PING", "IDENT?", "RESET"} : Current = Query(op)
        BY <1>11, <3>1, AroundTheBody
      <4>2. r.op = op /\ Current.ok = TRUE /\ Current.fields = NoFields
        BY <4>1 DEF Query, Sends, Line
      <4>3. RepliesOk(r)
        BY <4>2 DEF RepliesOk, ReadOnly
      <4> QED BY <1>8, <4>2, <4>3, SatisfiedReply
    <3>2. CASE stage = "body" /\ ~IsSelfTest
      <4>1. Current = Sends(job.line)
        <5>1. Steps(stage) = <<Sends(job.line)>> /\ step \in 1 .. 1
          BY <1>11, <3>2, StepsFacts DEF Steps
        <5> QED BY <5>1 DEF Current
      <4>2. r = job.line /\ Current.ok = TRUE /\ Current.fields = NoFields
        BY <4>1 DEF Sends
      <4>3. job.line \in CliLines
        BY <3>2 DEF ScriptInv, ProgramType, IsSelfTest, SelfTest, CommandLine
      <4>4. CASE RepliesOk(r)
        BY <1>8, <4>2, <4>4, SatisfiedReply
      <4>5. CASE ~RepliesOk(r)
        <5>1. armed' = armed
          BY <1>7, <4>5, RefusedIsAnswered
        <5>2. DriverSends(r)
          BY <1>7, <4>5 DEF Sendable, RepliesOk, ReadOnly
        <5>3. ~armed
          BY <4>2, <4>3, <4>5, <5>2, SentIsTaken
        <5> QED BY <3>2, <5>1, <5>3
      <4> QED BY <4>4, <4>5
    <3> QED BY <1>3, <1>13, <3>1, <3>2 DEF InScript
  <2>2. Satisfies(answer, Current) => Satisfies(Head(answers), Current)'
    BY <1>9, <1>10 DEF Satisfies
  <2>3. Undisturbed'
    BY <1>1, <1>4, <1>7, <1>10, <1>13, <2>1, <2>2 DEF Undisturbed
  <2> QED BY <1>1, <1>3, <2>3 DEF AlarmInv, EndUndisturbed, NoFalseAlarm
<1> QED BY <1>12, <1>13

(* A lease that ends under what the program has armed disturbs it; where   *)
(* none ends, time changes nothing that is known.                          *)
LEMMA PassAlarm ==
  ASSUME SimInv, ScriptInv, AlarmInv, NEW ms \in Advances, Pass(ms) PROVE AlarmInv'
<1>1. /\ UNCHANGED <<progress, traffic, owner, ran>> /\ Advance(ms)
      /\ disturbed' = IF Running /\ owner = "us" /\ armed /\ ~armed'
                      THEN (IF disturbed = "no" THEN "yes" ELSE disturbed) ELSE disturbed
  BY DEF Pass, Disturbed
<1>2. SUFFICES ASSUME disturbed' = "no" PROVE AlarmInv'
  BY DisturbedKeeps
<1>3. disturbed' = disturbed /\ ~(Running /\ owner = "us" /\ armed /\ ~armed')
  BY <1>1, <1>2
<1>4. CASE UNCHANGED <<armed, ScenarioVars, hid_status>>
  <2>1. StatusFields' = StatusFields
    BY <1>4, KeptFields
  <2>2. \A K : Holds(K) => Holds(K)'
    BY <1>1, <1>4, <2>1, KeptHolds
  <2> QED BY <1>1, <1>3, <1>4, <2>2, KeptAlarm
<1>5. CASE ~UNCHANGED <<armed, ScenarioVars, hid_status>>
  <2>1. armed /\ ~armed'
    BY <1>1, <1>5 DEF Advance, SetSafeState
  <2>2. ~(Running /\ owner = "us")
    BY <1>3, <2>1
  <2>4. CASE Running
    <3>1. \A K : Holds(K) => Holds(K)'
      BY <2>1, <2>2, <2>4, NothingInNoFields DEF Holds
    <3> QED BY <1>1, <1>3, <2>1, <3>1, KeptAlarm
  <2>5. CASE ~Running
    <3>1. UNCHANGED <<stage, lines, outcome, ran, job>> /\ ~InScript'
      BY <1>1, <2>5 DEF progress, traffic, Running, InScript
    <3>2. IsSelfTest' = IsSelfTest
      BY <3>1, SameScript
    <3> QED BY <1>3, <2>1, <3>1, <3>2 DEF AlarmInv, Undisturbed, EndUndisturbed, NoFalseAlarm
  <2> QED BY <2>4, <2>5
<1> QED BY <1>4, <1>5

LEMMA AlarmStep ==
  SimInv /\ SimInv' /\ ScriptInv /\ AlarmInv /\ [ProgramsNext]_<<vars, programVars>> => AlarmInv'
<1> SUFFICES ASSUME SimInv, SimInv', ScriptInv, AlarmInv, [ProgramsNext]_<<vars, programVars>>
             PROVE  AlarmInv'
  OBVIOUS
<1>1. CASE UNCHANGED <<vars, programVars>>
  <2>1. UNCHANGED <<progress, traffic, ran>> /\ disturbed' = disturbed /\ SimulatorUntouched
    BY <1>1 DEF programVars, auxiliary, SimulatorUntouched
  <2> QED BY <2>1, UntouchedHolds, KeptAlarm
<1>2. CASE BeforeStart
  <2>1. stage' = "off" /\ ~InScript'
    BY <1>2 DEF BeforeStart, programVars, progress, InScript
  <2> QED BY <2>1 DEF AlarmInv, Undisturbed, EndUndisturbed, NoFalseAlarm
<1>3. CASE StartSelfTest \/ StartCli \/ HidCheck \/ Discover \/ PreCheck
  BY <1>3, PrepareAlarm
<1>4. CASE TimeOut \/ SendFails \/ KeyboardInterrupt \/ Kill \/ Cut \/ Meddle
  <2>1. disturbed' # "no"
    BY <1>4 DEF TimeOut, SendFails, KeyboardInterrupt, Kill, Cut, Meddle, Disturbed
  <2> QED BY <2>1, DisturbedKeeps
<1>5. CASE Lose
  <2>1. stage = "ended" /\ lines # <<>> /\ disturbed' = disturbed
    BY <1>5 DEF Lose, ScriptInv, ProgramType, PlaceInv
  <2> QED BY <2>1, DisturbedKeeps DEF AlarmInv, EndUndisturbed
<1>6. ASSUME NEW ms \in Advances, Pass(ms) PROVE AlarmInv'
  BY <1>6, PassAlarm
<1>7. CASE Send \/ Reject \/ Receive \/ Execute
  BY <1>7, SendAlarm, RejectAlarm, ReceiveAlarm, ExecuteAlarm
<1> QED BY <1>1, <1>2, <1>3, <1>4, <1>5, <1>6, <1>7 DEF ProgramsNext, MainStep

LEMMA InitAlarm == ProgramsInit => AlarmInv
BY DEF ProgramsInit, AlarmInv, Undisturbed, EndUndisturbed, NoFalseAlarm, InScript

(* The self test never blames a simulator that does what it should: when   *)
(* no reply is lost or late, the program is not stopped and nobody meddles,*)
(* every one of its checks is met, whatever state it finds the simulator   *)
(* in and however long its leases are; and ups-sim fails only where the    *)
(* simulator is disarmed or the driver itself refuses the value.           *)
THEOREM NoAlarmIsFalse == ProgramsSpec => []NoFalseAlarm
<1>1. ProgramsInit => SimInv
  BY InitType, InitStatus, InitDisarmed, InitRuntime DEF ProgramsInit, SimInv
<1>2. SimInv /\ [ProgramsNext]_<<vars, programVars>> => SimInv'
  BY TypeStep, StatusStep, DisarmedStep, RuntimeStep, ProgramsNextIsStep DEF SimInv
<1>3. AlarmInv => NoFalseAlarm
  BY DEF AlarmInv
<1> QED BY <1>1, <1>2, <1>3, InitAlarm, AlarmStep, ScriptHolds, PTL DEF ProgramsSpec

-----------------------------------------------------------------------------
(* The number parsers.  Each is a loop, and what its function computes is  *)
(* found by minimal counterexample.                                        *)

(* A loop of N turns over states of S goes through states f[0], ..., f[N]. *)
IsLoop(S, base, turn, N) == base \in S /\ N \in Nat /\ turn \in [1 .. N -> [S -> S]]

Loops(f, S, base, turn, N) ==
  /\ f \in [0 .. N -> S] /\ f[0] = base
  /\ \A n \in 1 .. N : f[n] = turn[n][f[n - 1]]

(* the same as far as the states are of S *)
LoopsIn(g, S, base, turn, N) ==
  g[0] = base /\ \A n \in 1 .. N : g[n - 1] \in S => g[n] = turn[n][g[n - 1]]

LEMMA LoopExists ==
  ASSUME NEW S, NEW base, NEW turn, NEW N, IsLoop(S, base, turn, N)
  PROVE  \E f : Loops(f, S, base, turn, N)
<1>0. base \in S /\ N \in Nat /\ turn \in [1 .. N -> [S -> S]]
  BY DEF IsLoop
<1> DEFINE Ends(m) == \E f : Loops(f, S, base, turn, m)
           T == {m \in 0 .. N : ~Ends(m)}
<1>1. SUFFICES ASSUME T # {} PROVE FALSE
  <2>1. N \in 0 .. N
    BY <1>0
  <2>2. Ends(N)
    <3> HIDE DEF Ends
    <3> QED BY <1>1, <2>1
  <2> QED BY <2>2
<1>2. PICK m \in T : \A y \in T : ~ (<<y, m>> \in OpToRel(<, Nat))
  <2>1. T \subseteq Nat
    BY <1>0
  <2> HIDE DEF T
  <2> QED BY <1>1, <2>1, NatLessThanWellFounded, WFMin
<1>3. m \in 0 .. N /\ ~Ends(m)
  <2> HIDE DEF Ends
  <2> QED BY <1>2
<1>4. m # 0
  <2>1. Loops([n \in 0 .. 0 |-> base], S, base, turn, 0)
    BY <1>0 DEF Loops
  <2> QED BY <1>3, <2>1
<1>5. Ends(m - 1)
  <2>1. m - 1 \in 0 .. N /\ m - 1 < m /\ m - 1 \in Nat /\ m \in Nat
    BY <1>0, <1>3, <1>4
  <2> HIDE DEF Ends
  <2>2. m - 1 \notin T
    <3> HIDE DEF T
    <3> QED BY <1>2, <2>1 DEF OpToRel
  <2> QED BY <2>1, <2>2
<1>6. PICK f : Loops(f, S, base, turn, m - 1)
  BY <1>5
<1>7. m \in 1 .. N /\ m \in Nat /\ m - 1 \in 0 .. m - 1 /\ turn[m] \in [S -> S] /\ f[m - 1] \in S
      /\ f \in [0 .. m - 1 -> S]
  BY <1>0, <1>3, <1>4, <1>6 DEF Loops
<1> DEFINE g == [n \in 0 .. m |-> IF n = m THEN turn[m][f[m - 1]] ELSE f[n]]
<1>8. g \in [0 .. m -> S]
  <2>1. ASSUME NEW n \in 0 .. m PROVE n # m => f[n] \in S
    BY <1>7
  <2> QED BY <1>7, <2>1
<1>9. Loops(g, S, base, turn, m)
  <2>1. g[0] = base
    BY <1>6, <1>7 DEF Loops
  <2>2. ASSUME NEW n \in 1 .. m PROVE g[n] = turn[n][g[n - 1]]
    <3>1. g[n - 1] = f[n - 1]
      BY <1>7
    <3>2. CASE n = m
      BY <1>7, <3>1, <3>2
    <3>3. CASE n # m
      <4>1. n \in 1 .. m - 1 /\ g[n] = f[n]
        BY <1>7, <3>3
      <4> HIDE DEF g
      <4> QED BY <1>6, <3>1, <4>1 DEF Loops
    <3> QED BY <3>2, <3>3
  <2> HIDE DEF g
  <2> QED BY <1>8, <2>1, <2>2 DEF Loops
<1> HIDE DEF g
<1> QED BY <1>3, <1>9

LEMMA LoopIsUnique ==
  ASSUME NEW S, NEW base, NEW turn, NEW N, IsLoop(S, base, turn, N),
         NEW f, Loops(f, S, base, turn, N), NEW g, LoopsIn(g, S, base, turn, N)
  PROVE  g[N] = f[N]
<1>0. base \in S /\ N \in Nat /\ turn \in [1 .. N -> [S -> S]] /\ f \in [0 .. N -> S]
  BY DEF IsLoop, Loops
<1> DEFINE T == {n \in 0 .. N : g[n] # f[n]}
<1>1. SUFFICES ASSUME T # {} PROVE FALSE
  BY <1>0
<1>2. PICK n \in T : \A y \in T : ~ (<<y, n>> \in OpToRel(<, Nat))
  <2>1. T \subseteq Nat
    BY <1>0
  <2> HIDE DEF T
  <2> QED BY <1>1, <2>1, NatLessThanWellFounded, WFMin
<1>3. n \in 0 .. N /\ g[n] # f[n]
  BY <1>2
<1>4. n # 0
  BY <1>3 DEF Loops, LoopsIn
<1>5. n - 1 \in 0 .. N /\ n - 1 < n /\ n - 1 \in Nat /\ n \in Nat /\ n \in 1 .. N
  BY <1>0, <1>3, <1>4
<1>6. g[n - 1] = f[n - 1]
  <2>1. n - 1 \notin T
    <3> HIDE DEF T
    <3> QED BY <1>2, <1>5 DEF OpToRel
  <2> QED BY <1>5, <2>1
<1>7. f[n - 1] \in S
  BY <1>0, <1>5
<1> HIDE DEF T
<1> QED BY <1>3, <1>5, <1>6, <1>7 DEF Loops, LoopsIn

(* the value of the digits read so far, however many more follow *)
Decimal(v, t) ==
  /\ v \in [0 .. Len(t) -> Nat] /\ v[0] = 0
  /\ \A n \in 1 .. Len(t) : v[n] = v[n - 1] * 10 + t[n]

LEMMA PythonFacts ==
  ASSUME NEW t \in Seq(Nat)
  PROVE  \E v : Decimal(v, t) /\ PythonInt(t) = v[Len(t)]
<1> DEFINE N == Len(t)
           turn == [n \in 1 .. N |-> [s \in Nat |-> s * 10 + t[n]]]
           Equation(f) == f = [n \in 0 .. N |-> IF n = 0 THEN 0 ELSE f[n - 1] * 10 + t[n]]
<1>1. N \in Nat /\ \A n \in 1 .. N : t[n] \in Nat
  BY LenProperties, ElementOfSeq
<1> HIDE DEF N
<1>2. turn \in [1 .. N -> [Nat -> Nat]]
  BY <1>1
<1>3. \A n \in 1 .. N : \A s \in Nat : turn[n][s] = s * 10 + t[n]
  OBVIOUS
<1> HIDE DEF turn
<1>4. IsLoop(Nat, 0, turn, N)
  BY <1>1, <1>2 DEF IsLoop
<1>5. PICK v : Loops(v, Nat, 0, turn, N)
  BY <1>4, LoopExists
<1>6. /\ v \in [0 .. N -> Nat] /\ v[0] = 0
      /\ \A n \in 1 .. N : v[n] = v[n - 1] * 10 + t[n]
  <2>1. \A n \in 1 .. N : n - 1 \in 0 .. N
    BY <1>1
  <2> QED BY <1>3, <1>5, <2>1 DEF Loops
<1>7. Equation(v)
  <2>1. \A n \in 0 .. N : n # 0 => n \in 1 .. N
    BY <1>1
  <2> QED BY <1>6, <2>1
<1>8. Equation(CHOOSE f : Equation(f))
  <2> HIDE DEF Equation
  <2> QED BY <1>7
<1> DEFINE value == CHOOSE f : Equation(f)
<1>9. PythonInt(t) = value[N]
  BY DEF PythonInt, N
<1>10. LoopsIn(value, Nat, 0, turn, N)
  <2> HIDE DEF value
  <2>1. Equation(value)
    BY <1>8 DEF value
  <2>2. value[0] = 0 /\ \A n \in 1 .. N : value[n] = value[n - 1] * 10 + t[n]
    BY <1>1, <2>1
  <2> QED BY <1>3, <2>2 DEF LoopsIn
<1>11. value[N] = v[N]
  <2> HIDE DEF value
  <2> QED BY <1>5, <1>10, <1>4, LoopIsUnique
<1> QED BY <1>6, <1>9, <1>11 DEF Decimal, N

(* what the proof needs of 99999L *)
LEMMA LimitFact == Limit \in Nat
BY SMT DEF Limit

(* every turn of the firmware's loop has read a number so far, or failed *)
LEMMA ParsedFacts ==
  ASSUME NEW t \in Seq(Nat), NEW v, Decimal(v, t)
  PROVE  Parsed(t) = IF (\A i \in 1 .. Len(t) : t[i] \in Digits) /\ v[Len(t)] <= Limit
                     THEN Number(v[Len(t)]) ELSE NotANumber
<1> DEFINE N == Len(t)
           Reads == {Number(value) : value \in Nat} \cup {NotANumber}
           turn == [n \in 1 .. N |-> [s \in Reads |-> ReadDigit(s, t[n])]]
           walk == [n \in 0 .. N |-> IF (\A i \in 1 .. n : t[i] \in Digits) /\ v[n] <= Limit
                                     THEN Number(v[n]) ELSE NotANumber]
           Equation(f) ==
             f = [n \in 0 .. N |-> IF n = 0 THEN Number(0) ELSE ReadDigit(f[n - 1], t[n])]
<1>1. /\ N \in Nat /\ \A n \in 1 .. N : t[n] \in Nat
      /\ \A n \in 0 .. N : v[n] \in Nat
      /\ v[0] = 0 /\ \A n \in 1 .. N : v[n] = v[n - 1] * 10 + t[n]
  BY LenProperties, ElementOfSeq DEF Decimal
<1> HIDE DEF N
<1>2. turn \in [1 .. N -> [Reads -> Reads]]
  <2>1. ASSUME NEW s \in Reads, NEW n \in 1 .. N PROVE ReadDigit(s, t[n]) \in Reads
    <3>1. s.ok => s.value \in Nat
      BY DEF Number, NotANumber
    <3>2. s.ok => s.value * 10 + t[n] \in Nat
      BY <1>1, <3>1
    <3> QED BY <3>2 DEF ReadDigit
  <2> HIDE DEF Reads
  <2> QED BY <2>1
<1>3. walk \in [0 .. N -> Reads]
  BY <1>1
<1>4. walk[0] = Number(0)
  BY <1>1, LimitFact
<1>5. ASSUME NEW n \in 1 .. N PROVE walk[n] = ReadDigit(walk[n - 1], t[n])
  <2>1. n - 1 \in 0 .. N /\ n \in 0 .. N /\ n \in Nat /\ n - 1 \in Nat
    BY <1>1
  <2>2. /\ v[n] = v[n - 1] * 10 + t[n] /\ v[n] \in Nat /\ v[n - 1] \in Nat /\ t[n] \in Nat
        /\ v[n] <= Limit => v[n - 1] <= Limit
    <3>1. v[n] = v[n - 1] * 10 + t[n] /\ v[n] \in Nat /\ v[n - 1] \in Nat /\ t[n] \in Nat
      BY <1>1, <2>1
    <3>2. \A x, y, z \in Nat : x = y * 10 + z /\ x <= Limit => y <= Limit
      BY LimitFact, SMT
    <3> QED BY <3>1, <3>2, Zenon
  <2>3. (\A i \in 1 .. n : t[i] \in Digits)
          <=> (\A i \in 1 .. n - 1 : t[i] \in Digits) /\ t[n] \in Digits
    BY <2>1
  <2> DEFINE digits == \A i \in 1 .. n - 1 : t[i] \in Digits
  <2>4. /\ walk[n] = IF digits /\ t[n] \in Digits /\ v[n] <= Limit THEN Number(v[n]) ELSE NotANumber
        /\ walk[n - 1] = IF digits /\ v[n - 1] <= Limit THEN Number(v[n - 1]) ELSE NotANumber
    BY <2>1, <2>3
  <2> HIDE DEF digits, walk
  <2>5. CASE digits /\ v[n - 1] <= Limit
    <3>1. walk[n - 1].ok /\ walk[n - 1].value = v[n - 1]
      BY <2>4, <2>5 DEF Number
    <3> QED BY <2>2, <2>4, <2>5, <3>1 DEF ReadDigit
  <2>6. CASE ~(digits /\ v[n - 1] <= Limit)
    <3>1. ~walk[n - 1].ok
      BY <2>4, <2>6 DEF NotANumber
    <3>2. walk[n] = NotANumber
      BY <2>2, <2>4, <2>6
    <3> QED BY <3>1, <3>2 DEF ReadDigit
  <2> QED BY <2>5, <2>6
<1> HIDE DEF walk
<1>6. Equation(walk)
  <2>1. \A n \in 0 .. N : n # 0 => n \in 1 .. N
    BY <1>1
  <2> QED BY <1>3, <1>4, <1>5, <2>1
<1>7. Equation(CHOOSE f : Equation(f))
  <2> HIDE DEF Equation
  <2> QED BY <1>6
<1> DEFINE parsed == CHOOSE f : Equation(f)
<1>8. Parsed(t) = parsed[N]
  BY DEF Parsed, N
<1>9. \A n \in 1 .. N : \A s \in Reads : turn[n][s] = ReadDigit(s, t[n])
  OBVIOUS
<1> HIDE DEF turn
<1>10. LoopsIn(parsed, Reads, Number(0), turn, N)
  <2> HIDE DEF parsed, Reads
  <2>1. Equation(parsed)
    BY <1>7 DEF parsed
  <2>2. parsed[0] = Number(0) /\ \A n \in 1 .. N : parsed[n] = ReadDigit(parsed[n - 1], t[n])
    BY <1>1, <2>1
  <2> QED BY <1>9, <2>2 DEF LoopsIn
<1>11. Loops(walk, Reads, Number(0), turn, N)
  <2>1. \A n \in 1 .. N : n - 1 \in 0 .. N
    BY <1>1
  <2> HIDE DEF Reads
  <2> QED BY <1>3, <1>4, <1>5, <1>9, <2>1 DEF Loops
<1>12. IsLoop(Reads, Number(0), turn, N)
  <2>1. Number(0) \in Reads
    OBVIOUS
  <2> HIDE DEF Reads
  <2> QED BY <1>1, <1>2, <2>1 DEF IsLoop
<1>13. parsed[N] = walk[N]
  <2> HIDE DEF parsed, Reads
  <2> QED BY <1>10, <1>11, <1>12, LoopIsUnique
<1>14. walk[N] = IF (\A i \in 1 .. N : t[i] \in Digits) /\ v[N] <= Limit
                 THEN Number(v[N]) ELSE NotANumber
  BY <1>1 DEF walk
<1> QED BY <1>8, <1>14, <1>13 DEF N

(* Digit by digit or at once: parseSigned(), which gives up at the first   *)
(* digit too many, and _parse_signed(), which reads on, agree on every     *)
(* token, of any length and for every range.                               *)
THEOREM SameNumbers ==
  ASSUME NEW t \in Seq(Nat), NEW minimum \in Int, NEW maximum \in Int
  PROVE  ParseSigned(t, minimum, maximum) = PythonParseSigned(t, minimum, maximum)
<1> DEFINE m == Magnitude(t)
<1>1. m \in Seq(Nat)
  <2>1. t # <<>> => Tail(t) \in Seq(Nat)
    BY HeadTailProperties
  <2> QED BY <2>1 DEF Magnitude, Negative
<1> HIDE DEF m
<1>2. PICK v : Decimal(v, m) /\ PythonInt(m) = v[Len(m)]
  BY <1>1, PythonFacts
<1>3. DOMAIN m = 1 .. Len(m) /\ Len(m) \in Nat
  BY <1>1, LenProperties
<1>4. v[Len(m)] \in Nat
  BY <1>2, <1>3 DEF Decimal
<1>5. Parsed(m) = IF (\A i \in DOMAIN m : m[i] \in Digits) /\ v[Len(m)] <= Limit
                  THEN Number(v[Len(m)]) ELSE NotANumber
  BY <1>1, <1>2, <1>3, ParsedFacts
<1>6. Number(v[Len(m)]).ok /\ Number(v[Len(m)]).value = v[Len(m)] /\ ~NotANumber.ok
  BY DEF Number, NotANumber
<1> QED BY <1>2, <1>5, <1>6, Zenon DEF ParseSigned, PythonParseSigned, m

(* Whatever a controller sends, character by character, the firmware and   *)
(* the simulator take it for the same number or refuse it both.            *)
THEOREM ParsersAlwaysAgree == ArgumentsSpec => []ParsersAgree
<1> DEFINE Token == token \in Seq(Nat)
<1>1. token = <<>> => Token
  OBVIOUS
<1>2. Token /\ [SendCharacter \/ SendEnd]_token => Token'
  <2>1. Characters \subseteq Nat
    BY DEF Characters, Minus, Letter
  <2>2. Token /\ SendCharacter => Token'
    BY <2>1 DEF SendCharacter
  <2>3. Token /\ SendEnd => Token'
    BY DEF SendEnd
  <2>4. UNCHANGED token /\ Token => Token'
    OBVIOUS
  <2> QED BY <2>2, <2>3, <2>4
<1>3. Token => ParsersAgree
  <2>1. \A r \in Ranges : r[1] \in Int /\ r[2] \in Int
    BY DEF Ranges
  <2> QED BY <2>1, SameNumbers DEF ParsersAgree
<1> QED BY <1>1, <1>2, <1>3, PTL DEF ArgumentsSpec
=============================================================================
