--------------------------- MODULE FirmwareProofs ---------------------------
(***************************************************************************)
(* Theorems about module Firmware, for all values of its constants.  The   *)
(* widths UInt8, UInt16 and Int16 stay unexpanded wherever possible: what  *)
(* the proofs need of them is in lemma Widths.                             *)
(***************************************************************************)
EXTENDS Firmware, TLAPS

-----------------------------------------------------------------------------
(* Lemmas about the operators of the model.                                *)

LEMMA Bounds ==
  /\ UINT8_MAX \in Int /\ UINT8_MAX >= 100
  /\ UINT16_MAX \in Int /\ UINT16_MAX >= 23000
  /\ INT16_MAX \in Int /\ INT16_MAX > 0
BY SMT DEF UINT8_MAX, UINT16_MAX, INT16_MAX

LEMMA Widths ==
  /\ \A x \in UInt8 : x \in Int
  /\ \A x \in UInt16 : x \in Int
  /\ \A x \in Int16 : x \in Int
  /\ \A x \in 0 .. AvgTimeToEmpty : x \in UInt16
  /\ \A x \in 0 .. 100 : x \in UInt16
  /\ \A x \in StartDelays : x \in Int16
  /\ \A x \in {0, 25, 600, 1300, 7200, 23000} : x \in UInt16
  /\ 5 \in UInt8 /\ NoDelay \in Int16
<1>1. /\ \A x \in UInt8 : x \in Int
      /\ \A x \in UInt16 : x \in Int
      /\ \A x \in Int16 : x \in Int
  BY Bounds, SMT DEF UInt8, UInt16, Int16
<1>2. \A x \in 0 .. AvgTimeToEmpty : x \in UInt16
  BY Bounds, SMT DEF UInt16, AvgTimeToEmpty
<1>3. \A x \in 0 .. 100 : x \in UInt16
  BY Bounds, SMT DEF UInt16
<1>4. \A x \in StartDelays : x \in Int16
  BY Bounds, SMT DEF StartDelays, Int16
<1>5. \A x \in {0, 25, 600, 1300, 7200, 23000} : x \in UInt16
  BY Bounds, SMT DEF UInt16
<1>6. 5 \in UInt8 /\ NoDelay \in Int16
  BY Bounds, SMT DEF UInt8, Int16, NoDelay
<1> QED BY <1>1, <1>2, <1>4, <1>5, <1>6, <1>3

(* the defaults are values of their types *)
LEMMA SafeTypes ==
  /\ SafeFlag \in [Flags -> BOOLEAN]
  /\ SafeMode \in [Overrides -> {AUTO, OFF, ON}]
  /\ SafeGauge \in [Gauges -> UInt16]
  /\ PowerOnHost \in [HostFeatures -> Int]
  /\ \A f \in HostFeatures : PowerOnHost[f] \in HostRange(f)
<1>1. SafeFlag \in [Flags -> BOOLEAN] BY DEF SafeFlag
<1>2. SafeMode \in [Overrides -> {AUTO, OFF, ON}] BY DEF SafeMode
<1>3. SafeGauge \in [Gauges -> UInt16] BY Widths, SMT DEF SafeGauge, Gauges
<1>4. PowerOnHost \in [HostFeatures -> Int]
  BY SMT DEF PowerOnHost, HostFeatures, Delays, NoDelay
<1>5. \A f \in HostFeatures : PowerOnHost[f] \in HostRange(f)
  <2>1. \A f \in Delays : PowerOnHost[f] = NoDelay /\ HostRange(f) = Int16
    BY SMT DEF PowerOnHost, Delays, HostRange
  <2>2. PowerOnHost["remainTimeLimit"] = 600 /\ HostRange("remainTimeLimit") = UInt16
    BY SMT DEF PowerOnHost, Delays, HostRange
  <2>3. PowerOnHost["remnCapacityLimit"] = 5 /\ HostRange("remnCapacityLimit") = UInt8
    BY SMT DEF PowerOnHost, Delays, HostRange
  <2>4. NoDelay \in Int16 /\ 600 \in UInt16 /\ 5 \in UInt8
    BY Widths
  <2> QED BY <2>1, <2>2, <2>3, <2>4, SMT DEF HostFeatures
<1> QED BY <1>1, <1>2, <1>3, <1>4, <1>5

(* the runtime derived from the charge fits its width, and that of a full  *)
(* battery is the default                                                  *)
LEMMA AutoRuntimeFacts ==
  /\ \A charge \in 0 .. 100 : AutoRuntime(charge) \in UInt16
  /\ AutoRuntime(FullChargeCapacity) = AvgTimeToEmpty
<1>1. \A charge \in 0 .. 100 : AutoRuntime(charge) \in 0 .. AvgTimeToEmpty
  BY SMT DEF AutoRuntime, AvgTimeToEmpty, FullChargeCapacity
<1>2. AutoRuntime(FullChargeCapacity) = AvgTimeToEmpty
  BY SMT DEF AutoRuntime, AvgTimeToEmpty, FullChargeCapacity
<1>3. \A x \in 0 .. AvgTimeToEmpty : x \in UInt16
  BY Widths
<1>4. \A charge \in 0 .. 100 : AutoRuntime(charge) \in UInt16
  BY <1>1, <1>3, Zenon
<1> QED BY <1>2, <1>4

(* unsigned subtraction of clock values *)
LEMMA SinceFacts ==
  ASSUME NEW t \in 0 .. ClockWrap - 1, NEW u \in 0 .. ClockWrap - 1
  PROVE  /\ Since(t, u) \in 0 .. ClockWrap - 1
         /\ Since(t, t) = 0
BY ClockAssumption, SMT DEF Since

LEMMA SinceTick ==
  ASSUME NEW t \in 0 .. ClockWrap - 1, NEW u \in 0 .. ClockWrap - 1,
         Since(t, u) + 1 < ClockWrap
  PROVE  Since(IF t + 1 = ClockWrap THEN 0 ELSE t + 1, u) = Since(t, u) + 1
BY ClockAssumption, SMT DEF Since

(* the values of a Feature are integers, whichever its width *)
LEMMA HostRangeInt == ASSUME NEW f PROVE \A x \in HostRange(f) : x \in Int
<1>1. CASE f \in Delays
  BY <1>1, Widths DEF HostRange
<1>2. CASE f \notin Delays /\ f = "remainTimeLimit"
  BY <1>2, Widths DEF HostRange
<1>3. CASE f \notin Delays /\ f # "remainTimeLimit"
  BY <1>3, Widths DEF HostRange
<1> QED BY <1>1, <1>2, <1>3

(* what the commands name is a flag, an override, a gauge *)
LEMMA Names ==
  /\ \A op \in DOMAIN FlagOf : FlagOf[op] \in Flags
  /\ \A op \in DOMAIN ModeOf : ModeOf[op] \in Overrides
  /\ \A op \in DOMAIN GaugeOf : GaugeOf[op] \in Gauges
  /\ \A g \in Gauges : \A x \in GaugeRange(g) : x \in UInt16
<1>1. \A op \in DOMAIN FlagOf : FlagOf[op] \in Flags
  BY SMT DEF FlagOf, Flags
<1>2. \A op \in DOMAIN ModeOf : ModeOf[op] \in Overrides
  BY SMT DEF ModeOf, Overrides
<1>3. \A op \in DOMAIN GaugeOf : GaugeOf[op] \in Gauges
  BY SMT DEF GaugeOf, Gauges
<1>4. \A g \in Gauges : \A x \in GaugeRange(g) : x \in UInt16
  <2> SUFFICES ASSUME NEW g \in Gauges PROVE \A x \in GaugeRange(g) : x \in UInt16
    OBVIOUS
  <2>1. CASE g = "load"
    BY <2>1, Widths, SMT DEF GaugeRange
  <2>2. CASE g # "load"
    BY <2>2, Zenon DEF GaugeRange
  <2> QED BY <2>1, <2>2
<1> QED BY <1>1, <1>2, <1>3, <1>4

-----------------------------------------------------------------------------
(* The type invariant.                                                     *)

LEMMA DerivedStatusType ==
  ASSUME GateType, UpsType, NEW delay \in Int, NEW limit \in Int
  PROVE  DerivedStatus(delay, limit) \in Statuses
<1>1. \A f \in Flags : flag[f] \in BOOLEAN
  BY DEF UpsType
<1>2. ShutdownWanted(delay) \in BOOLEAN
  BY <1>1, Zenon DEF GateType, ShutdownWanted
<1>3. /\ flag["acPresent"] \in BOOLEAN /\ flag["overload"] \in BOOLEAN
      /\ flag["needReplacement"] \in BOOLEAN /\ flag["communicationLost"] \in BOOLEAN
  BY <1>1 DEF Flags
<1>4. \A m, auto : auto \in BOOLEAN => Override(m, auto) \in BOOLEAN
  BY Zenon DEF Override
<1>5. Override("charging", flag["acPresent"] /\ battery < FullChargeCapacity) \in BOOLEAN
  BY <1>4, Zenon
<1>6. (battery <= host["remnCapacityLimit"]) \in BOOLEAN
  OBVIOUS
<1>7. Override("lowBattery", battery <= host["remnCapacityLimit"]) \in BOOLEAN
  BY <1>4, <1>6, Zenon
<1> QED BY <1>2, <1>3, <1>5, <1>7, SMT DEF DerivedStatus, Statuses

LEMMA InitTypeOK == Init => TypeOK
<1> SUFFICES ASSUME Init PROVE TypeOK
  OBVIOUS
<1>1. GateType
  <2>1. armed \in BOOLEAN
    BY Zenon DEF Init
  <2> QED BY <2>1, ClockAssumption, SMT DEF Init, GateType
<1>2. UpsType
  <2>1. battery \in 0 .. 100
    BY SMT DEF Init, FullChargeCapacity
  <2>2. runtime \in UInt16
    BY Widths, SMT DEF Init, AvgTimeToEmpty
  <2> QED BY <2>1, <2>2, SafeTypes DEF Init, UpsType
<1>3. HostType
  BY SafeTypes DEF Init, HostType
<1>4. LoopType
  <2>1. status \in Statuses
    BY <1>1, <1>2, DerivedStatusType DEF Init
  <2>2. seen \in [delay : Int16, limit : UInt16]
    BY Widths, SMT DEF Init, NotSeen, NoDelay
  <2> QED BY <2>1, <2>2, ClockAssumption, SMT DEF Init, LoopType
<1> QED BY <1>1, <1>2, <1>3, <1>4 DEF TypeOK

(* setSafeState() on its own *)
LEMMA SafeStateType ==
  ASSUME TypeOK, SetSafeState
  PROVE  GateType' /\ UpsType' /\ HostType'
<1>1. GateType'
  <2>1. armed' \in BOOLEAN
    BY Zenon DEF SetSafeState
  <2> QED BY <2>1, ClockAssumption, SMT DEF SetSafeState, GateType
<1>2. UpsType'
  <2>1. battery' \in 0 .. 100
    BY SMT DEF SetSafeState, RestoreScenario, FullChargeCapacity
  <2>2. runtime' \in UInt16
    BY Widths, SMT DEF SetSafeState, RestoreScenario, AvgTimeToEmpty
  <2> QED BY <2>1, <2>2, SafeTypes DEF SetSafeState, RestoreScenario, UpsType
<1>3. HostType'
  <2>1. /\ host' = [f \in HostFeatures |-> IF f \in Delays THEN NoDelay ELSE host[f]]
        /\ host \in [HostFeatures -> Int]
        /\ \A f \in HostFeatures : host[f] \in HostRange(f)
    BY DEF SetSafeState, TypeOK, HostType
  <2>2. NoDelay \in Int
    BY DEF NoDelay
  <2>3. \A f \in Delays : HostRange(f) = Int16
    BY DEF HostRange
  <2>4. host' \in [HostFeatures -> Int]
    BY <2>1, <2>2, SMT
  <2>5. \A f \in HostFeatures : host'[f] \in HostRange(f)
    BY <2>1, <2>3, Widths, SMT
  <2> QED BY <2>4, <2>5 DEF HostType
<1> QED BY <1>1, <1>2, <1>3

(* a line leaves the gate well typed when it only refreshes the lease *)
LEMMA RefreshType ==
  ASSUME TypeOK, RefreshedLease, UNCHANGED <<armed, lease>>
  PROVE  GateType'
<1>1. CASE armed
  BY <1>1, SMT DEF TypeOK, GateType, LoopType, RefreshedLease
<1>2. CASE ~armed
  BY <1>2, SMT DEF TypeOK, GateType, RefreshedLease
<1> QED BY <1>1, <1>2

(* the control of a handler: back to the poll, or on to updateModel() *)
LEMMA HandlerType ==
  ASSUME TypeOK, NEW r, Received(r),
         Return \/ Call("none") \/ Call("force")
  PROVE  LoopType'
BY SMT DEF TypeOK, LoopType, Received, timeVars, Return, Call

LEMMA KeptUps == ASSUME TypeOK, UNCHANGED <<simVars, battery, runtime>> PROVE UpsType'
BY SMT DEF TypeOK, UpsType, simVars

LEMMA KeptHost == ASSUME TypeOK, UNCHANGED host PROVE HostType'
BY SMT DEF TypeOK, HostType

LEMMA KeptGate == ASSUME TypeOK, UNCHANGED leaseVars PROVE GateType'
BY SMT DEF TypeOK, GateType, leaseVars

(* one Feature is written with a value of its width *)
LEMMA HostStoreType ==
  ASSUME TypeOK, NEW f \in HostFeatures, NEW v \in HostRange(f),
         host' = [host EXCEPT ![f] = v]
  PROVE  HostType'
<1>1. v \in Int
  BY HostRangeInt
<1>2. /\ host \in [HostFeatures -> Int]
      /\ \A g \in HostFeatures : host[g] \in HostRange(g)
  BY DEF TypeOK, HostType
<1>3. host' \in [HostFeatures -> Int]
  BY <1>1, <1>2, SMT
<1>4. ASSUME NEW g \in HostFeatures PROVE host'[g] \in HostRange(g)
  <2>1. CASE g = f
    BY <1>2, <2>1, Zenon
  <2>2. CASE g # f
    BY <1>2, <2>2, Zenon
  <2> QED BY <2>1, <2>2
<1> QED BY <1>3, <1>4 DEF HostType

LEMMA CommandTypeOK ==
  ASSUME TypeOK, NEW r \in Requests, HandleCommand(r)
  PROVE  TypeOK'
<1> USE DEF ScenarioCommand
<1>1. CASE Query(r)
  BY <1>1, RefreshType, HandlerType, KeptUps, KeptHost DEF Query, TypeOK
<1>2. CASE StatusQuery(r)
  BY <1>2, RefreshType, HandlerType, KeptUps, KeptHost DEF StatusQuery, TypeOK
<1>3. CASE ArmOn(r)
  <2>1. GateType'
    BY <1>3, SMT DEF ArmOn, TypeOK, GateType, LoopType, LeaseAccepted
  <2> QED BY <1>3, <2>1, HandlerType, KeptUps, KeptHost DEF ArmOn, TypeOK
<1>4. CASE Disarm(r)
  BY <1>4, SafeStateType, HandlerType DEF Disarm, TypeOK
<1>5. CASE Report(r)
  BY <1>5, RefreshType, HandlerType, KeptUps, KeptHost DEF Report, TypeOK
<1>6. CASE SetFlag(r)
  <2>1. UpsType'
    BY <1>6, Names, SMT DEF SetFlag, TypeOK, UpsType
  <2> QED BY <1>6, <2>1, RefreshType, HandlerType, KeptHost DEF SetFlag, TypeOK
<1>7. CASE SetMode(r)
  <2>1. UpsType'
    BY <1>7, Names, SMT DEF SetMode, TypeOK, UpsType
  <2> QED BY <1>7, <2>1, RefreshType, HandlerType, KeptHost DEF SetMode, TypeOK
<1>8. CASE SetBattery(r)
  <2>1. UpsType'
    BY <1>8, SMT DEF SetBattery, TypeOK, UpsType, simVars
  <2> QED BY <1>8, <2>1, RefreshType, HandlerType, KeptHost DEF SetBattery, TypeOK
<1>9. CASE SetGauge(r)
  <2>1. UpsType'
    BY <1>9, Names, SMT DEF SetGauge, TypeOK, UpsType
  <2> QED BY <1>9, <2>1, RefreshType, HandlerType, KeptHost DEF SetGauge, TypeOK
<1>10. CASE SetRuntime(r)
  <2>1. UpsType'
    <3>1. runtimeAuto' \in BOOLEAN
      BY <1>10, Zenon DEF SetRuntime
    <3> QED BY <1>10, <3>1, SMT DEF SetRuntime, TypeOK, UpsType
  <2> QED BY <1>10, <2>1, RefreshType, HandlerType, KeptHost DEF SetRuntime, TypeOK
<1>11. CASE SetRuntimeAuto(r)
  <2>1. UpsType'
    <3>1. runtimeAuto' \in BOOLEAN
      BY <1>11, Zenon DEF SetRuntimeAuto
    <3> QED BY <1>11, <3>1 DEF SetRuntimeAuto, TypeOK, UpsType
  <2> QED BY <1>11, <2>1, RefreshType, HandlerType, KeptHost DEF SetRuntimeAuto, TypeOK
<1>12. CASE SetStartDelay(r)
  <2>1. HostType'
    <3>1. r.arg \in Int16
      BY <1>12, Widths DEF SetStartDelay
    <3>2. HostRange("delayStartup") = Int16
      BY DEF HostRange, Delays
    <3>3. "delayStartup" \in HostFeatures
      BY DEF HostFeatures, Delays
    <3>4. host' = [host EXCEPT !["delayStartup"] = r.arg]
      BY <1>12 DEF SetStartDelay
    <3> QED BY <3>1, <3>2, <3>3, <3>4, HostStoreType
  <2>2. UNCHANGED <<simVars, battery, runtime>>
    BY <1>12 DEF SetStartDelay
  <2>3. UpsType'
    BY <2>2, KeptUps
  <2>4. Received(r) /\ RefreshedLease /\ Call("force") /\ UNCHANGED <<armed, lease>>
    BY <1>12 DEF SetStartDelay
  <2> QED BY <2>1, <2>3, <2>4, RefreshType, HandlerType DEF TypeOK
<1>13. CASE Refused(r)
  BY <1>13, RefreshType, HandlerType, KeptUps, KeptHost DEF Refused, TypeOK
<1> QED BY <1>1, <1>2, <1>3, <1>4, <1>5, <1>6, <1>7, <1>8, <1>9, <1>10,
           <1>11, <1>12, <1>13 DEF HandleCommand

LEMMA LoopTypeOK ==
  ASSUME TypeOK, LoopStep \/ Tick
  PROVE  TypeOK'
<1>1. CASE LoopTop
  <2>1. LoopType'
    BY <1>1, SMT DEF LoopTop, TypeOK, LoopType, Call
  <2> QED BY <1>1, <2>1, SafeStateType, KeptGate, KeptUps, KeptHost DEF LoopTop, TypeOK
<1>2. CASE EndPoll
  <2>1. LoopType'
    BY <1>2, SMT DEF EndPoll, TypeOK, LoopType, Call, timeVars
  <2> QED BY <1>2, <2>1, KeptGate, KeptUps, KeptHost DEF EndPoll, TypeOK
<1>3. CASE UpdateModel
  <2>1. LoopType'
    <3>1. host["delayShutdown"] \in Int16 /\ host["remainTimeLimit"] \in UInt16
      BY SMT DEF TypeOK, HostType, HostFeatures, HostRange, Delays
    <3> QED BY <1>3, <3>1, SMT DEF UpdateModel, TypeOK, LoopType, timeVars
  <2>2. UpsType'
    <3>1. runtime' \in UInt16
      BY <1>3, AutoRuntimeFacts, SMT DEF UpdateModel, UpdatedRuntime, TypeOK, UpsType
    <3> QED BY <1>3, <3>1, SMT DEF UpdateModel, TypeOK, UpsType, simVars
  <2> QED BY <1>3, <2>1, <2>2, KeptGate, KeptHost DEF UpdateModel, TypeOK
<1>4. CASE PublishStatus
  <2>1. status' \in Statuses
    <3>1. seen.delay \in Int16 /\ seen.limit \in UInt16
      BY SMT DEF TypeOK, LoopType
    <3>2. seen.delay \in Int /\ seen.limit \in Int
      BY <3>1, Widths
    <3> QED BY <1>4, <3>2, DerivedStatusType DEF PublishStatus, TypeOK
  <2>2. seen' \in [delay : Int16, limit : UInt16]
    BY <1>4, Widths, SMT DEF PublishStatus, NotSeen, NoDelay
  <2>3. LoopType'
    BY <1>4, <2>1, <2>2, SMT DEF PublishStatus, TypeOK, LoopType, timeVars
  <2> QED BY <1>4, <2>3, KeptGate, KeptUps, KeptHost DEF PublishStatus, TypeOK
<1>5. CASE SendUsbReports
  <2>1. LoopType'
    BY <1>5, SMT DEF SendUsbReports, TypeOK, LoopType, timeVars
  <2> QED BY <1>5, <2>1, KeptGate, KeptUps, KeptHost DEF SendUsbReports, TypeOK
<1>6. CASE Tick
  <2>1. GateType'
    BY <1>6, SMT DEF Tick, TypeOK, GateType
  <2>2. LoopType'
    BY <1>6, ClockAssumption, SMT DEF Tick, TypeOK, LoopType
  <2> QED BY <1>6, <2>1, <2>2, KeptUps, KeptHost DEF Tick, TypeOK
<1> QED BY <1>1, <1>2, <1>3, <1>4, <1>5, <1>6 DEF LoopStep

LEMMA HostTypeOK ==
  ASSUME TypeOK, NEW w \in HostWrites, HostSetReport(w)
  PROVE  TypeOK'
<1>1. HostType'
  <2>1. w.feature \in HostFeatures /\ w.value \in HostRange(w.feature)
    BY InputAssumption
  <2> QED BY <2>1, HostStoreType DEF HostSetReport
<1>2. LoopType'
  BY SMT DEF HostSetReport, TypeOK, LoopType, timeVars
<1> QED BY <1>1, <1>2, KeptGate, KeptUps DEF HostSetReport, TypeOK

LEMMA KeptTypeOK == ASSUME TypeOK, UNCHANGED vars PROVE TypeOK'
<1>1. LoopType'
  BY SMT DEF TypeOK, LoopType, vars
<1> QED BY <1>1, KeptGate, KeptUps, KeptHost DEF TypeOK, vars, leaseVars, simVars

(* Every variable keeps its type: in particular nothing a controller or    *)
(* the host sends overflows the byte, the 16-bit words or the lease.       *)
THEOREM TypeCorrect == Spec => []TypeOK
<1>1. TypeOK /\ [Next]_vars => TypeOK'
  BY CommandTypeOK, LoopTypeOK, HostTypeOK, KeptTypeOK DEF Next
<1> QED BY InitTypeOK, <1>1, PTL DEF Spec

-----------------------------------------------------------------------------
(* The scenario of a disarmed simulator.                                   *)

LEMMA RestoredIsSafe == ASSUME SetSafeState PROVE DisarmedIsSafe'
BY DEF SetSafeState, RestoreScenario, DisarmedIsSafe

(* a line that gets past the gate finds the simulator armed *)
LEMMA GateHolds ==
  ASSUME NEW r, ~armed, HandleCommand(r), ~SetSafeState
  PROVE  /\ UNCHANGED <<simVars, battery, runtime>>
         /\ armed' \/ UNCHANGED <<armed, lease>>
<1> USE DEF ScenarioCommand, RequireArmed
<1>1. CASE Query(r) \/ StatusQuery(r) \/ Report(r) \/ Refused(r)
  BY <1>1, Zenon DEF Query, StatusQuery, Report, Refused
<1>2. CASE ArmOn(r)
  BY <1>2, Zenon DEF ArmOn
<1>3. CASE Disarm(r)
  BY <1>3, Zenon DEF Disarm
<1>4. CASE SetFlag(r) \/ SetMode(r) \/ SetBattery(r) \/ SetGauge(r)
  BY <1>4, Zenon DEF SetFlag, SetMode, SetBattery, SetGauge
<1>5. CASE SetRuntime(r) \/ SetRuntimeAuto(r) \/ SetStartDelay(r)
  BY <1>5, Zenon DEF SetRuntime, SetRuntimeAuto, SetStartDelay
<1> QED BY <1>1, <1>2, <1>3, <1>4, <1>5 DEF HandleCommand

(* a line disarms the simulator by setSafeState() or not at all *)
LEMMA CommandDisarms ==
  ASSUME NEW r, armed, HandleCommand(r), ~SetSafeState
  PROVE  armed'
<1> USE DEF ScenarioCommand
<1>1. CASE Query(r) \/ StatusQuery(r) \/ Report(r) \/ Refused(r)
  BY <1>1, Zenon DEF Query, StatusQuery, Report, Refused
<1>2. CASE ArmOn(r) \/ Disarm(r)
  BY <1>2, Zenon DEF ArmOn, Disarm
<1>3. CASE SetFlag(r) \/ SetMode(r) \/ SetBattery(r) \/ SetGauge(r)
  BY <1>3, Zenon DEF SetFlag, SetMode, SetBattery, SetGauge
<1>4. CASE SetRuntime(r) \/ SetRuntimeAuto(r) \/ SetStartDelay(r)
  BY <1>4, Zenon DEF SetRuntime, SetRuntimeAuto, SetStartDelay
<1> QED BY <1>1, <1>2, <1>3, <1>4 DEF HandleCommand

LEMMA KeptSafe ==
  ASSUME DisarmedIsSafe, UNCHANGED <<armed, lease, simVars, battery, runtime>>
  PROVE  DisarmedIsSafe'
BY DEF DisarmedIsSafe, simVars

(* the runtime of a disarmed simulator is already the automatic one *)
LEMMA UpdateKeepsSafe == ASSUME DisarmedIsSafe, UpdateModel PROVE DisarmedIsSafe'
<1>1. UNCHANGED <<armed, lease, flag, mode, runtimeAuto, gauge, battery>>
  BY DEF UpdateModel, leaseVars, simVars
<1>2. ~armed => runtime' = runtime
  BY AutoRuntimeFacts, Zenon DEF UpdateModel, UpdatedRuntime, DisarmedIsSafe
<1> QED BY <1>1, <1>2, Zenon DEF DisarmedIsSafe

(* Whatever disarms the simulator, no part of the scenario survives: the   *)
(* flags, overrides and measurements of a disarmed simulator are the safe  *)
(* ones in every reachable state.                                          *)
THEOREM DisarmedSafe == Spec => []DisarmedIsSafe
<1>1. Init => DisarmedIsSafe
  BY Zenon DEF Init, DisarmedIsSafe
<1>2. DisarmedIsSafe /\ [Next]_vars => DisarmedIsSafe'
  <2> SUFFICES ASSUME DisarmedIsSafe, [Next]_vars PROVE DisarmedIsSafe'
    OBVIOUS
  <2>1. ASSUME NEW r \in Requests, HandleCommand(r) PROVE DisarmedIsSafe'
    <3>1. CASE SetSafeState
      BY <3>1, RestoredIsSafe
    <3>2. CASE ~SetSafeState /\ armed
      BY <2>1, <3>2, CommandDisarms, Zenon DEF DisarmedIsSafe
    <3>3. CASE ~SetSafeState /\ ~armed
      <4>1. UNCHANGED <<simVars, battery, runtime>> /\ (armed' \/ UNCHANGED <<armed, lease>>)
        BY <2>1, <3>3, GateHolds, Zenon
      <4> QED BY <4>1, KeptSafe, Zenon DEF DisarmedIsSafe
    <3> QED BY <3>1, <3>2, <3>3
  <2>2. CASE LoopTop
    <3>1. CASE SetSafeState
      BY <3>1, RestoredIsSafe
    <3>2. CASE ~SetSafeState
      BY <2>2, <3>2, KeptSafe DEF LoopTop, leaseVars
    <3> QED BY <3>1, <3>2
  <2>3. CASE UpdateModel
    BY <2>3, UpdateKeepsSafe
  <2>4. CASE EndPoll \/ PublishStatus \/ SendUsbReports
    BY <2>4, KeptSafe DEF EndPoll, PublishStatus, SendUsbReports, leaseVars
  <2>5. ASSUME NEW w \in HostWrites, HostSetReport(w) PROVE DisarmedIsSafe'
    BY <2>5, KeptSafe DEF HostSetReport, leaseVars
  <2>6. CASE Tick
    BY <2>6, KeptSafe DEF Tick
  <2>7. CASE UNCHANGED vars
    BY <2>7, KeptSafe DEF vars, simVars
  <2> QED BY <2>1, <2>2, <2>3, <2>4, <2>5, <2>6, <2>7 DEF Next, LoopStep
<1> QED BY <1>1, <1>2, PTL DEF Spec

-----------------------------------------------------------------------------
(* The lease.  LeaseBound is not inductive: that the age at a time is      *)
(* below the lease by the time this pass has already taken follows from    *)
(* the test at the top of the pass, and only as long as the clock          *)
(* difference the code works with is the true age.                         *)

Running == armed /\ lease # 0

LeaseInv ==
  /\ Since(clock, now) <= MaxLoop
  /\ Running => /\ idle = Since(clock, lastCommand)
                /\ idle < lease + Since(clock, now)
  /\ ~Running => idle = 0

LEMMA LeaseInvBounds == TypeOK /\ LeaseInv => LeaseBound
<1> SUFFICES ASSUME TypeOK, LeaseInv, Running PROVE idle < lease + MaxLoop
  BY DEF LeaseBound, Running
<1>1. /\ clock \in 0 .. ClockWrap - 1 /\ now \in 0 .. ClockWrap - 1
      /\ lease \in Nat /\ idle \in Nat
  BY SMT DEF TypeOK, LoopType, GateType
<1>2. Since(clock, now) \in 0 .. ClockWrap - 1
  BY <1>1, SinceFacts
<1> QED BY <1>1, <1>2, ClockAssumption, SMT DEF LeaseInv

(* a line that refreshes the lease starts its age anew *)
LEMMA FreshLease ==
  ASSUME TypeOK, LeaseInv, UNCHANGED timeVars,
         \/ armed' = FALSE /\ idle' = 0
         \/ armed' /\ lease' \in Nat /\ lastCommand' = clock /\ idle' = 0
  PROVE  LeaseInv'
<1>1. Since(clock, clock) = 0 /\ Since(clock, now) \in Nat
  BY SinceFacts, ClockAssumption, SMT DEF TypeOK, LoopType
<1>2. Since(clock, now)' = Since(clock, now)
  BY DEF timeVars, Since
<1>3. Since(clock, lastCommand)' = Since(clock, lastCommand')
  BY DEF timeVars, Since
<1> QED BY <1>1, <1>2, <1>3, SMT DEF LeaseInv, Running

LEMMA KeptLease ==
  ASSUME LeaseInv, UNCHANGED leaseVars, UNCHANGED timeVars PROVE LeaseInv'
BY DEF LeaseInv, Running, Since, leaseVars, timeVars

(* the same for every line that is not ARM ON, ARM OFF or RESET *)
LEMMA RefreshKeepsLease ==
  ASSUME TypeOK, LeaseInv, UNCHANGED timeVars, RefreshedLease, UNCHANGED <<armed, lease>>
  PROVE  LeaseInv'
<1>1. CASE armed
  <2>1. lease' \in Nat
    BY SMT DEF TypeOK, GateType
  <2> QED BY <1>1, <2>1, FreshLease DEF RefreshedLease
<1>2. CASE ~armed
  BY <1>2, KeptLease DEF RefreshedLease, leaseVars
<1> QED BY <1>1, <1>2

LEMMA CommandLease ==
  ASSUME TypeOK, LeaseInv, NEW r, HandleCommand(r)
  PROVE  LeaseInv'
<1> USE DEF ScenarioCommand, Received
<1>1. CASE Query(r) \/ StatusQuery(r) \/ Report(r) \/ Refused(r)
  BY <1>1, RefreshKeepsLease DEF Query, StatusQuery, Report, Refused
<1>2. CASE ArmOn(r)
  <2>1. lease' \in Nat
    BY <1>2, ClockAssumption, SMT DEF ArmOn, LeaseAccepted
  <2> QED BY <1>2, <2>1, FreshLease DEF ArmOn
<1>3. CASE Disarm(r)
  BY <1>3, FreshLease DEF Disarm, SetSafeState
<1>4. CASE SetFlag(r) \/ SetMode(r) \/ SetBattery(r) \/ SetGauge(r)
  BY <1>4, RefreshKeepsLease DEF SetFlag, SetMode, SetBattery, SetGauge
<1>5. CASE SetRuntime(r) \/ SetRuntimeAuto(r) \/ SetStartDelay(r)
  BY <1>5, RefreshKeepsLease DEF SetRuntime, SetRuntimeAuto, SetStartDelay
<1> QED BY <1>1, <1>2, <1>3, <1>4, <1>5 DEF HandleCommand

LEMMA LoopTopLease == ASSUME TypeOK, LeaseInv, LoopTop PROVE LeaseInv'
<1>1. clock \in 0 .. ClockWrap - 1
  BY DEF TypeOK, LoopType
<1>2. Since(clock, now)' = 0
  BY <1>1, SinceFacts, SMT DEF LoopTop, Since
<1>3. CASE SetSafeState
  BY <1>2, <1>3, ClockAssumption, SMT DEF SetSafeState, LeaseInv, Running
<1>4. CASE ~LeaseExpired /\ UNCHANGED leaseVars
  <2>1. UNCHANGED <<armed, lease, lastCommand, idle, clock>>
    BY <1>4 DEF LoopTop, leaseVars
  <2>2. Since(clock, lastCommand)' = Since(clock, lastCommand)
    BY <2>1 DEF Since
  <2>3. Running => idle < lease
    <3>1. lastCommand \in 0 .. ClockWrap - 1 /\ lease \in Nat
      BY SMT DEF TypeOK, GateType
    <3>2. Since(clock, lastCommand) \in Int
      BY <1>1, <3>1, SinceFacts, ClockAssumption, SMT
    <3> QED BY <1>4, <3>1, <3>2, SMT DEF LeaseExpired, Running, LeaseInv
  <2> QED BY <1>2, <2>1, <2>2, <2>3, ClockAssumption, SMT DEF LeaseInv, Running,
             TypeOK, GateType
<1> QED BY <1>3, <1>4 DEF LoopTop

LEMMA TickLease == ASSUME TypeOK, LeaseInv, Tick PROVE LeaseInv'
<1>1. /\ clock \in 0 .. ClockWrap - 1 /\ now \in 0 .. ClockWrap - 1
      /\ lastCommand \in 0 .. ClockWrap - 1
      /\ lease \in Nat /\ lease <= ArmMaxLease /\ idle \in Nat
  BY SMT DEF TypeOK, LoopType, GateType
<1>2. Since(clock, now) \in Nat /\ Since(clock, lastCommand) \in Nat
  <2>1. /\ Since(clock, now) \in 0 .. ClockWrap - 1
        /\ Since(clock, lastCommand) \in 0 .. ClockWrap - 1
    BY <1>1, SinceFacts
  <2> QED BY <2>1, ClockAssumption, SMT
<1>3. UNCHANGED <<armed, lease, lastCommand, now>>
  BY DEF Tick
<1>4. Since(clock, now) < MaxLoop
  BY DEF Tick
<1>5. Since(clock, now)' = Since(clock, now) + 1
  <2>1. Since(clock, now) + 1 < ClockWrap
    BY <1>2, <1>4, ClockAssumption, SMT
  <2>2. Since(clock, now)' = Since(clock', now)
    BY <1>3 DEF Since
  <2> QED BY <1>1, <2>1, <2>2, SinceTick DEF Tick
<1>6. CASE Running
  <2>1. Since(clock, lastCommand) + 1 < ClockWrap
    BY <1>1, <1>2, <1>4, <1>6, ClockAssumption, SMT DEF LeaseInv
  <2>2. Since(clock, lastCommand)' = Since(clock, lastCommand) + 1
    <3>1. Since(clock, lastCommand)' = Since(clock', lastCommand)
      BY <1>3 DEF Since
    <3> QED BY <1>1, <2>1, <3>1, SinceTick DEF Tick
  <2>3. idle' = idle + 1
    BY <1>6 DEF Tick, Running
  <2> QED BY <1>1, <1>2, <1>3, <1>4, <1>5, <1>6, <2>2, <2>3, ClockAssumption, SMT
          DEF LeaseInv, Running
<1>7. CASE ~Running
  <2>1. idle' = 0 /\ ~Running'
    BY <1>3, <1>7 DEF Tick, Running
  <2> QED BY <1>2, <1>4, <1>5, <2>1, ClockAssumption, SMT DEF LeaseInv
<1> QED BY <1>6, <1>7

LEMMA LeaseInvariant == Spec => [](TypeOK /\ LeaseInv)
<1>1. Init => LeaseInv
  <2>1. Init => Since(clock, now) = 0
    BY ClockAssumption, SMT DEF Init, Since
  <2> QED BY <2>1, ClockAssumption, SMT DEF Init, LeaseInv, Running
<1>2. TypeOK /\ LeaseInv /\ [Next]_vars => LeaseInv'
  <2> SUFFICES ASSUME TypeOK, LeaseInv, [Next]_vars PROVE LeaseInv'
    OBVIOUS
  <2>1. ASSUME NEW r \in Requests, HandleCommand(r) PROVE LeaseInv'
    BY <2>1, CommandLease
  <2>2. CASE LoopTop
    BY <2>2, LoopTopLease
  <2>3. CASE EndPoll \/ UpdateModel \/ PublishStatus \/ SendUsbReports
    BY <2>3, KeptLease DEF EndPoll, UpdateModel, PublishStatus, SendUsbReports
  <2>4. ASSUME NEW w \in HostWrites, HostSetReport(w) PROVE LeaseInv'
    BY <2>4, KeptLease DEF HostSetReport
  <2>5. CASE Tick
    BY <2>5, TickLease
  <2>6. CASE UNCHANGED vars
    BY <2>6, KeptLease DEF vars, leaseVars, timeVars
  <2> QED BY <2>1, <2>2, <2>3, <2>4, <2>5, <2>6 DEF Next, LoopStep
<1> QED BY <1>1, <1>2, TypeCorrect, PTL DEF Spec

(* An armed simulator with a lease is at most a pass of loop() older than  *)
(* the lease, for every lease and clock the constants allow.               *)
THEOREM LeaseIsBounded == Spec => []LeaseBound
BY LeaseInvariant, LeaseInvBounds, PTL

(* Only an expired lease disarms the simulator at the top of a pass: the   *)
(* true time since the last command has then reached the lease.            *)
THEOREM LeaseNotEarly == Spec => NoEarlyExpiry
<1> DEFINE Early == pc = "loop" /\ armed /\ ~armed' => lease # 0 /\ idle >= lease
<1>1. TypeOK /\ LeaseInv /\ [Next]_vars => [Early]_vars
  <2> SUFFICES ASSUME TypeOK, LeaseInv, Next, pc = "loop", armed, ~armed'
               PROVE  lease # 0 /\ idle >= lease
    OBVIOUS
  <2>1. ASSUME NEW r \in Requests, HandleCommand(r) PROVE FALSE
    <3>1. ~Received(r)
      BY DEF Received
    <3> QED BY <2>1, <3>1 DEF HandleCommand, Query, StatusQuery, ArmOn, Disarm, Report,
               SetFlag, SetMode, SetBattery, SetGauge, SetRuntime, SetRuntimeAuto,
               SetStartDelay, Refused, ScenarioCommand
  <2>2. CASE LoopTop
    <3>1. LeaseExpired
      BY <2>2, Zenon DEF LoopTop, leaseVars
    <3>2. Running /\ Since(clock, lastCommand) >= lease
      BY <3>1, Zenon DEF LeaseExpired, Running
    <3>3. idle = Since(clock, lastCommand)
      BY <3>2 DEF LeaseInv
    <3> QED BY <3>2, <3>3 DEF Running
  <2>3. CASE EndPoll \/ UpdateModel \/ PublishStatus \/ SendUsbReports \/ Tick
    BY <2>3, Zenon DEF EndPoll, UpdateModel, PublishStatus, SendUsbReports, Tick, leaseVars
  <2>4. ASSUME NEW w \in HostWrites, HostSetReport(w) PROVE FALSE
    BY <2>4, Zenon DEF HostSetReport, leaseVars
  <2> QED BY <2>1, <2>2, <2>3, <2>4 DEF Next, LoopStep
<1> QED BY <1>1, LeaseInvariant, PTL DEF Spec, NoEarlyExpiry

-----------------------------------------------------------------------------
(* What the host sees, and what it cannot change.                          *)

LooksSafe(s) ==
  /\ s.acPresent /\ s.fullyCharged
  /\ \A f \in {"charging", "discharging", "timeLimitExpired", "needReplacement",
               "fullyDischarged", "shutdownRequested", "shutdownImminent",
               "communicationLost", "overload"} : ~s[f]

LEMMA SafeStatus ==
  ASSUME DisarmedIsSafe, ~armed, NEW delay, NEW limit
  PROVE  LooksSafe(DerivedStatus(delay, limit))
<1> DEFINE s == DerivedStatus(delay, limit)
<1>1. /\ flag = SafeFlag /\ mode = SafeMode /\ battery = 100
  BY DEF DisarmedIsSafe, FullChargeCapacity
<1>2. /\ flag["acPresent"] = TRUE /\ flag["overload"] = FALSE
      /\ flag["needReplacement"] = FALSE /\ flag["communicationLost"] = FALSE
  BY <1>1 DEF SafeFlag, Flags
<1>3. ~ShutdownWanted(delay)
  BY DEF ShutdownWanted
<1>4. mode["charging"] = AUTO
  BY <1>1 DEF SafeMode, Overrides
<1>5. Override("charging", flag["acPresent"] /\ battery < FullChargeCapacity) = FALSE
  <2>1. ~(battery < FullChargeCapacity)
    BY <1>1, SMT DEF FullChargeCapacity
  <2> QED BY <1>4, <2>1, Zenon DEF Override
<1>6. battery >= FullChargeCapacity /\ battery # 0
  BY <1>1, SMT DEF FullChargeCapacity
<1>7. /\ s.acPresent = flag["acPresent"]
      /\ s.fullyCharged = (battery >= FullChargeCapacity)
      /\ s.charging = Override("charging", flag["acPresent"] /\ battery < FullChargeCapacity)
      /\ s.discharging = (~flag["acPresent"] /\ battery > 0)
      /\ s.timeLimitExpired = ((~flag["acPresent"] /\ battery > 0) /\ runtime <= limit)
      /\ s.needReplacement = flag["needReplacement"]
  BY Zenon DEF DerivedStatus
<1>8. /\ s.fullyDischarged = (battery = 0)
      /\ s.shutdownRequested = ShutdownWanted(delay)
      /\ s.shutdownImminent = (ShutdownWanted(delay)
                               \/ ((~flag["acPresent"] /\ battery > 0) /\ runtime <= limit))
      /\ s.communicationLost = flag["communicationLost"]
      /\ s.overload = flag["overload"]
  BY Zenon DEF DerivedStatus
<1> HIDE DEF s
<1>9. /\ s["acPresent"] /\ s["fullyCharged"]
      /\ ~s["charging"] /\ ~s["discharging"] /\ ~s["timeLimitExpired"]
      /\ ~s["needReplacement"] /\ ~s["fullyDischarged"] /\ ~s["shutdownRequested"]
      /\ ~s["shutdownImminent"] /\ ~s["communicationLost"] /\ ~s["overload"]
  BY <1>2, <1>3, <1>5, <1>6, <1>7, <1>8, Zenon
<1>10. LooksSafe(s)
  BY <1>9, Zenon DEF LooksSafe
<1> QED BY <1>10 DEF s

LEMMA KeptLooks ==
  ASSUME DisarmedLooksSafe, UNCHANGED status,
         armed' \/ pc' \in {"model", "publish"} \/ UNCHANGED <<armed, pc>>
                \/ (~armed /\ pc \notin {"model", "publish"})
  PROVE  DisarmedLooksSafe'
BY Zenon DEF DisarmedLooksSafe

LEMMA CommandLooks ==
  ASSUME DisarmedLooksSafe, NEW r, HandleCommand(r)
  PROVE  DisarmedLooksSafe'
<1> USE DEF ScenarioCommand, RequireArmed, Received
<1>1. UNCHANGED status
  BY Zenon DEF HandleCommand, Query, StatusQuery, ArmOn, Disarm, Report, SetFlag, SetMode,
     SetBattery, SetGauge, SetRuntime, SetRuntimeAuto, SetStartDelay, Refused
<1>2. CASE Query(r) \/ Refused(r)
  BY <1>1, <1>2, KeptLooks, Zenon DEF Query, Refused, Return
<1>3. CASE StatusQuery(r) \/ Disarm(r) \/ Report(r)
  BY <1>1, <1>3, KeptLooks, Zenon DEF StatusQuery, Disarm, Report, Call
<1>4. CASE ArmOn(r)
  BY <1>1, <1>4, KeptLooks, Zenon DEF ArmOn
<1>5. CASE SetFlag(r) \/ SetMode(r) \/ SetBattery(r) \/ SetGauge(r)
  BY <1>1, <1>5, KeptLooks, Zenon DEF SetFlag, SetMode, SetBattery, SetGauge, Call
<1>6. CASE SetRuntime(r) \/ SetRuntimeAuto(r) \/ SetStartDelay(r)
  BY <1>1, <1>6, KeptLooks, Zenon DEF SetRuntime, SetRuntimeAuto, SetStartDelay, Call
<1> QED BY <1>2, <1>3, <1>4, <1>5, <1>6 DEF HandleCommand

(* The host never reads a discharge, a fault or a shutdown from a disarmed *)
(* simulator once the handler that disarmed it has published, whatever it  *)
(* writes itself.                                                          *)
THEOREM LooksSafeWhenDisarmed == Spec => []DisarmedLooksSafe
<1>1. Init => DisarmedLooksSafe
  <2> SUFFICES ASSUME Init PROVE DisarmedLooksSafe
    OBVIOUS
  <2>1. DisarmedIsSafe /\ ~armed
    BY Zenon DEF Init, DisarmedIsSafe
  <2>2. status = DerivedStatus(-1, 600)
    BY DEF Init
  <2>3. LooksSafe(status)
    BY <2>1, <2>2, SafeStatus
  <2> QED BY <2>3, Zenon DEF DisarmedLooksSafe, LooksSafe
<1>2. DisarmedIsSafe /\ DisarmedLooksSafe /\ [Next]_vars => DisarmedLooksSafe'
  <2> SUFFICES ASSUME DisarmedIsSafe, DisarmedLooksSafe, [Next]_vars
               PROVE  DisarmedLooksSafe'
    OBVIOUS
  <2>1. ASSUME NEW r \in Requests, HandleCommand(r) PROVE DisarmedLooksSafe'
    BY <2>1, CommandLooks
  <2>2. CASE LoopTop
    <3>1. UNCHANGED status /\ pc \notin {"model", "publish"}
      BY <2>2 DEF LoopTop
    <3>2. pc' = "model" \/ UNCHANGED armed
      BY <2>2, Zenon DEF LoopTop, Call, leaseVars
    <3>3. CASE armed
      BY <3>1, <3>2, <3>3, KeptLooks
    <3>4. CASE ~armed
      BY <3>1, <3>4, KeptLooks
    <3> QED BY <3>3, <3>4
  <2>3. CASE EndPoll \/ UpdateModel
    BY <2>3, KeptLooks, Zenon DEF EndPoll, UpdateModel, Call
  <2>4. CASE PublishStatus
    <3>1. CASE armed
      BY <2>4, <3>1, Zenon DEF PublishStatus, leaseVars, DisarmedLooksSafe
    <3>2. CASE ~armed
      <4>1. LooksSafe(status')
        BY <2>4, <3>2, SafeStatus DEF PublishStatus
      <4> QED BY <4>1, Zenon DEF DisarmedLooksSafe, LooksSafe
    <3> QED BY <3>1, <3>2
  <2>5. CASE SendUsbReports
    BY <2>5, KeptLooks, Zenon DEF SendUsbReports, leaseVars
  <2>6. ASSUME NEW w \in HostWrites, HostSetReport(w) PROVE DisarmedLooksSafe'
    BY <2>6, KeptLooks, Zenon DEF HostSetReport, leaseVars
  <2>7. CASE Tick
    BY <2>7, KeptLooks, Zenon DEF Tick
  <2>8. CASE UNCHANGED vars
    BY <2>8, KeptLooks, Zenon DEF vars
  <2> QED BY <2>1, <2>2, <2>3, <2>4, <2>5, <2>6, <2>7, <2>8 DEF Next, LoopStep
<1> QED BY <1>1, <1>2, DisarmedSafe, PTL DEF Spec

(* Neither a controller nor the host moves the simulated UPS while it is   *)
(* disarmed: what setSafeState() restored stays restored.                  *)
THEOREM DisarmedIsLocked == Spec => DisarmedRefusesChange
<1> DEFINE Locked == ~armed => UNCHANGED <<simVars, battery, runtime>>
<1>1. DisarmedIsSafe /\ DisarmedIsSafe' /\ [Next]_vars => [Locked]_vars
  <2> SUFFICES ASSUME DisarmedIsSafe, DisarmedIsSafe', Next, ~armed
               PROVE  UNCHANGED <<simVars, battery, runtime>>
    OBVIOUS
  <2>1. CASE ~armed'
    BY <2>1, Zenon DEF DisarmedIsSafe, simVars
  <2>2. CASE armed'
    <3>1. ~SetSafeState
      BY <2>2 DEF SetSafeState
    <3>2. ASSUME NEW r \in Requests, HandleCommand(r)
          PROVE  UNCHANGED <<simVars, battery, runtime>>
      BY <3>1, <3>2, GateHolds, Zenon
    <3>3. CASE LoopTop \/ Tick
      BY <3>1, <3>3, Zenon DEF LoopTop, Tick
    <3>4. CASE EndPoll \/ PublishStatus \/ SendUsbReports
      BY <3>4, Zenon DEF EndPoll, PublishStatus, SendUsbReports
    <3>5. CASE UpdateModel
      BY <2>2, <3>5 DEF UpdateModel, leaseVars
    <3>6. ASSUME NEW w \in HostWrites, HostSetReport(w)
          PROVE  UNCHANGED <<simVars, battery, runtime>>
      BY <2>2, <3>6 DEF HostSetReport, leaseVars
    <3> QED BY <3>2, <3>3, <3>4, <3>5, <3>6 DEF Next, LoopStep
  <2> QED BY <2>1, <2>2
<1> QED BY <1>1, DisarmedSafe, PTL DEF Spec, DisarmedRefusesChange

-----------------------------------------------------------------------------
(* In automatic mode the runtime is the one of the charge wherever the     *)
(* loop is, except on its way to updateModel(): every handler that moves   *)
(* either of them calls it.                                                *)
THEOREM RuntimeIsCharge == Spec => []RuntimeFollowsCharge
<1>1. Init => RuntimeFollowsCharge
  BY AutoRuntimeFacts, Zenon DEF Init, RuntimeFollowsCharge
<1>2. RuntimeFollowsCharge /\ [Next]_vars => RuntimeFollowsCharge'
  <2> SUFFICES ASSUME RuntimeFollowsCharge, [Next]_vars PROVE RuntimeFollowsCharge'
    OBVIOUS
  <2>1. ASSUME UNCHANGED <<runtimeAuto, runtime, battery>>,
               pc # "model" \/ pc' = "model"
        PROVE  RuntimeFollowsCharge'
    BY <2>1, Zenon DEF RuntimeFollowsCharge, AutoRuntime
  <2>2. ASSUME pc' = "model" PROVE RuntimeFollowsCharge'
    BY <2>2, Zenon DEF RuntimeFollowsCharge
  <2>3. ASSUME NEW r \in Requests, HandleCommand(r) PROVE RuntimeFollowsCharge'
    <3> USE DEF ScenarioCommand, Received
    <3>1. CASE Query(r) \/ ArmOn(r) \/ Refused(r)
      BY <2>1, <3>1, Zenon DEF Query, ArmOn, Refused, simVars
    <3>2. CASE StatusQuery(r) \/ Disarm(r) \/ Report(r)
      BY <2>2, <3>2, Zenon DEF StatusQuery, Disarm, Report, Call
    <3>3. CASE SetFlag(r) \/ SetMode(r) \/ SetBattery(r) \/ SetGauge(r)
      BY <2>2, <3>3, Zenon DEF SetFlag, SetMode, SetBattery, SetGauge, Call
    <3>4. CASE SetRuntime(r) \/ SetRuntimeAuto(r) \/ SetStartDelay(r)
      BY <2>2, <3>4, Zenon DEF SetRuntime, SetRuntimeAuto, SetStartDelay, Call
    <3> QED BY <2>3, <3>1, <3>2, <3>3, <3>4 DEF HandleCommand
  <2>4. CASE LoopTop
    BY <2>1, <2>2, <2>4, Zenon DEF LoopTop, Call, simVars
  <2>5. CASE EndPoll
    BY <2>2, <2>5, Zenon DEF EndPoll, Call
  <2>6. CASE UpdateModel
    BY <2>6, Zenon DEF UpdateModel, UpdatedRuntime, RuntimeFollowsCharge, AutoRuntime, simVars
  <2>7. CASE PublishStatus \/ SendUsbReports
    <3>1. pc # "model" /\ UNCHANGED <<runtimeAuto, runtime, battery>>
      BY <2>7 DEF PublishStatus, SendUsbReports, simVars
    <3> QED BY <2>1, <3>1, Zenon
  <2>8. ASSUME NEW w \in HostWrites, HostSetReport(w) PROVE RuntimeFollowsCharge'
    BY <2>1, <2>8 DEF HostSetReport, simVars
  <2>9. CASE Tick \/ UNCHANGED vars
    BY <2>1, <2>9 DEF Tick, vars, simVars
  <2> QED BY <2>3, <2>4, <2>5, <2>6, <2>7, <2>8, <2>9 DEF Next, LoopStep
<1> QED BY <1>1, <1>2, PTL DEF Spec

-----------------------------------------------------------------------------
(* The firmware implements the arming contract.                            *)

LEMMA UpdatedRuntimeType == ASSUME UpsType PROVE UpdatedRuntime \in UInt16
BY AutoRuntimeFacts, SMT DEF UpsType, UpdatedRuntime

LEMMA WorldType == TypeOK => World \in AllWorlds
<1> SUFFICES ASSUME TypeOK PROVE World \in AllWorlds
  OBVIOUS
<1>1. UpdatedRuntime \in UInt16
  BY UpdatedRuntimeType DEF TypeOK
<1>2. /\ flag \in [Flags -> BOOLEAN] /\ mode \in [Overrides -> {AUTO, OFF, ON}]
      /\ runtimeAuto \in BOOLEAN /\ battery \in 0 .. 100
      /\ gauge \in [Gauges -> UInt16]
  BY DEF TypeOK, UpsType
<1> QED BY <1>1, <1>2, Zenon DEF World, AllWorlds

LEMMA WorldKept ==
  ASSUME UNCHANGED <<simVars, battery, runtime>> PROVE World' = World
BY DEF World, UpdatedRuntime, AutoRuntime, simVars

LEMMA RestoredWorld == ASSUME SetSafeState PROVE World' = SafeWorld
<1>1. UpdatedRuntime' = AvgTimeToEmpty
  BY AutoRuntimeFacts, Zenon DEF SetSafeState, RestoreScenario, UpdatedRuntime, AutoRuntime
<1> QED BY <1>1 DEF SetSafeState, RestoreScenario, World, SafeWorld

LEMMA RestoreStep == ASSUME SetSafeState PROVE Contract!Restore
BY RestoredWorld DEF SetSafeState, Contract!Restore

(* a line other than ARM and RESET is a use of the armed simulator, or     *)
(* nothing at all                                                          *)
LEMMA UseStep ==
  ASSUME (World \in AllWorlds)', RefreshedLease, UNCHANGED <<armed, lease>>,
         armed \/ UNCHANGED <<simVars, battery, runtime>>
  PROVE  Contract!Use \/ UNCHANGED Contract!vars
<1>1. CASE armed
  BY <1>1 DEF RefreshedLease, Contract!Use
<1>2. CASE ~armed
  BY <1>2, WorldKept DEF RefreshedLease, Contract!vars
<1> QED BY <1>1, <1>2

LEMMA CommandStep ==
  ASSUME (World \in AllWorlds)', NEW r, HandleCommand(r)
  PROVE  Contract!Next \/ UNCHANGED Contract!vars
<1> USE DEF ScenarioCommand, RequireArmed
<1>1. CASE Query(r) \/ StatusQuery(r) \/ Report(r) \/ Refused(r)
  BY <1>1, UseStep DEF Query, StatusQuery, Report, Refused, Contract!Next
<1>2. CASE ArmOn(r)
  <2>1. lease' \in Nat
    BY <1>2, ClockAssumption, SMT DEF ArmOn, LeaseAccepted
  <2> QED BY <1>2, <2>1, WorldKept DEF ArmOn, Contract!Arm, Contract!Next
<1>3. CASE Disarm(r)
  BY <1>3, RestoreStep DEF Disarm, Contract!Next
<1>4. CASE SetFlag(r) \/ SetMode(r) \/ SetBattery(r) \/ SetGauge(r)
  BY <1>4, UseStep DEF SetFlag, SetMode, SetBattery, SetGauge, Contract!Next
<1>5. CASE SetRuntime(r) \/ SetRuntimeAuto(r) \/ SetStartDelay(r)
  BY <1>5, UseStep DEF SetRuntime, SetRuntimeAuto, SetStartDelay, Contract!Next
<1> QED BY <1>1, <1>2, <1>3, <1>4, <1>5 DEF HandleCommand

LEMMA KeptStep ==
  ASSUME UNCHANGED leaseVars, World' = World PROVE UNCHANGED Contract!vars
BY DEF leaseVars, Contract!vars

LEMMA UpdateKeepsWorld == ASSUME UpdateModel PROVE World' = World
<1>1. UpdatedRuntime' = UpdatedRuntime
  BY Zenon DEF UpdateModel, UpdatedRuntime, AutoRuntime, simVars
<1> QED BY <1>1 DEF UpdateModel, World, simVars

LEMMA TickStep ==
  ASSUME LeaseInv, LeaseBound', Tick PROVE Contract!Next \/ UNCHANGED Contract!vars
<1>1. World' = World
  BY WorldKept DEF Tick
<1>2. CASE Running
  <2>1. idle' = idle + 1 /\ UNCHANGED <<armed, lease>>
    BY <1>2 DEF Tick, Running
  <2>2. idle' < lease + MaxLoop
    BY <1>2, <2>1 DEF LeaseBound, Running
  <2> QED BY <1>1, <1>2, <2>1, <2>2 DEF Running, Contract!Elapse, Contract!Next
<1>3. CASE ~Running
  BY <1>1, <1>3 DEF LeaseInv, Running, Tick, Contract!vars
<1> QED BY <1>2, <1>3

(* Every behaviour of the firmware is one of the arming contract: its      *)
(* scenario moves only while armed, arming does not disturb it, disarming  *)
(* restores it in the same step, and the lease bounds its age by a pass of *)
(* loop() more than the lease.                                             *)
THEOREM FirmwareImplementsContract == Spec => ImplementsContract
<1>1. Init => Contract!Init
  <2> SUFFICES ASSUME Init PROVE Contract!Init
    OBVIOUS
  <2>1. UpdatedRuntime = AvgTimeToEmpty
    BY AutoRuntimeFacts, Zenon DEF Init, UpdatedRuntime
  <2>2. World = SafeWorld
    BY <2>1 DEF Init, World, SafeWorld
  <2> QED BY <2>2 DEF Init, Contract!Init
<1>2. /\ (World \in AllWorlds)' /\ LeaseInv /\ LeaseBound' /\ [Next]_vars
      => [Contract!Next]_(Contract!vars)
  <2> SUFFICES ASSUME (World \in AllWorlds)', LeaseInv, LeaseBound', [Next]_vars
               PROVE  Contract!Next \/ UNCHANGED Contract!vars
    OBVIOUS
  <2>1. ASSUME NEW r \in Requests, HandleCommand(r)
        PROVE  Contract!Next \/ UNCHANGED Contract!vars
    BY <2>1, CommandStep
  <2>2. CASE LoopTop
    BY <2>2, RestoreStep, KeptStep, WorldKept DEF LoopTop, Contract!Next
  <2>3. CASE EndPoll \/ PublishStatus \/ SendUsbReports
    BY <2>3, KeptStep, WorldKept DEF EndPoll, PublishStatus, SendUsbReports
  <2>4. CASE UpdateModel
    BY <2>4, KeptStep, UpdateKeepsWorld DEF UpdateModel
  <2>5. ASSUME NEW w \in HostWrites, HostSetReport(w)
        PROVE  Contract!Next \/ UNCHANGED Contract!vars
    BY <2>5, KeptStep, WorldKept DEF HostSetReport
  <2>6. CASE Tick
    BY <2>6, TickStep
  <2>7. CASE UNCHANGED vars
    BY <2>7, KeptStep, WorldKept DEF vars, leaseVars, simVars
  <2> QED BY <2>1, <2>2, <2>3, <2>4, <2>5, <2>6, <2>7 DEF Next, LoopStep
<1> QED BY <1>1, <1>2, LeaseInvariant, LeaseIsBounded, WorldType, PTL
       DEF Spec, ImplementsContract, Contract!Spec

=============================================================================
