------------------------ MODULE FirmwareMirrorProofs ------------------------
(***************************************************************************)
(* The firmware mirrors the Python simulator for all values of the         *)
(* constants, and for every line that a controller may send.               *)
(***************************************************************************)
EXTENDS FirmwareMirror, FirmwareProofs

-----------------------------------------------------------------------------
(* Lemmas about the mapping.                                               *)

SwitchMap(f) == [ac_present |-> f["acPresent"], overload |-> f["overload"],
                 need_replacement |-> f["needReplacement"],
                 communication_lost |-> f["communicationLost"],
                 shutdown_requested |-> f["shutdownRequested"]]
OverrideMap(m) == [charging |-> m["charging"], low_battery |-> m["lowBattery"]]
LevelMap(g) == [load |-> g["load"], voltage |-> g["voltage"],
                input |-> g["inputVoltage"], output |-> g["outputVoltage"]]
DelayMap(h) == [start |-> h["delayStartup"], shutdown |-> h["delayShutdown"],
                reboot |-> h["delayReboot"]]

Silent == IF armed /\ lease # 0 THEN Since(now, lastCommand) ELSE 0

LEMMA SameRuntime == \A charge : Sim!AutoRuntime(charge) = AutoRuntime(charge)
BY DEF Sim!AutoRuntime, AutoRuntime, Sim!AVG_TIME_TO_EMPTY, Sim!FULL_CHARGE_CAPACITY,
       AvgTimeToEmpty, FullChargeCapacity

(* The limits the simulator has as constants, and the sample of the loop   *)
(* against its clock.                                                      *)
MirrorInv ==
  /\ host["remainTimeLimit"] = 600 /\ host["remnCapacityLimit"] = 5
  /\ pc # "loop" => now = clock
  /\ Since(clock, now) <= MaxLoop
  /\ armed /\ lease # 0 => Since(now, lastCommand) < lease

SimStatus == Sim!StatusFrom(armed, SwitchMap(flag), OverrideMap(mode), battery, MirrorRuntime,
                            host["delayShutdown"])

LEMMA StatusMaps == TypeOK /\ MirrorInv => MirrorStatus = SimStatus
<1> SUFFICES ASSUME TypeOK, MirrorInv PROVE MirrorStatus = SimStatus
  OBVIOUS
<1> DEFINE s == DerivedStatus(host["delayShutdown"], host["remainTimeLimit"])
           t == SimStatus
           expired == s.discharging /\ MirrorRuntime <= host["remainTimeLimit"]
<1>1. t.discharging = s.discharging
  BY DEF DerivedStatus, SimStatus, Sim!StatusFrom, SwitchMap
<1>2. t.charging = s.charging
  BY DEF DerivedStatus, SimStatus, Sim!StatusFrom, SwitchMap, OverrideMap, Override, Sim!Forced,
         AUTO, ON, Sim!Automatic, Sim!On, FullChargeCapacity, Sim!FULL_CHARGE_CAPACITY
<1>3. t.below_remaining_capacity_limit = s.lowBattery
  BY DEF DerivedStatus, SimStatus, Sim!StatusFrom, OverrideMap, Override, Sim!Forced,
         AUTO, ON, Sim!Automatic, Sim!On, Sim!LOW_BATTERY_LIMIT, MirrorInv
<1>4. t.remaining_time_limit_expired = expired
  BY DEF DerivedStatus, SimStatus, Sim!StatusFrom, SwitchMap, Sim!REMAIN_TIME_LIMIT, MirrorInv
<1>5. /\ t.ac_present = s.acPresent /\ t.need_replacement = s.needReplacement
      /\ t.communication_lost = s.communicationLost /\ t.overload = s.overload
      /\ t.fully_discharged = s.fullyDischarged
  BY DEF DerivedStatus, SimStatus, Sim!StatusFrom, SwitchMap
<1>6. t.fully_charged = s.fullyCharged
  BY DEF DerivedStatus, SimStatus, Sim!StatusFrom, FullChargeCapacity, Sim!FULL_CHARGE_CAPACITY
<1>7. t.shutdown_requested = s.shutdownRequested
  BY DEF DerivedStatus, SimStatus, Sim!StatusFrom, SwitchMap, ShutdownWanted
<1>8. t.shutdown_imminent = (t.shutdown_requested \/ t.remaining_time_limit_expired)
  BY DEF SimStatus, Sim!StatusFrom
<1>9. t = [charging |-> t.charging, discharging |-> t.discharging, ac_present |-> t.ac_present,
           below_remaining_capacity_limit |-> t.below_remaining_capacity_limit,
           remaining_time_limit_expired |-> t.remaining_time_limit_expired,
           need_replacement |-> t.need_replacement, fully_charged |-> t.fully_charged,
           fully_discharged |-> t.fully_discharged, shutdown_requested |-> t.shutdown_requested,
           shutdown_imminent |-> t.shutdown_imminent,
           communication_lost |-> t.communication_lost, overload |-> t.overload]
  BY DEF SimStatus, Sim!StatusFrom
<1> HIDE DEF s, t
<1> QED BY <1>1, <1>2, <1>3, <1>4, <1>5, <1>6, <1>7, <1>8, <1>9, Zenon DEF MirrorStatus, s, t

(* a state in which the mapped status is the one the simulator derives *)
MapsRight == MirrorStatus = SimStatus

LEMMA UpdateFollows == MapsRight' => Sim!UpdateModel
<1> SUFFICES ASSUME MapsRight' PROVE Sim!UpdateModel
  OBVIOUS
<1>1. MirrorStatus' = Sim!StatusFrom(armed', SwitchMap(flag'), OverrideMap(mode'), battery',
                                     MirrorRuntime', host'["delayShutdown"])
  BY DEF MapsRight, SimStatus
<1>2. DelayMap(host').shutdown = host'["delayShutdown"]
  BY DEF DelayMap
<1> QED BY <1>1, <1>2, Zenon DEF Sim!UpdateModel, SwitchMap, OverrideMap, DelayMap

(* Python's % against the subtraction of unsigned numbers *)
LEMMA ElapsedIsSince ==
  ASSUME NEW t \in 0 .. ClockWrap - 1, NEW u \in 0 .. ClockWrap - 1
  PROVE  (t - u) % ClockWrap = Since(t, u)
<1>1. ClockWrap \in Nat \ {0}
  BY ClockAssumption
<1>2. \A w \in Nat \ {0} : \A x \in Int :
        (x \in 0 .. w - 1 => x % w = x) /\ (x \in -w .. -1 => x % w = x + w)
  OBVIOUS
<1>3. CASE t >= u
  <2>1. t - u \in Int /\ t - u \in 0 .. ClockWrap - 1
    BY <1>1, <1>3
  <2> QED BY <1>1, <1>2, <1>3, <2>1 DEF Since
<1>4. CASE t < u
  <2>1. t - u \in Int /\ t - u \in -ClockWrap .. -1 /\ ~(t >= u)
    BY <1>1, <1>4
  <2> QED BY <1>1, <1>2, <1>4, <2>1 DEF Since
<1> QED BY <1>1, <1>3, <1>4

(* advance() by the time since the last sample leads to the clock *)
LEMMA AdvanceReaches ==
  ASSUME NEW t \in 0 .. ClockWrap - 1, NEW u \in 0 .. ClockWrap - 1
  PROVE  (u + Since(t, u)) % ClockWrap = t
<1>1. ClockWrap \in Nat \ {0}
  BY ClockAssumption
<1>2. \A w \in Nat \ {0} : \A x \in Int :
        (x \in 0 .. w - 1 => x % w = x) /\ (x \in w .. w + w - 1 => x % w = x - w)
  OBVIOUS
<1>3. CASE t >= u
  <2>1. u + Since(t, u) = t /\ t \in Int
    BY <1>1, <1>3 DEF Since
  <2> QED BY <1>1, <1>2, <2>1
<1>4. CASE t < u
  <2>1. u + Since(t, u) = t + ClockWrap
    BY <1>1, <1>4 DEF Since
  <2>2. t + ClockWrap \in Int /\ t + ClockWrap \in ClockWrap .. ClockWrap + ClockWrap - 1
        /\ (t + ClockWrap) - ClockWrap = t
    BY <1>1
  <2> QED BY <1>1, <1>2, <2>1, <2>2
<1> QED BY <1>1, <1>3, <1>4

(* times that do not add up to a turn of the clock do add up *)
LEMMA SinceAdds ==
  ASSUME NEW t \in 0 .. ClockWrap - 1, NEW u \in 0 .. ClockWrap - 1, NEW v \in 0 .. ClockWrap - 1,
         Since(u, v) + Since(t, u) < ClockWrap
  PROVE  Since(t, v) = Since(u, v) + Since(t, u)
BY ClockAssumption, SMT DEF Since

-----------------------------------------------------------------------------
(* The invariant.                                                          *)

LEMMA TimesType ==
  TypeOK => /\ clock \in 0 .. ClockWrap - 1 /\ now \in 0 .. ClockWrap - 1
            /\ lastCommand \in 0 .. ClockWrap - 1 /\ lease \in Nat /\ lease <= ArmMaxLease
BY ClockAssumption DEF TypeOK, LoopType, GateType

LEMMA InitMirror == Init => MirrorInv
<1> SUFFICES ASSUME Init PROVE MirrorInv
  OBVIOUS
<1>1. Since(clock, now) = 0
  BY ClockAssumption DEF Init, Since
<1>2. host["remainTimeLimit"] = 600 /\ host["remnCapacityLimit"] = 5
  BY DEF Init, PowerOnHost
<1> QED BY <1>1, <1>2, ClockAssumption DEF Init, MirrorInv

(* the limits are not among the Features that the loop writes *)
LEMMA LimitsKept ==
  ASSUME TypeOK,
         host' = host \/ SetSafeState
         \/ \E x : host' = [host EXCEPT !["delayStartup"] = x]
  PROVE  /\ host'["remainTimeLimit"] = host["remainTimeLimit"]
         /\ host'["remnCapacityLimit"] = host["remnCapacityLimit"]
<1>1. /\ "remainTimeLimit" \in HostFeatures /\ "remnCapacityLimit" \in HostFeatures
      /\ "remainTimeLimit" \notin Delays /\ "remnCapacityLimit" \notin Delays
  BY DEF HostFeatures, Delays
<1>2. host \in [HostFeatures -> Int]
  BY DEF TypeOK, HostType
<1>3. CASE host' = host
  BY <1>3
<1>4. CASE SetSafeState
  BY <1>1, <1>4 DEF SetSafeState
<1>5. CASE \E x : host' = [host EXCEPT !["delayStartup"] = x]
  BY <1>1, <1>2, <1>5
<1> QED BY <1>3, <1>4, <1>5

(* What every handler does to the gate: it refreshes the lease, takes a    *)
(* new one, or disarms.                                                    *)
LEMMA HandlerFacts ==
  ASSUME NEW r \in Requests, HandleCommand(r)
  PROVE  /\ pc = "poll" /\ pc' \in {"poll", "model"} /\ UNCHANGED <<status, seen, timeVars>>
         /\ \/ RefreshedLease /\ UNCHANGED <<armed, lease>>
            \/ lastCommand' = clock
            \/ SetSafeState
         /\ \/ host' = host \/ SetSafeState
            \/ \E x : host' = [host EXCEPT !["delayStartup"] = x]
BY DEF HandleCommand, Received, Query, StatusQuery, ArmOn, Disarm, Report, ScenarioCommand, SetFlag,
       SetMode, SetBattery, SetGauge, SetRuntime, SetRuntimeAuto, SetStartDelay, Refused, Call, Return

LEMMA CommandMirror ==
  ASSUME TypeOK, TypeOK', MirrorInv, NEW r \in Requests, HandleCommand(r)
  PROVE  MirrorInv'
<1>1. pc = "poll" /\ UNCHANGED timeVars
  BY HandlerFacts
<1>2. now = clock /\ now' = clock' /\ clock' = clock /\ now' = now
  BY <1>1 DEF MirrorInv, timeVars
<1>3. host'["remainTimeLimit"] = 600 /\ host'["remnCapacityLimit"] = 5
  BY HandlerFacts, LimitsKept DEF MirrorInv
<1>4. Since(clock', now') <= MaxLoop
  BY <1>2 DEF MirrorInv
<1>5. ASSUME armed', lease' # 0 PROVE Since(now', lastCommand') < lease'
  <2>1. lease' \in Nat /\ lease' > 0
    BY <1>5 DEF TypeOK, GateType
  <2>2. Since(clock, clock) = 0
    BY TimesType, SinceFacts
  <2>3. CASE lastCommand' = clock
    BY <1>2, <2>1, <2>2, <2>3
  <2>4. CASE RefreshedLease /\ UNCHANGED <<armed, lease>>
    BY <1>5, <2>3, <2>4 DEF RefreshedLease
  <2>5. ~SetSafeState
    BY <1>5 DEF SetSafeState
  <2> QED BY <2>3, <2>4, <2>5, HandlerFacts
<1> QED BY <1>2, <1>3, <1>4, <1>5 DEF MirrorInv

LEMMA NextMirror ==
  ASSUME TypeOK, TypeOK', MirrorInv, [PromptNext]_vars
  PROVE  MirrorInv'
<1>1. ASSUME NEW r \in Requests, HandleCommand(r) PROVE MirrorInv'
  BY <1>1, CommandMirror
<1>2. CASE LoopTop
  <2>1. now' = clock /\ clock' = clock
    BY <1>2 DEF LoopTop
  <2>2. host'["remainTimeLimit"] = 600 /\ host'["remnCapacityLimit"] = 5
    BY <1>2, LimitsKept DEF MirrorInv, LoopTop
  <2>3. Since(clock', now') <= MaxLoop
    BY <2>1, TimesType, SinceFacts, ClockAssumption
  <2>4. ASSUME armed', lease' # 0 PROVE Since(now', lastCommand') < lease'
    <3>1. ~SetSafeState
      BY <2>4 DEF SetSafeState
    <3>2. ~LeaseExpired /\ UNCHANGED leaseVars
      BY <1>2, <3>1 DEF LoopTop
    <3>3. Since(clock, lastCommand) \in Int /\ lease \in Nat
      BY TimesType, SinceFacts
    <3> QED BY <2>1, <2>4, <3>2, <3>3 DEF LeaseExpired, leaseVars
  <2> QED BY <2>1, <2>2, <2>3, <2>4 DEF MirrorInv
<1>3. CASE EndPoll \/ UpdateModel \/ PublishStatus \/ SendUsbReports
  <2>1. UNCHANGED <<armed, lease, lastCommand, host, clock, now>> /\ pc # "loop"
    BY <1>3 DEF EndPoll, UpdateModel, PublishStatus, SendUsbReports, leaseVars, timeVars
  <2> QED BY <2>1 DEF MirrorInv
<1>4. CASE Tick
  <2>1. UNCHANGED <<armed, lease, lastCommand, host, now, pc>>
    BY <1>4 DEF Tick
  <2>2. pc # "loop" => now' = clock'
    BY <1>4, <2>1 DEF PromptNext, MirrorInv, Tick, vars
  <2>3. Since(clock', now') <= MaxLoop
    <3>1. Since(clock, now) \in Nat /\ Since(clock, now) + 1 <= MaxLoop /\ MaxLoop < ClockWrap
      BY <1>4, TimesType, SinceFacts, ClockAssumption DEF Tick
    <3>2. Since(IF clock + 1 = ClockWrap THEN 0 ELSE clock + 1, now) = Since(clock, now) + 1
      BY <3>1, TimesType, SinceTick, ClockAssumption
    <3> QED BY <1>4, <2>1, <3>1, <3>2 DEF Tick
  <2> QED BY <2>1, <2>2, <2>3 DEF MirrorInv
<1>5. CASE UNCHANGED vars
  BY <1>5 DEF vars, MirrorInv
<1>6. ~ \E w \in HostWrites : HostSetReport(w)
  BY MirrorAssumption
<1> QED BY <1>1, <1>2, <1>3, <1>4, <1>5, <1>6 DEF PromptNext, Next, LoopStep
-----------------------------------------------------------------------------
(* The commands, one operation of the simulator each.                      *)

(* a line refreshes the lease of either *)
LEMMA RefreshStep ==
  ASSUME TypeOK, MirrorInv, pc = "poll", RefreshedLease, UNCHANGED <<armed, lease, clock, now>>
  PROVE  Sim!Refresh
<1>1. now = clock
  BY DEF MirrorInv
<1>2. Since(now, now) = 0
  BY TimesType, SinceFacts
<1>3. CASE armed
  BY <1>1, <1>2, <1>3 DEF RefreshedLease, Sim!Refresh
<1>4. CASE ~armed
  BY <1>4 DEF RefreshedLease, Sim!Refresh
<1> QED BY <1>3, <1>4

LEMMA KeptRuntime ==
  ASSUME UNCHANGED <<runtimeAuto, runtime, battery>>
  PROVE  MirrorRuntime' = MirrorRuntime
BY DEF MirrorRuntime, AutoRuntime

LEMMA KeptStatus ==
  ASSUME UNCHANGED <<armed, flag, mode, runtimeAuto, battery, runtime, host>>
  PROVE  MirrorStatus' = MirrorStatus
<1>1. MirrorRuntime' = MirrorRuntime
  BY KeptRuntime
<1>2. /\ armed' = armed /\ flag' = flag /\ mode' = mode /\ battery' = battery
      /\ runtime' = runtime /\ host' = host
  OBVIOUS
<1> QED BY <1>1, <1>2, SMT DEF MirrorStatus, DerivedStatus, Override, ShutdownWanted

LEMMA RuntimeStays ==
  MirrorRuntime = Sim!RuntimeAfter(runtimeAuto, MirrorRuntime, battery)
BY SameRuntime, Zenon DEF MirrorRuntime, Sim!RuntimeAfter

(* the two tables of operations accept the same lines *)
LEMMA SameTables ==
  /\ DOMAIN FlagOf = {"AC", "OVERLOAD", "REPLACE", "COMMLOST", "SHUTDOWN"}
  /\ DOMAIN Sim!SwitchOf = {"AC", "OVERLOAD", "REPLACE", "COMMLOST", "SHUTDOWN"}
  /\ DOMAIN ModeOf = {"CHARGING", "LOWBAT"}
  /\ DOMAIN Sim!OverrideOf = {"CHARGING", "LOWBAT"}
  /\ DOMAIN GaugeOf = {"LOAD", "VOLTAGE", "INPUTVOLTAGE", "OUTPUTVOLTAGE"}
  /\ DOMAIN Sim!LevelOf = {"LOAD", "VOLTAGE", "INPUTVOLTAGE", "OUTPUTVOLTAGE"}
<1>1. /\ DOMAIN FlagOf = {"AC", "OVERLOAD", "REPLACE", "COMMLOST", "SHUTDOWN"}
      /\ DOMAIN Sim!SwitchOf = {"AC", "OVERLOAD", "REPLACE", "COMMLOST", "SHUTDOWN"}
  BY DEF FlagOf, Sim!SwitchOf
<1>2. /\ DOMAIN ModeOf = {"CHARGING", "LOWBAT"}
      /\ DOMAIN Sim!OverrideOf = {"CHARGING", "LOWBAT"}
  BY DEF ModeOf, Sim!OverrideOf
<1>3. /\ DOMAIN GaugeOf = {"LOAD", "VOLTAGE", "INPUTVOLTAGE", "OUTPUTVOLTAGE"}
      /\ DOMAIN Sim!LevelOf = {"LOAD", "VOLTAGE", "INPUTVOLTAGE", "OUTPUTVOLTAGE"}
  BY DEF GaugeOf, Sim!LevelOf
<1> QED BY <1>1, <1>2, <1>3

LEMMA SameConstants ==
  /\ Sim!Off = OFF /\ Sim!On = ON /\ Sim!Automatic = AUTO /\ Sim!Absent = NoToken
  /\ Sim!UInt16 = UInt16 /\ Sim!StartDelays = StartDelays
<1>1. Sim!Off = OFF /\ Sim!On = ON /\ Sim!Automatic = AUTO /\ Sim!Absent = NoToken
  BY DEF Sim!Off, OFF, Sim!On, ON, Sim!Automatic, AUTO, Sim!Absent, NoToken
<1>2. Sim!UINT16_MAX = UINT16_MAX /\ Sim!INT16_MAX = INT16_MAX
  BY DEF Sim!UINT16_MAX, UINT16_MAX, Sim!INT16_MAX, INT16_MAX
<1>3. Sim!UInt16 = UInt16 /\ Sim!StartDelays = StartDelays
  BY <1>2, Zenon DEF Sim!UInt16, UInt16, Sim!StartDelays, StartDelays
<1> QED BY <1>1, <1>3, Zenon

LEMMA GaugeRanges ==
  /\ GaugeRange(GaugeOf["LOAD"]) = 0 .. 100
  /\ \A op \in {"VOLTAGE", "INPUTVOLTAGE", "OUTPUTVOLTAGE"} : GaugeRange(GaugeOf[op]) = UInt16
<1>1. /\ GaugeOf["LOAD"] = "load" /\ GaugeOf["VOLTAGE"] # "load"
      /\ GaugeOf["INPUTVOLTAGE"] # "load" /\ GaugeOf["OUTPUTVOLTAGE"] # "load"
  BY DEF GaugeOf
<1> QED BY <1>1, Zenon DEF GaugeRange

LEMMA SameLines == ASSUME NEW r PROVE Sim!Parses(r) <=> Accepted(r)
<1>1. r.op \in DOMAIN Sim!SwitchOf /\ r.arg \in {Sim!Off, Sim!On}
      <=> r.op \in DOMAIN FlagOf /\ r.arg \in {OFF, ON}
  BY SameTables, SameConstants
<1>2. r.op \in DOMAIN Sim!OverrideOf /\ r.arg \in {Sim!Automatic, Sim!Off, Sim!On}
      <=> r.op \in DOMAIN ModeOf /\ r.arg \in {AUTO, OFF, ON}
  BY SameTables, SameConstants
<1>3. \/ r.op = "LOAD" /\ r.arg \in 0 .. 100
      \/ r.op \in {"VOLTAGE", "INPUTVOLTAGE", "OUTPUTVOLTAGE"} /\ r.arg \in UInt16
      <=> r.op \in DOMAIN GaugeOf /\ r.arg \in GaugeRange(GaugeOf[r.op])
  BY SameTables, GaugeRanges, Zenon
<1> QED BY <1>1, <1>2, <1>3, SameConstants, Zenon DEF Sim!Parses, Accepted

LEMMA AnswerStep ==
  ASSUME TypeOK, MirrorInv, NEW r, Query(r) \/ Refused(r)
  PROVE  Sim!Answer(r)
<1>1. /\ pc = "poll" /\ RefreshedLease
      /\ UNCHANGED <<armed, lease, simVars, battery, runtime, host, clock, now>>
  BY DEF Query, Refused, Received, timeVars
<1>2. Sim!Refresh
  BY <1>1, RefreshStep
<1>3. UNCHANGED <<now, armed, lease, Sim!ScenarioVars, MirrorStatus>>
  BY <1>1, KeptRuntime, KeptStatus DEF simVars, Sim!ScenarioVars
<1>4. \/ Sim!ReadOnly(r)
      \/ r.op = "ARM" /\ r.arg \notin {Sim!Off, Sim!On}
      \/ r.op = "ARM" /\ r.arg = Sim!On /\ Sim!LeaseArgument(r) \notin 0 .. ArmMaxLease
      \/ /\ ~Sim!ReadOnly(r) /\ r.op \notin {"STATUS?", "STATUS", "ARM", "RESET", "REPORT"}
         /\ ~armed \/ ~Sim!Parses(r)
  <2>1. CASE Query(r)
    BY <2>1 DEF Query, Sim!ReadOnly
  <2>2. CASE Refused(r)
    <3>1. Sim!LeaseArgument(r) = LeaseOf(r) /\ Sim!Off = OFF /\ Sim!On = ON
      BY SameConstants DEF Sim!LeaseArgument, LeaseOf
    <3>2. ~Ungated(r) => /\ ~Sim!ReadOnly(r)
                         /\ r.op \notin {"STATUS?", "STATUS", "ARM", "RESET", "REPORT"}
      BY DEF Ungated, Sim!ReadOnly
    <3> QED BY <2>2, <3>1, <3>2, SameLines, Zenon DEF Refused, LeaseAccepted
  <2> QED BY <2>1, <2>2
<1> QED BY <1>2, <1>3, <1>4 DEF Sim!Answer

LEMMA RecomputeStep ==
  ASSUME TypeOK, MirrorInv, MapsRight', NEW r, StatusQuery(r) \/ Report(r)
  PROVE  Sim!Recompute(r)
<1>1. /\ pc = "poll" /\ RefreshedLease /\ r.op \in {"STATUS?", "STATUS", "REPORT"}
      /\ UNCHANGED <<armed, lease, simVars, battery, runtime, host, clock, now>>
  BY DEF StatusQuery, Report, Received, timeVars
<1>2. Sim!Refresh
  BY <1>1, RefreshStep
<1>3. MirrorRuntime' = Sim!RuntimeAfter(runtimeAuto, MirrorRuntime, battery)
  BY <1>1, KeptRuntime, RuntimeStays DEF simVars
<1> QED BY <1>1, <1>2, <1>3, UpdateFollows DEF Sim!Recompute, simVars

LEMMA ArmStep ==
  ASSUME TypeOK, MirrorInv, MapsRight', NEW r, ArmOn(r)
  PROVE  Sim!Arm(r)
<1>1. /\ pc = "poll" /\ r.op = "ARM" /\ r.arg = ON /\ LeaseAccepted(LeaseOf(r))
      /\ armed' = TRUE /\ lease' = LeaseOf(r) /\ lastCommand' = clock
      /\ UNCHANGED <<simVars, battery, runtime, host, clock, now>>
  BY DEF ArmOn, Received, timeVars
<1>2. now = clock
  BY <1>1 DEF MirrorInv
<1>3. Since(now, now) = 0
  BY TimesType, SinceFacts
<1>4. MirrorRuntime' = Sim!RuntimeAfter(runtimeAuto, MirrorRuntime, battery)
  BY <1>1, KeptRuntime, RuntimeStays DEF simVars
<1>5. Sim!LeaseArgument(r) = LeaseOf(r) /\ Sim!On = ON
  BY DEF Sim!LeaseArgument, LeaseOf, Sim!Absent, NoToken, Sim!On, ON
<1> QED BY <1>1, <1>2, <1>3, <1>4, <1>5, UpdateFollows
        DEF Sim!Arm, simVars, LeaseAccepted

(* what setSafeState() and _set_safe_state() restore is the same *)
LEMMA SafeStep ==
  ASSUME SetSafeState PROVE Sim!SetSafeState
<1>1. SwitchMap(SafeFlag) = Sim!SafeSwitch
  BY DEF SwitchMap, SafeFlag, Flags, Sim!SafeSwitch, Sim!Switches
<1>2. OverrideMap(SafeMode) = Sim!SafeOverride
  BY DEF OverrideMap, SafeMode, Overrides, Sim!SafeOverride, AUTO, Sim!Automatic
<1>3. LevelMap(SafeGauge) = Sim!SafeLevel
  BY DEF LevelMap, SafeGauge, Sim!SafeLevel
<1>4. DelayMap(host') = Sim!NoDelay
  BY DEF SetSafeState, DelayMap, HostFeatures, Delays, NoDelay, Sim!NoDelay
<1>5. MirrorRuntime' = Sim!AVG_TIME_TO_EMPTY
  <2>1. /\ runtimeAuto' = TRUE /\ battery' = FullChargeCapacity
        /\ Sim!AVG_TIME_TO_EMPTY = AvgTimeToEmpty
    BY DEF SetSafeState, RestoreScenario, Sim!AVG_TIME_TO_EMPTY, AvgTimeToEmpty
  <2>2. MirrorRuntime' = AutoRuntime(FullChargeCapacity)
    BY <2>1, Zenon DEF MirrorRuntime, AutoRuntime
  <2> QED BY <2>1, <2>2, AutoRuntimeFacts, Zenon
<1>6. /\ flag' = SafeFlag /\ mode' = SafeMode /\ gauge' = SafeGauge /\ runtimeAuto' = TRUE
      /\ battery' = 100 /\ armed' = FALSE /\ lease' = 0 /\ lastCommand' = 0
  BY DEF SetSafeState, RestoreScenario, FullChargeCapacity
<1>7. Sim!Restore
  BY <1>1, <1>2, <1>3, <1>4, <1>5, <1>6, Zenon
     DEF Sim!Restore, SwitchMap, OverrideMap, LevelMap, DelayMap
<1> QED BY <1>6, <1>7 DEF Sim!SetSafeState

LEMMA DisarmStep ==
  ASSUME MapsRight', NEW r, Disarm(r) PROVE Sim!Disarm(r)
<1>1. /\ r.op = "RESET" \/ (r.op = "ARM" /\ r.arg = OFF)
      /\ SetSafeState /\ now' = now /\ ~armed'
  BY DEF Disarm, Received, timeVars, SetSafeState
<1> QED BY <1>1, SafeStep, UpdateFollows DEF Sim!Disarm, OFF, Sim!Off

-----------------------------------------------------------------------------
(* The scenario commands: one assignment in each of the two programs.      *)

LEMMA FlagStep ==
  ASSUME flag \in [Flags -> BOOLEAN], NEW op \in DOMAIN FlagOf, NEW b \in BOOLEAN
  PROVE  SwitchMap([flag EXCEPT ![FlagOf[op]] = b]) = [SwitchMap(flag) EXCEPT ![Sim!SwitchOf[op]] = b]
<1>1. CASE op = "AC"
  BY <1>1 DEF SwitchMap, FlagOf, Sim!SwitchOf, Flags
<1>2. CASE op = "OVERLOAD"
  BY <1>2 DEF SwitchMap, FlagOf, Sim!SwitchOf, Flags
<1>3. CASE op = "REPLACE"
  BY <1>3 DEF SwitchMap, FlagOf, Sim!SwitchOf, Flags
<1>4. CASE op = "COMMLOST"
  BY <1>4 DEF SwitchMap, FlagOf, Sim!SwitchOf, Flags
<1>5. CASE op = "SHUTDOWN"
  BY <1>5 DEF SwitchMap, FlagOf, Sim!SwitchOf, Flags
<1> QED BY <1>1, <1>2, <1>3, <1>4, <1>5, SameTables

LEMMA ModeStep ==
  ASSUME mode \in [Overrides -> {AUTO, OFF, ON}], NEW op \in DOMAIN ModeOf, NEW m
  PROVE  OverrideMap([mode EXCEPT ![ModeOf[op]] = m])
           = [OverrideMap(mode) EXCEPT ![Sim!OverrideOf[op]] = m]
<1>1. CASE op = "CHARGING"
  BY <1>1 DEF OverrideMap, ModeOf, Sim!OverrideOf, Overrides
<1>2. CASE op = "LOWBAT"
  BY <1>2 DEF OverrideMap, ModeOf, Sim!OverrideOf, Overrides
<1> QED BY <1>1, <1>2, SameTables

LEMMA GaugeStep ==
  ASSUME gauge \in [Gauges -> UInt16], NEW op \in DOMAIN GaugeOf, NEW x
  PROVE  LevelMap([gauge EXCEPT ![GaugeOf[op]] = x]) = [LevelMap(gauge) EXCEPT ![Sim!LevelOf[op]] = x]
<1>1. CASE op = "LOAD"
  BY <1>1 DEF LevelMap, GaugeOf, Sim!LevelOf, Gauges
<1>2. CASE op = "VOLTAGE"
  BY <1>2 DEF LevelMap, GaugeOf, Sim!LevelOf, Gauges
<1>3. CASE op = "INPUTVOLTAGE"
  BY <1>3 DEF LevelMap, GaugeOf, Sim!LevelOf, Gauges
<1>4. CASE op = "OUTPUTVOLTAGE"
  BY <1>4 DEF LevelMap, GaugeOf, Sim!LevelOf, Gauges
<1> QED BY <1>1, <1>2, <1>3, <1>4, SameTables

LEMMA DelayStep ==
  ASSUME host \in [HostFeatures -> Int], NEW x
  PROVE  DelayMap([host EXCEPT !["delayStartup"] = x]) = [DelayMap(host) EXCEPT !["start"] = x]
BY DEF DelayMap, HostFeatures, Delays

(* Change(r), given what it assigns *)
LEMMA ChangeParts ==
  ASSUME TypeOK, MirrorInv, MapsRight', NEW r, ScenarioCommand(r), Accepted(r),
         SwitchMap(flag') = IF r.op \in DOMAIN Sim!SwitchOf
                            THEN [SwitchMap(flag) EXCEPT ![Sim!SwitchOf[r.op]] = (r.arg = Sim!On)]
                            ELSE SwitchMap(flag),
         OverrideMap(mode') = IF r.op \in DOMAIN Sim!OverrideOf
                              THEN [OverrideMap(mode) EXCEPT ![Sim!OverrideOf[r.op]] = r.arg]
                              ELSE OverrideMap(mode),
         LevelMap(gauge') = IF r.op \in DOMAIN Sim!LevelOf
                            THEN [LevelMap(gauge) EXCEPT ![Sim!LevelOf[r.op]] = r.arg]
                            ELSE LevelMap(gauge),
         battery' = IF r.op = "BATTERY" THEN r.arg ELSE battery,
         runtimeAuto' = (r.op = "RUNTIME AUTO" \/ (runtimeAuto /\ r.op # "RUNTIME")),
         runtime' = IF r.op = "RUNTIME" THEN r.arg ELSE runtime,
         DelayMap(host') = IF r.op = "STARTDELAY" THEN [DelayMap(host) EXCEPT !["start"] = r.arg]
                           ELSE DelayMap(host)
  PROVE  Sim!Change(r)
<1>1. /\ armed /\ pc = "poll" /\ RefreshedLease /\ UNCHANGED <<armed, lease, clock, now>>
  BY DEF ScenarioCommand, RequireArmed, Received, timeVars
<1>2. Sim!Refresh
  BY <1>1, RefreshStep
<1>3. Sim!Parses(r)
  BY SameLines
<1>4. MirrorRuntime' = IF r.op = "RUNTIME" THEN r.arg
                       ELSE Sim!RuntimeAfter(runtimeAuto', MirrorRuntime, battery')
  <2>1. MirrorRuntime' = IF runtimeAuto' THEN AutoRuntime(battery') ELSE runtime'
    BY DEF MirrorRuntime, AutoRuntime
  <2>2. CASE runtimeAuto'
    BY <2>1, <2>2, SameRuntime DEF Sim!RuntimeAfter
  <2>3. CASE ~runtimeAuto'
    BY <2>1, <2>3 DEF Sim!RuntimeAfter, MirrorRuntime
  <2> QED BY <2>2, <2>3
<1>5. Sim!UpdateModel
  BY UpdateFollows
<1> QED BY <1>1, <1>2, <1>3, <1>4, <1>5, Zenon
        DEF Sim!Change, SwitchMap, OverrideMap, LevelMap, DelayMap

LEMMA ChangeStep ==
  ASSUME TypeOK, MirrorInv, MapsRight', NEW r,
         \/ SetFlag(r) \/ SetMode(r) \/ SetBattery(r) \/ SetGauge(r)
         \/ SetRuntime(r) \/ SetRuntimeAuto(r) \/ SetStartDelay(r)
  PROVE  Sim!Change(r)
<1> USE SameTables
<1>0. runtimeAuto \in BOOLEAN
  BY DEF TypeOK, UpsType
<1>1. CASE SetFlag(r)
  <2>1. ScenarioCommand(r) /\ Accepted(r)
    BY <1>1 DEF SetFlag, Accepted
  <2>2. SwitchMap(flag') = [SwitchMap(flag) EXCEPT ![Sim!SwitchOf[r.op]] = (r.arg = Sim!On)]
    BY <1>1, FlagStep, SameConstants DEF SetFlag, TypeOK, UpsType
  <2> QED BY <1>0, <1>1, <2>1, <2>2, ChangeParts DEF SetFlag
<1>2. CASE SetMode(r)
  <2>1. ScenarioCommand(r) /\ Accepted(r)
    BY <1>2 DEF SetMode, Accepted
  <2>2. OverrideMap(mode') = [OverrideMap(mode) EXCEPT ![Sim!OverrideOf[r.op]] = r.arg]
    BY <1>2, ModeStep DEF SetMode, TypeOK, UpsType
  <2> QED BY <1>0, <1>2, <2>1, <2>2, ChangeParts DEF SetMode
<1>3. CASE SetBattery(r)
  <2>1. ScenarioCommand(r) /\ Accepted(r)
    BY <1>3 DEF SetBattery, Accepted
  <2> QED BY <1>0, <1>3, <2>1, ChangeParts DEF SetBattery, simVars
<1>4. CASE SetGauge(r)
  <2>1. ScenarioCommand(r) /\ Accepted(r)
    BY <1>4 DEF SetGauge, Accepted
  <2>2. LevelMap(gauge') = [LevelMap(gauge) EXCEPT ![Sim!LevelOf[r.op]] = r.arg]
    BY <1>4, GaugeStep DEF SetGauge, TypeOK, UpsType
  <2> QED BY <1>0, <1>4, <2>1, <2>2, ChangeParts DEF SetGauge
<1>5. CASE SetRuntime(r)
  <2>1. ScenarioCommand(r) /\ Accepted(r)
    BY <1>5 DEF SetRuntime, Accepted
  <2> QED BY <1>0, <1>5, <2>1, ChangeParts DEF SetRuntime
<1>6. CASE SetRuntimeAuto(r)
  <2>1. ScenarioCommand(r) /\ Accepted(r)
    BY <1>6 DEF SetRuntimeAuto, Accepted
  <2> QED BY <1>0, <1>6, <2>1, ChangeParts DEF SetRuntimeAuto
<1>7. CASE SetStartDelay(r)
  <2>1. ScenarioCommand(r) /\ Accepted(r)
    BY <1>7 DEF SetStartDelay, Accepted
  <2>2. DelayMap(host') = [DelayMap(host) EXCEPT !["start"] = r.arg]
    BY <1>7, DelayStep DEF SetStartDelay, TypeOK, HostType
  <2> QED BY <1>0, <1>7, <2>1, <2>2, ChangeParts DEF SetStartDelay, simVars
<1> QED BY <1>1, <1>2, <1>3, <1>4, <1>5, <1>6, <1>7

LEMMA CommandStepSim ==
  ASSUME TypeOK, MirrorInv, MapsRight', NEW r \in Requests, HandleCommand(r)
  PROVE  Sim!Next
<1>1. Sim!Command(r)
  BY AnswerStep, RecomputeStep, ArmStep, DisarmStep, ChangeStep DEF HandleCommand, Sim!Command
<1> QED BY <1>1 DEF Sim!Next

-----------------------------------------------------------------------------
(* The passes of loop().                                                   *)

(* the top of the loop is an advance() by the time since the last sample   *)
LEMMA LoopTopStep ==
  ASSUME TypeOK, MirrorInv, MapsRight', LoopTop
  PROVE  Sim!Next
<1> DEFINE ms == Since(clock, now)
<1>1. ms \in 0 .. MaxLoop
  BY TimesType, SinceFacts DEF MirrorInv
<1>2. now' = clock /\ clock' = clock /\ now' = Sim!Wrapped(now + ms)
  BY TimesType, AdvanceReaches DEF LoopTop, Sim!Wrapped
<1>3. Sim!Elapsed(now') = Since(clock, lastCommand)
  BY <1>2, TimesType, ElapsedIsSince DEF Sim!Elapsed
<1>4. CASE LeaseExpired /\ SetSafeState
  <2>1. armed /\ lease # 0 /\ Sim!Elapsed(now') >= lease
    BY <1>3, <1>4 DEF LeaseExpired
  <2>2. Sim!SetSafeState /\ Sim!UpdateModel /\ Silent' = 0
    BY <1>4, SafeStep, UpdateFollows DEF Silent, SetSafeState
  <2>3. Sim!Advance(ms)
    BY <1>2, <2>1, <2>2, Zenon DEF Sim!Advance, Silent
  <2> QED BY <1>1, <2>3 DEF Sim!Next
<1>5. CASE ~LeaseExpired /\ UNCHANGED <<leaseVars, simVars, battery, runtime, host>>
  <2>1. ~(armed /\ lease # 0 /\ Sim!Elapsed(now') >= lease)
    BY <1>3, <1>5 DEF LeaseExpired
  <2>2. UNCHANGED <<armed, lease, lastCommand, Sim!ScenarioVars, MirrorStatus>>
    BY <1>5, KeptRuntime, KeptStatus DEF leaseVars, simVars, Sim!ScenarioVars
  <2>3. Silent' = IF armed /\ lease # 0 THEN Silent + ms ELSE 0
    <3>1. CASE armed /\ lease # 0
      <4>1. Since(now, lastCommand) + ms < ClockWrap
        <5>1. Since(now, lastCommand) < lease /\ Since(now, lastCommand) \in Int
          BY <3>1, TimesType, SinceFacts DEF MirrorInv
        <5> QED BY <1>1, <5>1, TimesType, ClockAssumption
      <4>2. Since(clock, lastCommand) = Since(now, lastCommand) + ms
        BY <4>1, TimesType, SinceAdds
      <4>3. armed' = armed /\ lease' = lease /\ lastCommand' = lastCommand
        BY <2>2
      <4>4. Silent' = Since(now', lastCommand')
        BY <3>1, <4>3 DEF Silent
      <4>5. Since(now', lastCommand') = Since(clock, lastCommand)
        BY <1>2, <4>3
      <4> QED BY <3>1, <4>2, <4>4, <4>5 DEF Silent
    <3>2. CASE ~(armed /\ lease # 0)
      BY <2>2, <3>2 DEF Silent
    <3> QED BY <3>1, <3>2
  <2>4. Sim!Advance(ms)
    BY <1>2, <2>1, <2>2, <2>3, Zenon DEF Sim!Advance, Silent
  <2> QED BY <1>1, <2>4 DEF Sim!Next
<1> QED BY <1>4, <1>5 DEF LoopTop

(* everything else leaves what the simulator has alone *)
LEMMA QuietStep ==
  ASSUME UNCHANGED <<armed, lease, lastCommand, flag, mode, runtimeAuto, battery, gauge, host, now>>,
         MirrorRuntime' = MirrorRuntime, MapsRight, MapsRight'
  PROVE  UNCHANGED Sim!vars
<1>1. SimStatus' = SimStatus
  BY Zenon DEF SimStatus, SwitchMap, OverrideMap
<1>2. MirrorStatus' = MirrorStatus
  BY <1>1 DEF MapsRight
<1> QED BY <1>2 DEF Sim!vars

LEMMA PassStep ==
  ASSUME TypeOK, MirrorInv, MapsRight, MapsRight',
         EndPoll \/ UpdateModel \/ PublishStatus \/ SendUsbReports \/ Tick \/ UNCHANGED vars
  PROVE  UNCHANGED Sim!vars
<1>1. UNCHANGED <<armed, lease, lastCommand, flag, mode, runtimeAuto, battery, gauge, host, now>>
  BY DEF EndPoll, UpdateModel, PublishStatus, SendUsbReports, Tick, vars,
         leaseVars, simVars, timeVars
<1>2. MirrorRuntime' = MirrorRuntime
  <2>1. CASE UpdateModel
    BY <1>1, <2>1, Zenon DEF UpdateModel, UpdatedRuntime, MirrorRuntime, AutoRuntime
  <2>2. CASE EndPoll \/ PublishStatus \/ SendUsbReports \/ Tick \/ UNCHANGED vars
    <3>1. UNCHANGED <<runtimeAuto, runtime, battery>>
      BY <1>1, <2>2 DEF EndPoll, PublishStatus, SendUsbReports, Tick, vars
    <3> QED BY <3>1, KeptRuntime
  <2> QED BY <2>1, <2>2
<1> QED BY <1>1, <1>2, QuietStep

(* docs/FIRMWARE_SIMULATOR.md: the Python simulator "mirrors the current   *)
(* .ino behavior".  For every set of lines, every lease and every clock:   *)
(* a firmware whose USB host writes nothing and whose passes take no time  *)
(* behaves, seen through the mapping of module FirmwareMirror, as          *)
(* command() and advance() of class FirmwareSimulator do.                  *)
THEOREM FirmwareMirrorsSimulator == PromptSpec => MirrorsFirmware
<1>1. PromptSpec => [](TypeOK /\ MirrorInv)
  <2>1. PromptSpec => Spec
    <3>1. [PromptNext]_vars => [Next]_vars
      BY DEF PromptNext
    <3> QED BY <3>1, PTL DEF PromptSpec, Spec
  <2>2. TypeOK /\ TypeOK' /\ MirrorInv /\ [PromptNext]_vars => MirrorInv'
    BY NextMirror
  <2> QED BY <2>1, <2>2, InitMirror, TypeCorrect, PTL DEF PromptSpec
<1>2. TypeOK /\ MirrorInv => MapsRight
  BY StatusMaps DEF MapsRight
<1>3. Init => Sim!Init
  <2> SUFFICES ASSUME Init PROVE Sim!Init
    OBVIOUS
  <2>1. /\ SwitchMap(flag) = Sim!SafeSwitch /\ OverrideMap(mode) = Sim!SafeOverride
        /\ LevelMap(gauge) = Sim!SafeLevel /\ DelayMap(host) = Sim!NoDelay
    BY DEF Init, SwitchMap, SafeFlag, Flags, Sim!SafeSwitch, Sim!Switches,
           OverrideMap, SafeMode, Overrides, Sim!SafeOverride, AUTO, Sim!Automatic,
           LevelMap, SafeGauge, Sim!SafeLevel, DelayMap, PowerOnHost, NoDelay, Sim!NoDelay
  <2>2. MirrorRuntime = Sim!AVG_TIME_TO_EMPTY
    <3>1. MirrorRuntime = AutoRuntime(FullChargeCapacity)
      BY DEF Init, MirrorRuntime
    <3> QED BY <3>1, AutoRuntimeFacts DEF AvgTimeToEmpty, Sim!AVG_TIME_TO_EMPTY
  <2>3. MirrorStatus = Sim!StatusFrom(FALSE, Sim!SafeSwitch, Sim!SafeOverride, 100,
                                      Sim!AVG_TIME_TO_EMPTY, -1)
    <3>1. MirrorStatus = SimStatus
      BY InitTypeOK, InitMirror, StatusMaps
    <3>2. /\ armed = FALSE /\ battery = 100 /\ host["delayShutdown"] = -1
      BY DEF Init, FullChargeCapacity, PowerOnHost, NoDelay
    <3> QED BY <2>1, <2>2, <3>1, <3>2 DEF SimStatus
  <2> QED BY <2>1, <2>2, <2>3
          DEF Init, Sim!Init, SwitchMap, OverrideMap, LevelMap, DelayMap, FullChargeCapacity
<1>4. /\ TypeOK /\ MirrorInv /\ MapsRight /\ MapsRight' /\ [PromptNext]_vars
      => [Sim!Next]_(Sim!vars)
  <2> SUFFICES ASSUME TypeOK, MirrorInv, MapsRight, MapsRight', [PromptNext]_vars
               PROVE  Sim!Next \/ UNCHANGED Sim!vars
    OBVIOUS
  <2>1. ASSUME NEW r \in Requests, HandleCommand(r) PROVE Sim!Next
    BY <2>1, CommandStepSim
  <2>2. CASE LoopTop
    BY <2>2, LoopTopStep
  <2>3. CASE EndPoll \/ UpdateModel \/ PublishStatus \/ SendUsbReports \/ Tick \/ UNCHANGED vars
    BY <2>3, PassStep
  <2>4. ~ \E w \in HostWrites : HostSetReport(w)
    BY MirrorAssumption
  <2> QED BY <2>1, <2>2, <2>3, <2>4 DEF PromptNext, Next, LoopStep
<1> QED BY <1>1, <1>2, <1>3, <1>4, PTL DEF PromptSpec, MirrorsFirmware, Sim!Spec
=============================================================================
