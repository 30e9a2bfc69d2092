------------------------------ MODULE Firmware ------------------------------
(***************************************************************************)
(* The control side of examples/UPS_Simulator_Ethernet.ino: the simulated  *)
(* UPS (struct SimulatorState and the measurements beside it), the arming  *)
(* gate with its lease, the commands of handleCommand(), updateModel() and *)
(* the order in which loop() runs them.                                    *)
(*                                                                         *)
(* Two processes share the state: the main loop, and the USB interrupt,    *)
(* which may store a host SET_REPORT into a writable Feature between any   *)
(* two steps of the loop and may read any Feature in any state.  The loop  *)
(* is therefore cut where an interrupt can make a difference:              *)
(*                                                                         *)
(*   "loop"     top of loop(): sample millis(), check the lease            *)
(*   "poll"     pollStream(): a complete line may be handled               *)
(*   "model"    updateModel() is about to read the host-written values     *)
(*   "publish"  updateModel() is about to store iPresentStatus             *)
(*   "report"   sendUsbReports() is about to run; what it queues is the    *)
(*              state of module UsbReports, and it reads only              *)
(*                                                                         *)
(* A request is a parsed line [op, arg, arg2].  ON/OFF are 1/0 and AUTO is *)
(* -1, the numbers of enum OverrideMode; a missing, malformed or too large *)
(* token is any number outside the range the command accepts, since the    *)
(* parsers refuse them alike.                                              *)
(***************************************************************************)
EXTENDS Integers

CONSTANTS
  ClockWrap,         \* millis() counts modulo this (2^32)
  MaxLoop,           \* bound: the time one pass of loop() may take
  ArmDefaultLease,   \* ARM_DEFAULT_LEASE_SEC, in clock ticks
  ArmMaxLease,       \* ARM_MAX_LEASE_SEC, in clock ticks
  Requests,          \* the lines the controllers may send
  HostWrites         \* the SET_REPORT requests the USB host may send

AUTO == -1
OFF  == 0
ON   == 1
NoToken == -2        \* the line ends before this token

UINT8_MAX  == 255
UINT16_MAX == 65535
INT16_MAX  == 32767

UInt8  == 0 .. UINT8_MAX
UInt16 == 0 .. UINT16_MAX
Int16  == -(INT16_MAX + 1) .. INT16_MAX
StartDelays == -1 .. INT16_MAX

FullChargeCapacity == 100
AvgTimeToEmpty     == 7200

Flags        == {"acPresent", "overload", "needReplacement",
                 "communicationLost", "shutdownRequested"}
Overrides    == {"charging", "lowBattery"}
Gauges       == {"load", "voltage", "inputVoltage", "outputVoltage"}
Delays       == {"delayStartup", "delayReboot", "delayShutdown"}
HostFeatures == Delays \cup {"remainTimeLimit", "remnCapacityLimit"}

GaugeRange(g) == IF g = "load" THEN 0 .. 100 ELSE UInt16
HostRange(f)  == IF f \in Delays THEN Int16
                 ELSE IF f = "remainTimeLimit" THEN UInt16 ELSE UInt8

ASSUME ClockAssumption ==
  /\ ClockWrap \in Nat /\ MaxLoop \in Nat \ {0}
  /\ ArmMaxLease \in Nat /\ ArmDefaultLease \in 1 .. ArmMaxLease
  /\ ArmMaxLease + MaxLoop < ClockWrap

ASSUME InputAssumption ==
  /\ Requests \subseteq [op : STRING, arg : Int, arg2 : Int]
  /\ \A w \in HostWrites : /\ w.feature \in HostFeatures
                           /\ w.value \in HostRange(w.feature)

VARIABLES
  armed, lease, lastCommand,           \* sim.armed, armLeaseMs, lastCommandMs
  flag, mode, runtimeAuto,             \* the rest of SimulatorState
  battery, runtime, gauge,             \* iRemaining, iRunTimeToEmpty, others
  host,                                \* the Features the host may write
  status,                              \* iPresentStatus
  seen,                                \* the locals of updateModel()
  pc, after,                           \* where the loop is, and who called
  clock, now,                          \* millis(), and the loop's sample of it
  idle                                 \* auxiliary: true time since lastCommand

simVars   == <<flag, mode, runtimeAuto, gauge>>
leaseVars == <<armed, lease, lastCommand, idle>>
timeVars  == <<clock, now>>
vars == <<armed, lease, lastCommand, flag, mode, runtimeAuto, battery, runtime,
          gauge, host, status, seen, pc, after, clock, now, idle>>

-----------------------------------------------------------------------------
(* The defaults setSafeState() restores.                                   *)

SafeFlag  == [f \in Flags |-> f = "acPresent"]
SafeMode  == [m \in Overrides |-> AUTO]
SafeGauge == [load |-> 25, voltage |-> 1300,
              inputVoltage |-> 23000, outputVoltage |-> 23000]
NoDelay   == -1

(* the limits as they are after flashing; setSafeState() leaves them alone *)
PowerOnHost == [delayStartup |-> NoDelay, delayReboot |-> NoDelay,
                delayShutdown |-> NoDelay,
                remainTimeLimit |-> 600, remnCapacityLimit |-> 5]

(* Slip: the overrides are forgotten. *)
RestoreScenarioKeepsModes ==
  /\ flag' = SafeFlag /\ UNCHANGED mode /\ runtimeAuto' = TRUE
  /\ battery' = FullChargeCapacity /\ runtime' = AvgTimeToEmpty /\ gauge' = SafeGauge

(* Slip: the measurements that do not feed the status are forgotten. *)
RestoreScenarioKeepsGauges ==
  /\ flag' = SafeFlag /\ mode' = SafeMode /\ runtimeAuto' = TRUE
  /\ battery' = FullChargeCapacity /\ runtime' = AvgTimeToEmpty /\ UNCHANGED gauge

RestoreScenario ==
  /\ flag' = SafeFlag /\ mode' = SafeMode /\ runtimeAuto' = TRUE
  /\ battery' = FullChargeCapacity /\ runtime' = AvgTimeToEmpty /\ gauge' = SafeGauge

(* Slip: the scenario is restored, the gate is not. *)
SetSafeStateStaysArmed ==
  /\ lastCommand' = 0 /\ idle' = 0 /\ UNCHANGED <<armed, lease>>
  /\ RestoreScenario
  /\ host' = [f \in HostFeatures |-> IF f \in Delays THEN NoDelay ELSE host[f]]

SetSafeState ==
  /\ armed' = FALSE /\ lease' = 0 /\ lastCommand' = 0 /\ idle' = 0
  /\ RestoreScenario
  /\ host' = [f \in HostFeatures |-> IF f \in Delays THEN NoDelay ELSE host[f]]

-----------------------------------------------------------------------------
(* updateModel(): the status derived from the simulated UPS, from the      *)
(* shutdown delay and the remaining-time limit read at its start, and from *)
(* the remaining-capacity limit read when the status is computed.          *)

AutoRuntime(charge) == (AvgTimeToEmpty * charge) \div FullChargeCapacity

Override(m, auto) == IF mode[m] = AUTO THEN auto ELSE mode[m] = ON

(* Slip: the contribution of the host's shutdown delay is not gated. *)
ShutdownWantedUngated(delay) == flag["shutdownRequested"] \/ delay > 0

ShutdownWanted(delay) == armed /\ (flag["shutdownRequested"] \/ delay > 0)

DerivedStatus(delay, limit) ==
  LET discharging == ~flag["acPresent"] /\ battery > 0
      expired     == discharging /\ runtime <= limit
  IN [charging     |-> Override("charging", flag["acPresent"] /\ battery < FullChargeCapacity),
      discharging  |-> discharging,
      acPresent    |-> flag["acPresent"],
      lowBattery   |-> Override("lowBattery", battery <= host["remnCapacityLimit"]),
      timeLimitExpired   |-> expired,
      needReplacement    |-> flag["needReplacement"],
      fullyCharged       |-> battery >= FullChargeCapacity,
      fullyDischarged    |-> battery = 0,
      shutdownRequested  |-> ShutdownWanted(delay),
      shutdownImminent   |-> ShutdownWanted(delay) \/ expired,
      communicationLost  |-> flag["communicationLost"],
      overload           |-> flag["overload"]]

(* Slip: the runtime is only worked out while it matters, on battery. *)
UpdatedRuntimeOnBattery ==
  IF runtimeAuto /\ ~flag["acPresent"] THEN AutoRuntime(battery) ELSE runtime

UpdatedRuntime == IF runtimeAuto THEN AutoRuntime(battery) ELSE runtime

NotSeen == [delay |-> -1, limit |-> 0]

UpdateModel ==
  /\ pc = "model" /\ pc' = "publish"
  /\ seen' = [delay |-> host["delayShutdown"], limit |-> host["remainTimeLimit"]]
  /\ runtime' = UpdatedRuntime
  /\ UNCHANGED <<leaseVars, simVars, battery, host, status, after, timeVars>>

(* The struct is stored inside one ATOMIC_BLOCK.  printStatus() goes back  *)
(* to the poll without a report.                                           *)
PublishStatus ==
  /\ pc = "publish"
  /\ status' = DerivedStatus(seen.delay, seen.limit) /\ seen' = NotSeen
  /\ pc' = IF after = "none" THEN "poll" ELSE "report"
  /\ UNCHANGED <<leaseVars, simVars, battery, runtime, host, after, timeVars>>

(* sendUsbReports(true) ends a handler, sendUsbReports(false) the pass.    *)
SendUsbReports ==
  /\ pc = "report" /\ after' = "none"
  /\ pc' = IF after = "force" THEN "poll" ELSE "loop"
  /\ UNCHANGED <<leaseVars, simVars, battery, runtime, host, status, seen, timeVars>>

Call(caller) == pc' = "model" /\ after' = caller
Return       == UNCHANGED <<pc, after>>

-----------------------------------------------------------------------------
(* handleCommand().  Every non-blank line refreshes the lease of an armed  *)
(* simulator before it is even recognised.                                 *)

RefreshedLease ==
  IF armed THEN lastCommand' = clock /\ idle' = 0
           ELSE UNCHANGED <<lastCommand, idle>>

Received(r) ==
  /\ pc = "poll" /\ r \in Requests
  /\ UNCHANGED <<status, seen, timeVars>>

FlagOf  == [AC |-> "acPresent", OVERLOAD |-> "overload", REPLACE |-> "needReplacement",
            COMMLOST |-> "communicationLost", SHUTDOWN |-> "shutdownRequested"]
ModeOf  == [CHARGING |-> "charging", LOWBAT |-> "lowBattery"]
GaugeOf == [LOAD |-> "load", VOLTAGE |-> "voltage",
            INPUTVOLTAGE |-> "inputVoltage", OUTPUTVOLTAGE |-> "outputVoltage"]

(* Slip: only the lower end of the range is checked. *)
LeaseAcceptedUnbounded(l) == l >= 0

LeaseAccepted(l) == l \in 0 .. ArmMaxLease

LeaseOf(r) == IF r.arg2 = NoToken THEN ArmDefaultLease ELSE r.arg2

(* PING, IDENT?, HELP, ? and NETWORK? only answer. *)
Query(r) ==
  /\ Received(r) /\ r.op \in {"PING", "IDENT?", "HELP", "?", "NETWORK?"}
  /\ RefreshedLease /\ Return
  /\ UNCHANGED <<armed, lease, simVars, battery, runtime, host>>

StatusQuery(r) ==
  /\ Received(r) /\ r.op \in {"STATUS?", "STATUS"}
  /\ RefreshedLease /\ Call("none")
  /\ UNCHANGED <<armed, lease, simVars, battery, runtime, host>>

(* ARM ON neither recomputes the status nor reports: the pass does.        *)
ArmOn(r) ==
  /\ Received(r) /\ r.op = "ARM" /\ r.arg = ON /\ LeaseAccepted(LeaseOf(r))
  /\ armed' = TRUE /\ lease' = LeaseOf(r) /\ lastCommand' = clock /\ idle' = 0
  /\ Return
  /\ UNCHANGED <<simVars, battery, runtime, host>>

(* ARM OFF and RESET. *)
Disarm(r) ==
  /\ Received(r) /\ (r.op = "RESET" \/ (r.op = "ARM" /\ r.arg = OFF))
  /\ SetSafeState /\ Call("force")

Report(r) ==
  /\ Received(r) /\ r.op = "REPORT"
  /\ RefreshedLease /\ Call("force")
  /\ UNCHANGED <<armed, lease, simVars, battery, runtime, host>>

(* Slip: the gate is gone. *)
RequireArmedSkipped == TRUE

RequireArmed == armed

ScenarioCommand(r) ==
  /\ Received(r) /\ RequireArmed
  /\ RefreshedLease /\ Call("force")
  /\ UNCHANGED <<armed, lease>>

SetFlag(r) ==
  /\ ScenarioCommand(r) /\ r.op \in DOMAIN FlagOf /\ r.arg \in {OFF, ON}
  /\ flag' = [flag EXCEPT ![FlagOf[r.op]] = (r.arg = ON)]
  /\ UNCHANGED <<mode, runtimeAuto, gauge, battery, runtime, host>>

SetMode(r) ==
  /\ ScenarioCommand(r) /\ r.op \in DOMAIN ModeOf /\ r.arg \in {AUTO, OFF, ON}
  /\ mode' = [mode EXCEPT ![ModeOf[r.op]] = r.arg]
  /\ UNCHANGED <<flag, runtimeAuto, gauge, battery, runtime, host>>

SetBattery(r) ==
  /\ ScenarioCommand(r) /\ r.op = "BATTERY" /\ r.arg \in 0 .. 100
  /\ battery' = r.arg
  /\ UNCHANGED <<simVars, runtime, host>>

SetGauge(r) ==
  /\ ScenarioCommand(r) /\ r.op \in DOMAIN GaugeOf
  /\ r.arg \in GaugeRange(GaugeOf[r.op])
  /\ gauge' = [gauge EXCEPT ![GaugeOf[r.op]] = r.arg]
  /\ UNCHANGED <<flag, mode, runtimeAuto, battery, runtime, host>>

SetRuntime(r) ==
  /\ ScenarioCommand(r) /\ r.op = "RUNTIME" /\ r.arg \in UInt16
  /\ runtimeAuto' = FALSE /\ runtime' = r.arg
  /\ UNCHANGED <<flag, mode, gauge, battery, host>>

SetRuntimeAuto(r) ==
  /\ ScenarioCommand(r) /\ r.op = "RUNTIME AUTO"
  /\ runtimeAuto' = TRUE
  /\ UNCHANGED <<flag, mode, gauge, battery, runtime, host>>

SetStartDelay(r) ==
  /\ ScenarioCommand(r) /\ r.op = "STARTDELAY" /\ r.arg \in StartDelays
  /\ host' = [host EXCEPT !["delayStartup"] = r.arg]
  /\ UNCHANGED <<simVars, battery, runtime>>

(* Every other line is answered with an ERR reply and only counts as a     *)
(* sign of life of the controller.                                         *)
Accepted(r) ==
  \/ r.op \in DOMAIN FlagOf  /\ r.arg \in {OFF, ON}
  \/ r.op \in DOMAIN ModeOf  /\ r.arg \in {AUTO, OFF, ON}
  \/ r.op \in DOMAIN GaugeOf /\ r.arg \in GaugeRange(GaugeOf[r.op])
  \/ r.op = "BATTERY"        /\ r.arg \in 0 .. 100
  \/ r.op = "RUNTIME"        /\ r.arg \in UInt16
  \/ r.op = "RUNTIME AUTO"
  \/ r.op = "STARTDELAY"     /\ r.arg \in StartDelays

Ungated(r) == r.op \in {"PING", "IDENT?", "HELP", "?", "NETWORK?", "STATUS?",
                        "STATUS", "ARM", "RESET", "REPORT"}

Refused(r) ==
  /\ Received(r)
  /\ \/ ~Ungated(r) /\ (~armed \/ ~Accepted(r))
     \/ r.op = "ARM" /\ r.arg \notin {OFF, ON}
     \/ r.op = "ARM" /\ r.arg = ON /\ ~LeaseAccepted(LeaseOf(r))
  /\ RefreshedLease /\ Return
  /\ UNCHANGED <<armed, lease, simVars, battery, runtime, host>>

HandleCommand(r) ==
  \/ Query(r) \/ StatusQuery(r) \/ ArmOn(r) \/ Disarm(r) \/ Report(r)
  \/ SetFlag(r) \/ SetMode(r) \/ SetBattery(r) \/ SetGauge(r)
  \/ SetRuntime(r) \/ SetRuntimeAuto(r) \/ SetStartDelay(r) \/ Refused(r)

-----------------------------------------------------------------------------
(* loop() and the world around it.                                         *)

(* Slip: the difference is taken without the wrap of unsigned arithmetic. *)
SinceUnwrapped(t, u) == t - u

(* unsigned subtraction of two millis() values *)
Since(t, u) == IF t >= u THEN t - u ELSE t - u + ClockWrap

(* Slip: the lease is compared with the sample of the previous pass. *)
LeaseExpiredStaleSample == armed /\ lease # 0 /\ Since(now, lastCommand) >= lease

LeaseExpired == armed /\ lease # 0 /\ Since(clock, lastCommand) >= lease

LoopTop ==
  /\ pc = "loop" /\ now' = clock
  /\ \/ LeaseExpired /\ SetSafeState /\ Call("force")
     \/ /\ ~LeaseExpired /\ pc' = "poll"
        /\ UNCHANGED <<leaseVars, simVars, battery, runtime, host, after>>
  /\ UNCHANGED <<status, seen, clock>>

(* Slip: the pass ends without recomputing the status. *)
EndPollSkipsModel ==
  /\ pc = "poll" /\ pc' = "report" /\ after' = "periodic"
  /\ UNCHANGED <<leaseVars, simVars, battery, runtime, host, status, seen, timeVars>>

(* no more input: loop() goes on to updateModel() and sendUsbReports(false) *)
EndPoll ==
  /\ pc = "poll" /\ Call("periodic")
  /\ UNCHANGED <<leaseVars, simVars, battery, runtime, host, status, seen, timeVars>>

(* HID_::setup() stores a SET_REPORT for a Feature that is not locked, in   *)
(* the USB interrupt.                                                       *)
HostSetReport(w) ==
  /\ host' = [host EXCEPT ![w.feature] = w.value]
  /\ UNCHANGED <<leaseVars, simVars, battery, runtime, status, seen, pc, after, timeVars>>

Tick ==
  /\ Since(clock, now) < MaxLoop
  /\ clock' = IF clock + 1 = ClockWrap THEN 0 ELSE clock + 1
  /\ idle' = IF armed /\ lease # 0 THEN idle + 1 ELSE 0
  /\ UNCHANGED <<armed, lease, lastCommand, simVars, battery, runtime, host,
                 status, seen, pc, after, now>>

(* setup(): setSafeState() and updateModel() ran before the first loop().  *)
Init ==
  /\ armed = FALSE /\ lease = 0 /\ lastCommand = 0 /\ idle = 0
  /\ flag = SafeFlag /\ mode = SafeMode /\ runtimeAuto = TRUE
  /\ battery = FullChargeCapacity /\ runtime = AvgTimeToEmpty /\ gauge = SafeGauge
  /\ host = PowerOnHost
  /\ status = DerivedStatus(-1, 600)
  /\ seen = NotSeen /\ pc = "loop" /\ after = "none"
  /\ clock = 0 /\ now = 0

LoopStep == LoopTop \/ EndPoll \/ UpdateModel \/ PublishStatus \/ SendUsbReports

Next ==
  \/ LoopStep
  \/ \E r \in Requests : HandleCommand(r)
  \/ \E w \in HostWrites : HostSetReport(w)
  \/ Tick

Spec == Init /\ [][Next]_vars

(* The processor executes loop() again and again and its timer runs; a     *)
(* controller or a host need never send anything.                          *)
FairSpec == Spec /\ WF_vars(LoopStep) /\ WF_vars(Tick)

-----------------------------------------------------------------------------
Statuses ==
  [charging : BOOLEAN, discharging : BOOLEAN, acPresent : BOOLEAN,
   lowBattery : BOOLEAN, timeLimitExpired : BOOLEAN, needReplacement : BOOLEAN,
   fullyCharged : BOOLEAN, fullyDischarged : BOOLEAN, shutdownRequested : BOOLEAN,
   shutdownImminent : BOOLEAN, communicationLost : BOOLEAN, overload : BOOLEAN]

GateType ==
  /\ armed \in BOOLEAN /\ lease \in 0 .. ArmMaxLease
  /\ lastCommand \in 0 .. ClockWrap - 1 /\ idle \in Nat

UpsType ==
  /\ flag \in [Flags -> BOOLEAN] /\ mode \in [Overrides -> {AUTO, OFF, ON}]
  /\ runtimeAuto \in BOOLEAN
  /\ battery \in 0 .. 100 /\ runtime \in UInt16
  /\ gauge \in [Gauges -> UInt16]

HostType ==
  /\ host \in [HostFeatures -> Int]
  /\ \A f \in HostFeatures : host[f] \in HostRange(f)

LoopType ==
  /\ status \in Statuses /\ seen \in [delay : Int16, limit : UInt16]
  /\ pc \in {"loop", "poll", "model", "publish", "report"}
  /\ after \in {"none", "force", "periodic"}
  /\ clock \in 0 .. ClockWrap - 1 /\ now \in 0 .. ClockWrap - 1

TypeOK == GateType /\ UpsType /\ HostType /\ LoopType

(* A disarmed simulator is a healthy UPS on mains: whatever was done while *)
(* it was armed, and whichever of ARM OFF, RESET or the lease disarmed it, *)
(* no override, fault flag or measurement survives (setSafeState()).       *)
DisarmedIsSafe ==
  ~armed => /\ flag = SafeFlag /\ mode = SafeMode /\ runtimeAuto
            /\ battery = FullChargeCapacity /\ runtime = AvgTimeToEmpty
            /\ gauge = SafeGauge /\ lease = 0

(* What the host reads of a disarmed simulator: once the handler that      *)
(* disarmed it has published, the status never shows a discharge, a fault  *)
(* or a shutdown again, whatever delays the host itself writes.  (The low  *)
(* battery bit is absent on purpose: the host may move its limit.)         *)
DisarmedLooksSafe ==
  ~armed /\ pc \notin {"model", "publish"} =>
    /\ status.acPresent /\ status.fullyCharged
    /\ \A f \in {"charging", "discharging", "timeLimitExpired", "needReplacement",
                 "fullyDischarged", "shutdownRequested", "shutdownImminent",
                 "communicationLost", "overload"} : ~status[f]

(* In automatic mode the runtime follows the charge; only between a        *)
(* command that moved one of them and the updateModel() it calls may they  *)
(* disagree.                                                               *)
RuntimeFollowsCharge ==
  runtimeAuto /\ pc # "model" => runtime = AutoRuntime(battery)

(* The lease bounds how long the simulator stays armed without a command:  *)
(* not the lease itself, because the clock is only looked at at the top of *)
(* a pass, but never a full pass more.  It has to survive the wrap of      *)
(* millis().                                                               *)
LeaseBound == armed /\ lease # 0 => idle < lease + MaxLoop

(* The lease never expires early, in particular not when lastCommandMs was *)
(* set later in the pass than the sample it is compared with.              *)
NoEarlyExpiry ==
  [][pc = "loop" /\ armed /\ ~armed' => lease # 0 /\ idle >= lease]_vars

(* While disarmed no line of any controller and no host request changes    *)
(* the simulated UPS; arming it does not either.                           *)
DisarmedRefusesChange == [][~armed => UNCHANGED <<simVars, battery, runtime>>]_vars

(* When the controllers fall silent (killed, unplugged), an armed          *)
(* simulator with a lease returns to the safe state on its own.            *)
LeaseReturnsToSafe ==
  <>[][~\E r \in Requests : HandleCommand(r)]_vars => <>[](~armed \/ lease = 0)

(* When nobody changes anything any more, the status the host reads ends   *)
(* up being the one the UPS state and the host's own limits imply; a limit *)
(* or delay written in the middle of updateModel() is not lost.            *)
StatusConverges ==
  <>[][~\/ \E r \in Requests : HandleCommand(r)
        \/ \E w \in HostWrites : HostSetReport(w)]_vars
    => <>[](status = DerivedStatus(host["delayShutdown"], host["remainTimeLimit"]))

(* The whole of it: the firmware implements the arming contract, a pass    *)
(* of loop() being the slack.  The runtime of the automatic mode is the    *)
(* one updateModel() will set, so that a battery change is one step.       *)
World == [flag |-> flag, mode |-> mode, gauge |-> gauge, battery |-> battery,
          auto |-> runtimeAuto, runtime |-> UpdatedRuntime]

SafeWorld == [flag |-> SafeFlag, mode |-> SafeMode, gauge |-> SafeGauge,
              battery |-> FullChargeCapacity, auto |-> TRUE,
              runtime |-> AvgTimeToEmpty]

AllWorlds == [flag : [Flags -> BOOLEAN], mode : [Overrides -> {AUTO, OFF, ON}],
              gauge : [Gauges -> UInt16], battery : 0 .. 100,
              auto : BOOLEAN, runtime : UInt16]

Contract == INSTANCE ArmingContract WITH
  Worlds <- AllWorlds, Safe <- SafeWorld, Slack <- MaxLoop,
  age <- idle, world <- World

ImplementsContract == Contract!Spec

(* docs/NUT_VARIABLES.md calls battery.charge.low "fixed 5%": then a       *)
(* disarmed, full UPS could never be seen with a low battery.              *)
ChargeLowIsFixed == ~armed /\ pc \notin {"model", "publish"} => ~status.lowBattery
=============================================================================
