--------------------------- MODULE FirmwareMirror ---------------------------
(***************************************************************************)
(* docs/FIRMWARE_SIMULATOR.md says that the Python simulator "mirrors the  *)
(* current .ino behavior".  This module states that as an implementation   *)
(* relation: the firmware, when the USB host writes nothing and a pass of  *)
(* loop() takes no time, implements FirmwareSim.                           *)
(*                                                                         *)
(* The firmware takes several steps where the simulator takes one, so      *)
(* hid_status is mapped to the status updateModel() would publish now, the *)
(* runtime to what it would set, and now_ms to the sample of the loop,     *)
(* which moves in the step that checks the lease, as advance() does.       *)
(***************************************************************************)
EXTENDS MCFirmware

MirrorRequests == ScenarioRequests \cup
  {ArmFor(2), ArmFor(9), Line("PING", NoToken), Line("STATUS?", NoToken),
   Line("REPORT", NoToken), Line("STARTDELAY", 30)}

(* the Python simulator has no USB host *)
ASSUME MirrorAssumption == HostWrites = {}

(* no time passes inside a pass of loop() *)
PromptNext == Next /\ (clock' # clock => pc = "loop")
PromptSpec == Init /\ [][PromptNext]_vars

MirrorRuntime == IF runtimeAuto THEN AutoRuntime(battery) ELSE runtime

MirrorStatus ==
  LET s == DerivedStatus(host["delayShutdown"], host["remainTimeLimit"])
      expired == s.discharging /\ MirrorRuntime <= host["remainTimeLimit"]
  IN [charging |-> s.charging, discharging |-> s.discharging, ac_present |-> s.acPresent,
      below_remaining_capacity_limit |-> s.lowBattery,
      remaining_time_limit_expired |-> expired,
      need_replacement |-> s.needReplacement, fully_charged |-> s.fullyCharged,
      fully_discharged |-> s.fullyDischarged, shutdown_requested |-> s.shutdownRequested,
      shutdown_imminent |-> s.shutdownRequested \/ expired,
      communication_lost |-> s.communicationLost, overload |-> s.overload]

Sim == INSTANCE FirmwareSim WITH
  ARM_DEFAULT_LEASE <- ArmDefaultLease, ARM_MAX_LEASE <- ArmMaxLease,
  Advances <- 0 .. MaxLoop,
  now_ms <- now, arm_lease_ms <- lease, last_command_ms <- lastCommand,
  switch <- [ac_present |-> flag["acPresent"], overload |-> flag["overload"],
             need_replacement |-> flag["needReplacement"],
             communication_lost |-> flag["communicationLost"],
             shutdown_requested |-> flag["shutdownRequested"]],
  override <- [charging |-> mode["charging"], low_battery |-> mode["lowBattery"]],
  runtime_auto <- runtimeAuto, runtime_seconds <- MirrorRuntime,
  battery_percent <- battery,
  level <- [load |-> gauge["load"], voltage |-> gauge["voltage"],
            input |-> gauge["inputVoltage"], output |-> gauge["outputVoltage"]],
  host_delay <- [start |-> host["delayStartup"], shutdown |-> host["delayShutdown"],
                 reboot |-> host["delayReboot"]],
  hid_status <- MirrorStatus,
  silent <- IF armed /\ lease # 0 THEN Since(now, lastCommand) ELSE 0

(* Every step of the firmware is an operation of the simulator with the    *)
(* same effect and the same lease decision, or changes nothing it has.     *)
MirrorsFirmware == Sim!Spec
=============================================================================
