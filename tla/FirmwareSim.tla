----------------------------- MODULE FirmwareSim -----------------------------
(***************************************************************************)
(* class FirmwareSimulator (python-driver/src/ups_simulator/               *)
(* firmware_sim.py): the firmware's behaviour as a single-threaded object. *)
(* command() runs a line to completion, its _update_model() included, and  *)
(* advance() moves the clock and checks the lease at once.                 *)
(*                                                                         *)
(* A request is a parsed line [op, arg, arg2] as in module Firmware.       *)
(***************************************************************************)
EXTENDS Integers

CONSTANTS
  ClockWrap,          \* now_ms counts modulo this (0xFFFFFFFF + 1)
  ARM_DEFAULT_LEASE,  \* ARM_DEFAULT_LEASE_SEC * 1000, in clock ticks
  ARM_MAX_LEASE,      \* ARM_MAX_LEASE_SEC * 1000, in clock ticks
  Requests,           \* the lines passed to command()
  Advances            \* the amounts passed to advance()

FULL_CHARGE_CAPACITY == 100
LOW_BATTERY_LIMIT    == 5
REMAIN_TIME_LIMIT    == 600
AVG_TIME_TO_EMPTY    == 7200

Absent == -2          \* the line has no such token
Off == 0
On  == 1
Automatic == -1

UINT16_MAX == 65535
INT16_MAX  == 32767

UInt16 == 0 .. UINT16_MAX
StartDelays == -1 .. INT16_MAX

ASSUME SimAssumption ==
  /\ ClockWrap \in Nat /\ ARM_MAX_LEASE \in Nat /\ ARM_MAX_LEASE < ClockWrap
  /\ ARM_DEFAULT_LEASE \in 0 .. ARM_MAX_LEASE
  /\ Requests \subseteq [op : STRING, arg : Int, arg2 : Int]
  /\ Advances \subseteq Nat

VARIABLES
  now_ms, armed, arm_lease_ms, last_command_ms,
  switch,             \* ac_present, overload, ... by name
  override,           \* charging_mode, low_battery_mode
  runtime_auto, runtime_seconds, battery_percent,
  level,              \* load_percent and the three voltages
  host_delay,         \* host_start_delay, host_shutdown_delay, host_reboot_delay
  hid_status,
  silent              \* auxiliary: true time since the last line

vars == <<now_ms, armed, arm_lease_ms, last_command_ms, switch, override,
          runtime_auto, runtime_seconds, battery_percent, level, host_delay,
          hid_status, silent>>

Switches == {"ac_present", "overload", "need_replacement", "communication_lost",
             "shutdown_requested"}

SafeSwitch   == [s \in Switches |-> s = "ac_present"]
SafeOverride == [charging |-> Automatic, low_battery |-> Automatic]
SafeLevel    == [load |-> 25, voltage |-> 1300, input |-> 23000, output |-> 23000]
NoDelay      == [start |-> -1, shutdown |-> -1, reboot |-> -1]

-----------------------------------------------------------------------------
(* _update_model(), as a function of the attributes it reads: every caller *)
(* passes the values its own assignments left behind.                      *)

AutoRuntime(charge) == (AVG_TIME_TO_EMPTY * charge) \div FULL_CHARGE_CAPACITY

RuntimeAfter(auto, seconds, charge) == IF auto THEN AutoRuntime(charge) ELSE seconds

(* Slip: a forced override is OR-ed with the automatic value. *)
ForcedLeaks(m, auto) == auto \/ m = On

Forced(m, auto) == IF m = Automatic THEN auto ELSE m = On

StatusFrom(arm, s, o, charge, seconds, delay) ==
  LET discharging == ~s["ac_present"] /\ charge > 0
      expired     == discharging /\ seconds <= REMAIN_TIME_LIMIT
      requested   == arm /\ (s["shutdown_requested"] \/ delay > 0)
  IN [charging    |-> Forced(o.charging, s["ac_present"] /\ charge < FULL_CHARGE_CAPACITY),
      discharging |-> discharging,
      ac_present  |-> s["ac_present"],
      below_remaining_capacity_limit |-> Forced(o.low_battery, charge <= LOW_BATTERY_LIMIT),
      remaining_time_limit_expired   |-> expired,
      need_replacement   |-> s["need_replacement"],
      fully_charged      |-> charge >= FULL_CHARGE_CAPACITY,
      fully_discharged   |-> charge = 0,
      shutdown_requested |-> requested,
      shutdown_imminent  |-> requested \/ expired,
      communication_lost |-> s["communication_lost"],
      overload           |-> s["overload"]]

(* Slip: the status is taken before the disarming assignments. *)
UpdateModelTooEarly ==
  hid_status' = StatusFrom(armed, switch, override, battery_percent,
                           runtime_seconds, host_delay.shutdown)

(* _update_model() at the end of an operation *)
UpdateModel ==
  hid_status' = StatusFrom(armed', switch', override', battery_percent',
                           runtime_seconds', host_delay'.shutdown)

(* Slip: the start delay is left out of the reset. *)
RestoreKeepsDelay ==
  /\ switch' = SafeSwitch /\ override' = SafeOverride /\ level' = SafeLevel
  /\ runtime_auto' = TRUE /\ runtime_seconds' = AVG_TIME_TO_EMPTY
  /\ battery_percent' = 100 /\ UNCHANGED host_delay

Restore ==
  /\ switch' = SafeSwitch /\ override' = SafeOverride /\ level' = SafeLevel
  /\ runtime_auto' = TRUE /\ runtime_seconds' = AVG_TIME_TO_EMPTY
  /\ battery_percent' = 100 /\ host_delay' = NoDelay

(* _set_safe_state() *)
SetSafeState ==
  /\ armed' = FALSE /\ arm_lease_ms' = 0 /\ last_command_ms' = 0
  /\ Restore

-----------------------------------------------------------------------------
(* command()                                                               *)

Refresh ==
  /\ last_command_ms' = IF armed THEN now_ms ELSE last_command_ms
  /\ silent' = 0

ScenarioVars == <<switch, override, runtime_auto, runtime_seconds,
                  battery_percent, level, host_delay>>

(* queries, and every line answered with ERR *)
ReadOnly(r) == r.op \in {"PING", "IDENT?", "HELP", "?", "NETWORK?"}

LeaseArgument(r) == IF r.arg2 = Absent THEN ARM_DEFAULT_LEASE ELSE r.arg2

SwitchOf == [AC |-> "ac_present", OVERLOAD |-> "overload", REPLACE |-> "need_replacement",
             COMMLOST |-> "communication_lost", SHUTDOWN |-> "shutdown_requested"]
OverrideOf == [CHARGING |-> "charging", LOWBAT |-> "low_battery"]
LevelOf == [LOAD |-> "load", VOLTAGE |-> "voltage",
            INPUTVOLTAGE |-> "input", OUTPUTVOLTAGE |-> "output"]

Parses(r) ==
  \/ r.op \in DOMAIN SwitchOf   /\ r.arg \in {Off, On}
  \/ r.op \in DOMAIN OverrideOf /\ r.arg \in {Automatic, Off, On}
  \/ r.op \in {"BATTERY", "LOAD"} /\ r.arg \in 0 .. 100
  \/ r.op \in {"VOLTAGE", "INPUTVOLTAGE", "OUTPUTVOLTAGE", "RUNTIME"} /\ r.arg \in UInt16
  \/ r.op = "RUNTIME AUTO"
  \/ r.op = "STARTDELAY" /\ r.arg \in StartDelays

Answer(r) ==
  /\ \/ ReadOnly(r)
     \/ r.op = "ARM" /\ r.arg \notin {Off, On}
     \/ r.op = "ARM" /\ r.arg = On /\ LeaseArgument(r) \notin 0 .. ARM_MAX_LEASE
     \/ /\ ~ReadOnly(r) /\ r.op \notin {"STATUS?", "STATUS", "ARM", "RESET", "REPORT"}
        /\ ~armed \/ ~Parses(r)
  /\ Refresh
  /\ UNCHANGED <<now_ms, armed, arm_lease_ms, ScenarioVars, hid_status>>

(* STATUS? goes through status_fields(), REPORT has nothing to send here   *)
Recompute(r) ==
  /\ r.op \in {"STATUS?", "STATUS", "REPORT"} /\ Refresh
  /\ runtime_seconds' = RuntimeAfter(runtime_auto, runtime_seconds, battery_percent)
  /\ UNCHANGED <<now_ms, armed, arm_lease_ms, switch, override, runtime_auto,
                 battery_percent, level, host_delay>>
  /\ UpdateModel

Arm(r) ==
  /\ r.op = "ARM" /\ r.arg = On /\ LeaseArgument(r) \in 0 .. ARM_MAX_LEASE
  /\ armed' = TRUE /\ arm_lease_ms' = LeaseArgument(r)
  /\ last_command_ms' = now_ms /\ silent' = 0
  /\ runtime_seconds' = RuntimeAfter(runtime_auto, runtime_seconds, battery_percent)
  /\ UNCHANGED <<now_ms, switch, override, runtime_auto, battery_percent, level, host_delay>>
  /\ UpdateModel

Disarm(r) ==
  /\ r.op = "RESET" \/ (r.op = "ARM" /\ r.arg = Off)
  /\ SetSafeState /\ UpdateModel /\ silent' = 0 /\ UNCHANGED now_ms

Change(r) ==
  /\ armed /\ Parses(r) /\ Refresh
  /\ switch' = IF r.op \in DOMAIN SwitchOf
               THEN [switch EXCEPT ![SwitchOf[r.op]] = (r.arg = On)] ELSE switch
  /\ override' = IF r.op \in DOMAIN OverrideOf
                 THEN [override EXCEPT ![OverrideOf[r.op]] = r.arg] ELSE override
  /\ level' = IF r.op \in DOMAIN LevelOf
              THEN [level EXCEPT ![LevelOf[r.op]] = r.arg] ELSE level
  /\ battery_percent' = IF r.op = "BATTERY" THEN r.arg ELSE battery_percent
  /\ runtime_auto' = (r.op = "RUNTIME AUTO" \/ (runtime_auto /\ r.op # "RUNTIME"))
  /\ runtime_seconds' = IF r.op = "RUNTIME" THEN r.arg
                        ELSE RuntimeAfter(runtime_auto', runtime_seconds, battery_percent')
  /\ host_delay' = IF r.op = "STARTDELAY" THEN [host_delay EXCEPT !["start"] = r.arg]
                   ELSE host_delay
  /\ UNCHANGED <<now_ms, armed, arm_lease_ms>>
  /\ UpdateModel

Command(r) == Answer(r) \/ Recompute(r) \/ Arm(r) \/ Disarm(r) \/ Change(r)

-----------------------------------------------------------------------------
(* advance(), with the _check_lease() it calls                             *)

(* Slip: the mask that wraps the difference is forgotten. *)
ElapsedUnmasked(t) == t - last_command_ms

(* Slip: the clock itself is not masked. *)
WrappedUnmasked(t) == t

Wrapped(t) == t % ClockWrap

Elapsed(t) == (t - last_command_ms) % ClockWrap

Advance(ms) ==
  /\ now_ms' = Wrapped(now_ms + ms)
  /\ IF armed /\ arm_lease_ms # 0 /\ Elapsed(now_ms') >= arm_lease_ms
     THEN SetSafeState /\ UpdateModel /\ silent' = 0
     ELSE /\ silent' = IF armed /\ arm_lease_ms # 0 THEN silent + ms ELSE 0
          /\ UNCHANGED <<armed, arm_lease_ms, last_command_ms, ScenarioVars, hid_status>>

Init ==
  /\ now_ms = 0 /\ armed = FALSE /\ arm_lease_ms = 0 /\ last_command_ms = 0
  /\ switch = SafeSwitch /\ override = SafeOverride /\ level = SafeLevel
  /\ runtime_auto = TRUE /\ runtime_seconds = AVG_TIME_TO_EMPTY
  /\ battery_percent = 100 /\ host_delay = NoDelay /\ silent = 0
  /\ hid_status = StatusFrom(FALSE, SafeSwitch, SafeOverride, 100, AVG_TIME_TO_EMPTY, -1)

Next ==
  \/ \E r \in Requests : Command(r)
  \/ \E ms \in Advances : Advance(ms)

Spec == Init /\ [][Next]_vars

-----------------------------------------------------------------------------
(* hid_status is not repeated here: StatusIsCurrent gives its value.       *)
TypeOK ==
  /\ now_ms \in 0 .. ClockWrap - 1 /\ last_command_ms \in 0 .. ClockWrap - 1
  /\ armed \in BOOLEAN /\ arm_lease_ms \in 0 .. ARM_MAX_LEASE /\ silent \in Nat
  /\ switch \in [Switches -> BOOLEAN]
  /\ override \in [{"charging", "low_battery"} -> {Automatic, Off, On}]
  /\ runtime_auto \in BOOLEAN /\ runtime_seconds \in UInt16
  /\ battery_percent \in 0 .. 100
  /\ level \in [DOMAIN SafeLevel -> UInt16]
  /\ host_delay \in [DOMAIN NoDelay -> StartDelays]

(* After every operation hid_status is the status of the attributes as     *)
(* they now are: no path through command() or advance() leaves it behind.  *)
StatusIsCurrent ==
  hid_status = StatusFrom(armed, switch, override, battery_percent,
                          runtime_seconds, host_delay.shutdown)

(* advance() cuts the lease off exactly: no operation ever finds the       *)
(* object armed although its lease has run out, across the wrap of now_ms  *)
(* and for any single step shorter than ClockWrap minus the lease.         *)
LeaseCutsOff == armed /\ arm_lease_ms # 0 => silent < arm_lease_ms

(* A disarmed object holds nothing but the defaults.                       *)
DisarmedIsSafe ==
  ~armed => /\ switch = SafeSwitch /\ override = SafeOverride /\ level = SafeLevel
            /\ runtime_auto /\ runtime_seconds = AVG_TIME_TO_EMPTY
            /\ battery_percent = 100 /\ host_delay = NoDelay /\ arm_lease_ms = 0
=============================================================================
