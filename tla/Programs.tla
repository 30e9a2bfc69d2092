------------------------------ MODULE Programs ------------------------------
(***************************************************************************)
(* The two programs of python-driver, ups-sim-selftest (selftest.py) and   *)
(* ups-sim (cli.py), run over TCP against the simulator of FirmwareSim.    *)
(*                                                                         *)
(* A program is a script: the lines it sends, one at a time, with what it  *)
(* requires of the reply.  UpsSimulator.connect() opens it and the self    *)
(* test closes it with a RESET, however it ends.  A reply carries the      *)
(* STATUS? fields as they were when the simulator executed the line, which *)
(* may be after the program has given up waiting.                          *)
(*                                                                         *)
(* Before a program starts, other controllers do what they like (the       *)
(* actions of FirmwareSim), so that it finds the simulator in any state.   *)
(***************************************************************************)
EXTENDS FirmwareSim, Sequences

CONSTANTS
  LongLease, ShortLease,  \* the 120 s and 30 s of the self test, in clock ticks
  CliLines,               \* the lines the command line is asked for
  ForeignLines            \* what another controller may send over the UART meanwhile

ASSUME ProgramAssumption == {LongLease, ShortLease} \subseteq 1 .. ARM_MAX_LEASE

(* The setters the command line calls format numbers; arm() and disarm()   *)
(* are the two that send ARM.                                              *)
ASSUME CliAssumption ==
  /\ CliLines \subseteq [op : STRING, arg : Int, arg2 : Int]
  /\ \A r \in CliLines : r.op = "ARM" => r.arg \in {Off, On}

VARIABLES
  job,        \* [program, line]: the program and, of ups-sim, the line
  stage,      \* where main() is
  step,       \* the line of that stage
  waiting,    \* command() waits for the reply
  outcome,    \* the exit status, once stage = "ended"
  link,       \* _sock: "closed", "open", or "dead" when the peer is gone
  lines,      \* sent and not yet read by the simulator
  answers,    \* replied and not yet read by the program
  disturbed,  \* auxiliary: "no", "yes", or "meddled" by another controller
  owner,      \* auxiliary: who armed the simulator last, "us" or "other"
  ran         \* auxiliary: how many lines of the program were executed

progress    == <<job, stage, step, waiting, outcome>>
traffic     == <<link, lines, answers>>
auxiliary   == <<disturbed, owner, ran>>
programVars == <<progress, traffic, auxiliary>>

Line(op, arg) == [op |-> op, arg |-> arg, arg2 |-> Absent]
ArmFor(ticks) == [op |-> "ARM", arg |-> On, arg2 |-> ticks]

-----------------------------------------------------------------------------
(* What the simulator answers, and what the driver makes of it.            *)

ModeName == [m \in {Automatic, Off, On} |-> CASE m = Automatic -> "auto" [] m = On -> "on" [] m = Off -> "off"]

StatusFields ==
  [armed |-> armed, ac_present |-> switch["ac_present"], battery_percent |-> battery_percent,
   runtime_seconds |-> runtime_seconds, runtime_mode |-> IF runtime_auto THEN "auto" ELSE "manual",
   voltage_centivolts |-> level.voltage, load_percent |-> level.load,
   input_voltage_centivolts |-> level.input, output_voltage_centivolts |-> level.output,
   charging_mode |-> ModeName[override.charging], charging_active |-> hid_status.charging,
   low_battery_mode |-> ModeName[override.low_battery],
   low_battery_active |-> hid_status.below_remaining_capacity_limit,
   overload |-> switch["overload"], need_replacement |-> switch["need_replacement"],
   communication_lost |-> switch["communication_lost"],
   shutdown_requested |-> switch["shutdown_requested"],
   shutdown_imminent |-> hid_status.shutdown_imminent,
   host_start_delay |-> host_delay.start, host_shutdown_delay |-> host_delay.shutdown,
   host_reboot_delay |-> host_delay.reboot]

NoFields == [f \in {} |-> 0]

(* the lines command() answers with OK *)
RepliesOk(r) ==
  \/ ReadOnly(r) \/ r.op \in {"STATUS?", "STATUS", "RESET", "REPORT"}
  \/ r.op = "ARM" /\ (r.arg = Off \/ (r.arg = On /\ LeaseArgument(r) \in 0 .. ARM_MAX_LEASE))
  \/ armed /\ Parses(r)

(* Slip: the range of the lease is left to the simulator. *)
DriverSendsAnyLease(r) ==
  \/ r.op \in {"ARM", "PING", "IDENT?", "STATUS?", "NETWORK?", "RESET", "REPORT"}
  \/ Parses(r)

(* The setters check the range before they send, else raise ValueError.    *)
DriverSends(r) ==
  \/ r.op \in {"PING", "IDENT?", "STATUS?", "NETWORK?", "RESET", "REPORT"}
  \/ r.op = "ARM" /\ (r.arg = Off \/ r.arg2 = Absent \/ (0 <= r.arg2 /\ r.arg2 <= ARM_MAX_LEASE))
  \/ r.op \in {"AC", "OVERLOAD", "REPLACE", "COMMLOST", "SHUTDOWN"} /\ r.arg \in {Off, On}
  \/ r.op \in {"CHARGING", "LOWBAT"} /\ r.arg \in {Automatic, On, Off}
  \/ r.op \in {"BATTERY", "LOAD"} /\ 0 <= r.arg /\ r.arg <= 100
  \/ r.op = "RUNTIME AUTO"
  \/ r.op \in {"RUNTIME", "VOLTAGE", "INPUTVOLTAGE", "OUTPUTVOLTAGE"} /\ 0 <= r.arg /\ r.arg <= 65535
  \/ r.op = "STARTDELAY" /\ -1 <= r.arg /\ r.arg <= 32767

-----------------------------------------------------------------------------
(* The scripts.  A step requires OK or ERR, and of OK some STATUS? fields. *)

Sends(r)       == [line |-> r, ok |-> TRUE, fields |-> NoFields]
IsRefused(r)   == [line |-> r, ok |-> FALSE, fields |-> NoFields]
Checks(fields) == [line |-> Line("STATUS?", Absent), ok |-> TRUE, fields |-> fields]
Query(op)      == Sends(Line(op, Absent))

Sets(op, arg, fields) == <<Sends(Line(op, arg)), Checks(fields)>>

Satisfies(answer, s) ==
  /\ answer.ok = s.ok
  /\ \A f \in DOMAIN s.fields : f \in DOMAIN answer.fields /\ answer.fields[f] = s.fields[f]

(* Slip: the self test disables the lease. *)
SelfTestArmsForGood == ArmFor(0)

SelfTestArms == ArmFor(LongLease)

SafeStateChecks == [armed |-> FALSE, ac_present |-> TRUE, battery_percent |-> 100]

QuerySteps ==
  <<Query("RESET"),
    Checks([armed |-> FALSE, ac_present |-> TRUE, battery_percent |-> 100, load_percent |-> 25,
            input_voltage_centivolts |-> 23000, output_voltage_centivolts |-> 23000]),
    Query("PING"), Query("IDENT?"), Query("NETWORK?"), Query("STATUS?"), Query("HELP"), Query("?"),
    IsRefused(Line("LOAD", 30))>>

MeasurementSteps ==
  <<Sends(SelfTestArms), Checks([armed |-> TRUE]), Query("REPORT")>>
  \o Sets("BATTERY", 73, [battery_percent |-> 73])
  \o Sets("RUNTIME", 1234, [runtime_seconds |-> 1234, runtime_mode |-> "manual"])
  \o Sets("RUNTIME AUTO", Absent, [runtime_mode |-> "auto"])
  \o Sets("VOLTAGE", 1325, [voltage_centivolts |-> 1325])
  \o Sets("LOAD", 42, [load_percent |-> 42])
  \o Sets("INPUTVOLTAGE", 22850, [input_voltage_centivolts |-> 22850])
  \o Sets("OUTPUTVOLTAGE", 22950, [output_voltage_centivolts |-> 22950])
  \o Sets("STARTDELAY", 15, [host_start_delay |-> 15])

FlagSteps ==
  Sets("CHARGING", On, [charging_mode |-> "on", charging_active |-> TRUE])
  \o Sets("CHARGING", Off, [charging_mode |-> "off", charging_active |-> FALSE])
  \o Sets("CHARGING", Automatic, [charging_mode |-> "auto"])
  \o Sets("AC", Off, [ac_present |-> FALSE]) \o Sets("AC", On, [ac_present |-> TRUE])
  \o Sets("LOWBAT", On, [low_battery_mode |-> "on", low_battery_active |-> TRUE])
  \o Sets("LOWBAT", Off, [low_battery_mode |-> "off", low_battery_active |-> FALSE])
  \o Sets("LOWBAT", Automatic, [low_battery_mode |-> "auto"])
  \o Sets("OVERLOAD", On, [overload |-> TRUE]) \o Sets("OVERLOAD", Off, [overload |-> FALSE])
  \o Sets("REPLACE", On, [need_replacement |-> TRUE]) \o Sets("REPLACE", Off, [need_replacement |-> FALSE])
  \o Sets("COMMLOST", On, [communication_lost |-> TRUE])
  \o Sets("COMMLOST", Off, [communication_lost |-> FALSE])
  \o Sets("SHUTDOWN", On, [shutdown_requested |-> TRUE, shutdown_imminent |-> TRUE])
  \o Sets("SHUTDOWN", Off, [shutdown_requested |-> FALSE])

ArmingSteps ==
  Sets("ARM", Off, SafeStateChecks)
  \o <<Sends(ArmFor(ShortLease)), Checks([armed |-> TRUE]), Query("RESET"), Checks(SafeStateChecks)>>

SelfTestSteps == QuerySteps \o MeasurementSteps \o FlagSteps \o ArmingSteps

(* transport.connect() with its _sync(), then identify() *)
Opening == <<Query("PING"), Query("IDENT?")>>

SelfTest == [program |-> "selftest", line |-> Line("RESET", Absent)]
CommandLine(r) == [program |-> "cli", line |-> r]
IsSelfTest == job.program = "selftest"

Steps(at) ==
  CASE at = "connect" -> Opening
    [] at = "body" -> IF IsSelfTest THEN SelfTestSteps ELSE <<Sends(job.line)>>
    [] at = "cleanup" -> <<Query("RESET")>>

Current == Steps(stage)[step]

AllSteps == Len(Opening) + (IF IsSelfTest THEN Len(SelfTestSteps) + 1 ELSE 1)

-----------------------------------------------------------------------------
(* How main() goes on, and how it ends.                                    *)

Disturbed == disturbed' = IF disturbed = "no" THEN "yes" ELSE disturbed

Ended(status) ==
  /\ stage' = "ended" /\ outcome' = status /\ waiting' = FALSE /\ step' = 1
  /\ link' = "closed" /\ answers' = <<>> /\ UNCHANGED job

GoesTo(next) ==
  /\ stage' = next /\ step' = 1 /\ waiting' = FALSE /\ UNCHANGED <<job, outcome, link>>

(* An exception in the body of the self test goes through the finally      *)
(* clause, which replaces it if the RESET raises one of its own.           *)
Raised(status) ==
  IF stage = "body" /\ IsSelfTest
  THEN /\ stage' = "cleanup" /\ step' = 1 /\ waiting' = FALSE /\ outcome' = status
       /\ UNCHANGED <<job, link>>
  ELSE Ended(status)

MoreSteps == step < Len(Steps(stage))

Returned ==
  IF MoreSteps
  THEN step' = step + 1 /\ waiting' = FALSE /\ UNCHANGED <<job, stage, outcome, link>>
  ELSE CASE stage = "connect" -> GoesTo("body")
         [] stage = "body" /\ IsSelfTest -> GoesTo("cleanup")
         [] OTHER -> Ended(outcome)

ErrorStatus == IF IsSelfTest THEN 1 ELSE 2
Interrupted == 130
Killed == 137

Running == stage \notin {"off", "ended"}

(* Nothing happens to the simulator or to what is on its way to it. *)
SimulatorUntouched == UNCHANGED <<vars, owner, ran>>

-----------------------------------------------------------------------------
(* main() up to the connection.                                            *)

StartSelfTest ==
  /\ stage = "off" /\ stage' \in {"hid", "discover"}
  /\ job' = SelfTest /\ UNCHANGED <<vars, step, waiting, outcome, traffic, auxiliary>>

StartCli ==
  /\ stage = "off" /\ stage' = "connect" /\ link' = "open"
  /\ \E r \in CliLines : job' = CommandLine(r)
  /\ UNCHANGED <<vars, step, waiting, outcome, lines, answers, auxiliary>>

(* what the scan of the USB devices can find *)
HidDevices == SUBSET {"candidate", "exact", "extended"}

(* Some HID candidate must be there, and if any descriptor could be read   *)
(* as a power device, one with the NUT extension.                          *)
HidCheck ==
  /\ stage = "hid"
  /\ \E devices \in HidDevices :
       IF devices # {} /\ ("exact" \in devices => "extended" \in devices)
       THEN GoesTo("discover") /\ UNCHANGED answers ELSE Ended(1)
  /\ SimulatorUntouched /\ UNCHANGED <<lines, disturbed>>

(* A probe is a connection of its own; the simulator executes its queries, *)
(* in time or not, or it is not probed, or --host spares it.               *)
Probe == Command(Line("IDENT?", Absent)) \/ UNCHANGED vars

(* how many hosts identified themselves in time, as far as main() looks *)
Found == 0 .. 2

Discover ==
  /\ stage = "discover" /\ Probe
  /\ \E found \in Found :
       IF found = 1 THEN GoesTo("precheck") /\ UNCHANGED answers ELSE Ended(1)
  /\ UNCHANGED <<lines, auxiliary>>

(* A live upsmon ends the self test unless --allow-live-nut was given.     *)
PreCheck ==
  /\ stage = "precheck"
  /\ \E monitors, allow_live_nut \in BOOLEAN :
       IF monitors /\ ~allow_live_nut THEN Ended(1)
       ELSE /\ stage' = "connect" /\ link' = "open"
            /\ UNCHANGED <<job, step, waiting, outcome, answers>>
  /\ SimulatorUntouched /\ UNCHANGED <<lines, disturbed>>

-----------------------------------------------------------------------------
(* The script.                                                             *)

Send ==
  /\ stage \in {"connect", "body", "cleanup"} /\ ~waiting /\ link = "open"
  /\ DriverSends(Current.line) \/ Current.line.op \in {"HELP", "?"}
  /\ lines' = Append(lines, Current.line) /\ waiting' = TRUE
  /\ SimulatorUntouched /\ UNCHANGED <<job, stage, step, outcome, link, answers, disturbed>>

(* ups-sim: the argument is out of range, nothing is sent *)
Reject ==
  /\ stage = "body" /\ ~IsSelfTest /\ ~waiting /\ ~DriverSends(Current.line)
  /\ Ended(ErrorStatus)
  /\ SimulatorUntouched /\ UNCHANGED <<lines, disturbed>>

Receive ==
  /\ waiting /\ answers # <<>>
  /\ IF Satisfies(Head(answers), Current)
     THEN Returned /\ (stage' # "ended" => answers' = Tail(answers))
     ELSE Raised(ErrorStatus) /\ (stage' # "ended" => answers' = Tail(answers))
  /\ SimulatorUntouched /\ UNCHANGED <<lines, disturbed>>

(* Slip: a reply that does not come is taken for a reply. *)
UnansweredGoesOn == Returned /\ (stage' # "ended" => UNCHANGED answers)

Unanswered == Raised(ErrorStatus) /\ (stage' # "ended" => UNCHANGED answers)

(* The wait for the reply runs out, or the connection is gone. *)
TimeOut ==
  /\ waiting /\ answers = <<>> /\ Unanswered /\ Disturbed
  /\ SimulatorUntouched /\ UNCHANGED lines

SendFails ==
  /\ stage \in {"connect", "body", "cleanup"} /\ ~waiting /\ link = "dead"
  /\ Raised(ErrorStatus) /\ (stage' # "ended" => UNCHANGED answers) /\ Disturbed
  /\ SimulatorUntouched /\ UNCHANGED lines

KeyboardInterrupt ==
  /\ Running /\ Raised(Interrupted) /\ (stage' # "ended" => UNCHANGED answers) /\ Disturbed
  /\ SimulatorUntouched /\ UNCHANGED lines

(* the process, or the PC it runs on, dies *)
Kill ==
  /\ Running /\ Ended(Killed) /\ Disturbed
  /\ SimulatorUntouched /\ UNCHANGED lines

-----------------------------------------------------------------------------
(* The simulator and the world.                                            *)

Owner(r) == IF r.op = "ARM" /\ r.arg = On /\ RepliesOk(r) THEN "us" ELSE owner

Execute ==
  /\ lines # <<>> /\ lines' = Tail(lines)
  /\ LET r == Head(lines) IN
     /\ Command(r) /\ owner' = Owner(r)
     /\ answers' = IF link = "open"
                   THEN Append(answers, [ok |-> RepliesOk(r),
                          fields |-> IF r.op = "STATUS?" THEN StatusFields' ELSE NoFields])
                   ELSE answers
  /\ ran' = ran + 1
  /\ UNCHANGED <<progress, link, disturbed>>

(* Another client takes the connection over, or the network is cut. *)
Cut ==
  /\ link = "open" /\ link' = "dead" /\ lines' \in {lines, <<>>}
  /\ SimulatorUntouched /\ Disturbed /\ UNCHANGED <<progress, answers>>

(* What the simulator has not read when the connection ends may be lost. *)
Lose ==
  /\ link = "closed" /\ lines # <<>> /\ lines' = <<>>
  /\ SimulatorUntouched /\ UNCHANGED <<progress, link, answers, disturbed>>

(* A lease that ends under a running program has seen it suspended: it     *)
(* never waits as long as a lease for a reply.                             *)
Pass(ms) ==
  /\ Advance(ms)
  /\ IF Running /\ owner = "us" /\ armed /\ ~armed' THEN Disturbed ELSE UNCHANGED disturbed
  /\ UNCHANGED <<progress, traffic, owner, ran>>

Meddle ==
  /\ Running /\ disturbed # "meddled" /\ disturbed' = "meddled"
  /\ \E r \in ForeignLines :
       /\ Command(r)
       /\ owner' = IF r.op = "ARM" THEN "other" ELSE owner
  /\ UNCHANGED <<progress, traffic, ran>>

BeforeStart ==
  /\ stage = "off" /\ \E r \in Requests : Command(r)
  /\ UNCHANGED programVars

ProgramsInit ==
  /\ Init
  /\ job = SelfTest /\ stage = "off" /\ step = 1 /\ waiting = FALSE /\ outcome = 0
  /\ link = "closed" /\ lines = <<>> /\ answers = <<>>
  /\ disturbed = "no" /\ owner = "other" /\ ran = 0

MainStep == HidCheck \/ Discover \/ PreCheck \/ Send \/ Reject \/ Receive \/ TimeOut \/ SendFails

ProgramsNext ==
  \/ BeforeStart \/ StartSelfTest \/ StartCli
  \/ MainStep \/ KeyboardInterrupt \/ Kill
  \/ Execute \/ Cut \/ Lose \/ Meddle
  \/ \E ms \in Advances : Pass(ms)

(* A started program goes on, the simulator reads what it is sent (or the  *)
(* end of the connection loses it), and time passes.                       *)
ProgramsFairness ==
  /\ WF_<<vars, programVars>>(MainStep) /\ WF_<<vars, programVars>>(Execute \/ Lose)
  /\ WF_<<vars, programVars>>(\E ms \in Advances : Pass(ms))

ProgramsSpec == ProgramsInit /\ [][ProgramsNext]_<<vars, programVars>> /\ ProgramsFairness

-----------------------------------------------------------------------------
ProgramsTypeOK ==
  /\ TypeOK
  /\ job \in {SelfTest} \cup {CommandLine(r) : r \in CliLines}
  /\ stage \in {"off", "hid", "discover", "precheck", "connect", "body", "cleanup", "ended"}
  /\ stage \in {"connect", "body", "cleanup"} => step \in 1 .. Len(Steps(stage))
  /\ waiting \in BOOLEAN /\ outcome \in {0, 1, 2, Interrupted, Killed}
  /\ link \in {"closed", "open", "dead"}
  /\ disturbed \in {"no", "yes", "meddled"} /\ owner \in {"us", "other"}
  /\ ran \in 0 .. AllSteps

(* The seventy expectations of the self test agree with the simulator: in  *)
(* whatever state earlier controllers left it, a self test that loses no   *)
(* reply and is neither suspended nor meddled with passes.  ups-sim fails  *)
(* undisturbed only when the simulator is disarmed, or before it sends.    *)
NoFalseAlarm ==
  stage = "ended" /\ disturbed = "no" /\ ran > 0 /\ outcome # 0 =>
    ~IsSelfTest /\ (ran = Len(Opening) \/ ~armed)

(* Exit status 0 is the truth: every line of the program was executed      *)
(* once, no reply was taken for another's, and after the self test, "reset"*)
(* or "disarm" the simulator is disarmed unless another controller armed   *)
(* it.                                                                     *)
ZeroIsTrue ==
  stage = "ended" /\ outcome = 0 =>
    /\ ran = AllSteps
    /\ disturbed # "meddled" /\ (IsSelfTest \/ job.line.op = "RESET" \/ job.line = Line("ARM", Off))
         => ~armed

(* Every self test ends, and however it does (a failed check, a timeout, a *)
(* cut connection, Ctrl-C, a kill, a RESET that was lost), the simulator   *)
(* it armed does not stay armed.                                           *)
SelfTestLeavesSafe ==
  Running /\ IsSelfTest ~> stage = "ended" /\ (~armed \/ owner # "us")

(* The values at the ends of the ranges. *)
EdgeLines ==
  {Line(op, v) : op \in DOMAIN SwitchOf \cup DOMAIN OverrideOf \cup DOMAIN LevelOf
                        \cup {"BATTERY", "RUNTIME", "STARTDELAY"},
                 v \in {-2, -1, 0, 1, 100, 101, 32767, 32768, 65535, 65536}}
  \cup {ArmFor(v) : v \in {-1, 0, ARM_MAX_LEASE, ARM_MAX_LEASE + 1}}

(* The driver sends exactly the values an armed simulator takes, at the    *)
(* ends of every range it checks: ups-sim never reports a success or an    *)
(* error the other side would not.  (Asked in every armed state a program  *)
(* may find.)                                                              *)
DriverAgrees ==
  stage = "off" /\ armed => \A r \in EdgeLines : DriverSends(r) <=> RepliesOk(r)
=============================================================================
