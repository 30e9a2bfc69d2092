----------------------------- MODULE MCFirmware -----------------------------
(* Slices of the firmware's input for TLC: each cfg picks the lines the    *)
(* controllers send and the Features the host writes.                      *)
EXTENDS Firmware

Line(op, arg)    == [op |-> op, arg |-> arg, arg2 |-> NoToken]
ArmFor(ticks)    == [op |-> "ARM", arg |-> ON, arg2 |-> ticks]
Write(f, v)      == [feature |-> f, value |-> v]

(* The scenario: every flag that feeds another status bit, both overrides, *)
(* a full, a low and an empty battery, a runtime at the limit, a gauge and *)
(* a delay that no status bit depends on.                                  *)
ScenarioRequests ==
  {ArmFor(0), Line("RESET", NoToken), Line("AC", OFF), Line("AC", ON),
   Line("SHUTDOWN", ON), Line("CHARGING", ON), Line("CHARGING", AUTO), Line("LOWBAT", OFF),
   Line("BATTERY", 0), Line("BATTERY", 5), Line("RUNTIME", 600),
   Line("RUNTIME AUTO", NoToken), Line("VOLTAGE", 1100), Line("STARTDELAY", 30)}

ScenarioHostWrites == {Write("delayShutdown", 20), Write("remnCapacityLimit", 100)}

(* The lease: short, longer and disabled, refreshed by a query and by a    *)
(* line that is refused, ended by RESET, across the wrap of the clock, and *)
(* lines whose argument is missing or out of range.                        *)
LeaseRequests ==
  {ArmFor(NoToken), ArmFor(2), ArmFor(0), ArmFor(9), Line("ARM", OFF), Line("ARM", NoToken),
   Line("PING", NoToken), Line("BOGUS", NoToken), Line("STATUS?", NoToken),
   Line("REPORT", NoToken), Line("OVERLOAD", ON), Line("LOAD", 101),
   Line("STARTDELAY", NoToken)}

(* The status depends on the delay while armed, and on the limit always.   *)
LeaseHostWrites == {Write("delayShutdown", 20), Write("remnCapacityLimit", 100)}

(* A host that raises the limit below which the battery counts as low.     *)
LimitRequests == {ArmFor(0), Line("RESET", NoToken), Line("BATTERY", 5)}

LimitHostWrites == {Write("remnCapacityLimit", 100)}

NoHostWrites == {}
=============================================================================
