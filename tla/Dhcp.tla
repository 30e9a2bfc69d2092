-------------------------------- MODULE Dhcp --------------------------------
(***************************************************************************)
(* The DHCP timer of UPS_Simulator_Ethernet.ino: initEthernet() at the end *)
(* of setup(), and the check at the top of loop(), which compares two      *)
(* samples of the wrapping millis() by the sign of their difference and is *)
(* skipped while the simulator is armed.                                   *)
(*                                                                         *)
(* Whether it is armed is up to module Firmware; here it changes in any    *)
(* pass.  Ethernet.begin() and Ethernet.maintain() block for a while.      *)
(***************************************************************************)
EXTENDS Integers

CONSTANTS
  MillisWrap,                  \* 2^32
  DHCP_MAINTAIN_INTERVAL_MS,
  DHCP_RETRY_INTERVAL_MS,
  MaxBlock,                    \* how long a pass, or a call of the library, takes at most
  MaxAge                       \* bound: how long maintenance is counted to be away

HalfWrap == MillisWrap \div 2
Intervals == {DHCP_MAINTAIN_INTERVAL_MS, DHCP_RETRY_INTERVAL_MS}

ASSUME DhcpAssumption ==
  /\ {MillisWrap, MaxBlock, MaxAge} \cup Intervals \subseteq Nat \ {0}
  /\ \A i \in Intervals : i < HalfWrap /\ HalfWrap + i < MaxAge

VARIABLES
  dhcpLeased, nextDhcpMaintainMs,
  armed,       \* sim.armed
  millis,      \* millis()
  network,     \* "down" before initEthernet(), then where loop() is: "top" or "rest"
  interval,    \* auxiliary: the interval nextDhcpMaintainMs was set to
  age          \* auxiliary: the true time since then, up to MaxAge

timer == <<dhcpLeased, nextDhcpMaintainMs, interval>>
dhcpVars == <<timer, armed, millis, network, age>>

Least(a, b) == IF a < b THEN a ELSE b

Elapsed(t) == millis' = (millis + t) % MillisWrap

Schedule(i) == nextDhcpMaintainMs' = (millis' + i) % MillisWrap /\ interval' = i /\ age' = 0

-----------------------------------------------------------------------------
DhcpInit ==
  /\ dhcpLeased = FALSE /\ nextDhcpMaintainMs = 0 /\ armed = FALSE /\ network = "down"
  /\ millis = 0 /\ interval = 0 /\ age = 0

(* Ethernet.begin() gets a lease or does not; setup() ends.                *)
InitEthernet ==
  /\ network = "down" /\ network' = "top" /\ dhcpLeased' \in BOOLEAN
  /\ \E t \in 0 .. MaxBlock : Elapsed(t)
  /\ Schedule(DHCP_MAINTAIN_INTERVAL_MS) /\ UNCHANGED armed

(* Slip: compared as times instead of by their difference. *)
DueUnsigned == millis >= nextDhcpMaintainMs

(* Slip: due only at the very millisecond. *)
DueAtTheMoment == millis = nextDhcpMaintainMs

(* (long)(now - nextDhcpMaintainMs) >= 0 *)
Due == (millis - nextDhcpMaintainMs) % MillisWrap < HalfWrap

(* Return codes 1 and 3 are failures to renew and to rebind. *)
Maintain ==
  /\ network = "top" /\ ~armed /\ dhcpLeased /\ Due
  /\ network' = "rest"
  /\ \E t \in 0 .. MaxBlock : Elapsed(t)
  /\ \E i \in Intervals : Schedule(i)
  /\ UNCHANGED <<dhcpLeased, armed>>

SkipMaintain ==
  /\ network = "top" /\ ~(~armed /\ dhcpLeased /\ Due)
  /\ network' = "rest" /\ UNCHANGED <<timer, armed, millis, age>>

(* The rest of the pass: the next lease check or a line may arm or disarm. *)
RestOfPass ==
  /\ network = "rest" /\ network' = "top" /\ armed' \in BOOLEAN
  /\ \E t \in 0 .. MaxBlock : Elapsed(t) /\ age' = Least(age + t, MaxAge)
  /\ UNCHANGED timer

(* The passes that take no time at all do not go on for ever. *)
TimePasses == RestOfPass /\ millis' # millis

DhcpLoop == Maintain \/ SkipMaintain \/ RestOfPass

-----------------------------------------------------------------------------
DhcpTypeOK ==
  /\ dhcpLeased \in BOOLEAN /\ armed \in BOOLEAN
  /\ {nextDhcpMaintainMs, millis} \subseteq 0 .. MillisWrap - 1
  /\ network \in {"down", "top", "rest"} /\ interval \in {0} \cup Intervals /\ age \in 0 .. MaxAge

(* However often millis() wraps, and however long the simulator was armed, *)
(* the library is never called before the interval has really passed: an   *)
(* armed session of weeks is not followed by a burst of renewals.          *)
NeverTooSoon == [][Maintain => age >= interval]_dhcpVars

(* Maintenance a disarmed pass leaves undone is not due yet, or has been   *)
(* put off by armed sessions for more than half the range of millis()      *)
(* (24.8 days), when the difference of the samples looks negative again.   *)
LateOnlyByHalfTheRange ==
  [][SkipMaintain /\ dhcpLeased /\ ~armed => age < interval \/ age >= interval + HalfWrap]_dhcpVars

(* Even then it is only late: once the simulator stays disarmed, a lease   *)
(* that was obtained is maintained again and again.                        *)
LeaseIsMaintained == <>[](~armed) => []<>(dhcpLeased => age = 0)
=============================================================================
