---------------------------- MODULE BasicExample ----------------------------
(***************************************************************************)
(* The basic UPS of examples/UPS/UPS.ino: one loop that samples the pins,  *)
(* computes iPresentStatus in place, waits two seconds and sends what has  *)
(* changed.  The host writes two of the features it may write, the delay   *)
(* before shutdown and the remaining time limit, from the USB interrupt.   *)
(*                                                                         *)
(* The sketch reads these 16-bit values without an ATOMIC_BLOCK, so that   *)
(* the interrupt may fall between the reads of their bytes, in whichever   *)
(* order the compiler has put them.  They are words here, 0 .. 65535.      *)
(***************************************************************************)
EXTENDS Integers

CONSTANTS
  MINUPDATEINTERVAL,  \* in seconds; the loop counts two in a pass
  Charges,            \* the charges, in percent, the analog input gives
  Delays, Limits,     \* the words the host writes
  MaxChanges          \* bound: changes of the pins, writes and unpluggings

UINT16_MAX == 65535

ASSUME BasicAssumption ==
  /\ MINUPDATEINTERVAL \in Nat /\ MaxChanges \in Nat
  /\ Charges \subseteq 0 .. 100 /\ Delays \cup Limits \subseteq 0 .. UINT16_MAX

iAvgTimeToEmpty == 7200
iFullChargeCapacity == 100

VARIABLES
  ac, charge,          \* what the pins show
  iRemaining, iRunTimeToEmpty, bDischarging,
  status,              \* iPresentStatus, without the bits that never differ
  iDelayBe4ShutDown, iRemainTimeLimit,
  half,                \* the byte of one of them that is read first
  previous,            \* iPreviousStatus, iPrevRemaining, iPrevRunTimeToEmpty
  iIntTimer,
  pc,                  \* the point loop() has reached
  online,              \* whether the host takes reports
  seen,                \* the last status the host has got
  changes, quiet,      \* auxiliary: the bound, and that no change follows
  stale,               \* auxiliary: passes on end that left the host an old status (stops counting
                       \* when they are too many)
  everAsked            \* auxiliary: the delay has been positive

inputs == <<ac, charge, iDelayBe4ShutDown, iRemainTimeLimit, online, changes, quiet, everAsked>>
computed == <<iRemaining, iRunTimeToEmpty, bDischarging, status>>
vars == <<inputs, computed, half, previous, iIntTimer, pc, seen, stale>>

Signed(word) == IF word >= 32768 THEN word - 65536 ELSE word
Byte(word, which) == IF which = "low" THEN word % 256 ELSE word \div 256

NoStatus == [charging |-> FALSE, full |-> FALSE, discharging |-> FALSE, expired |-> FALSE,
             requested |-> FALSE, imminent |-> FALSE]

-----------------------------------------------------------------------------
(* loop().                                                                 *)

Runtime(remaining) == (iAvgTimeToEmpty * remaining) \div iFullChargeCapacity

Measure ==
  /\ pc = "measure" /\ pc' = "limit"
  /\ iRemaining' = charge /\ iRunTimeToEmpty' = Runtime(charge) /\ bDischarging' = ~ac
  /\ status' = [status EXCEPT !.charging = ac, !.full = charge = iFullChargeCapacity,
                              !.discharging = ~ac, !.expired = @ /\ ~ac]
  /\ UNCHANGED <<inputs, half, previous, iIntTimer, seen, stale>>

(* The value put together from the byte read before and the other one now. *)
Joined(word) ==
  IF half.which = "low" THEN 256 * Byte(word, "high") + half.byte
                        ELSE 256 * half.byte + Byte(word, "low")

Word == IF pc = "limit" THEN iRemainTimeLimit ELSE iDelayBe4ShutDown

ReadOneByte ==
  /\ half.which = "none" /\ (pc = "delay" \/ (pc = "limit" /\ bDischarging))
  /\ \E w \in {"low", "high"} : half' = [which |-> w, byte |-> Byte(Word, w)]
  /\ UNCHANGED <<inputs, computed, previous, iIntTimer, pc, seen, stale>>

NothingRead == [which |-> "none", byte |-> 0]

CompareLimit ==
  /\ pc = "limit" /\ pc' = "delay"
  /\ \/ ~bDischarging /\ UNCHANGED <<status, half>>
     \/ /\ half.which # "none" /\ half' = NothingRead
        /\ status' = [status EXCEPT !.expired = iRunTimeToEmpty < Joined(iRemainTimeLimit)]
  /\ UNCHANGED <<inputs, iRemaining, iRunTimeToEmpty, bDischarging, previous, iIntTimer, seen, stale>>

(* Slip: counted from zero in every pass. *)
TickedAnew == 2

(* The two delay(1000), each with an iIntTimer++. *)
Ticked == iIntTimer + 2

CheckDelay ==
  /\ pc = "delay" /\ pc' = "report"
  /\ half.which # "none" /\ half' = NothingRead
  /\ LET asked == Signed(Joined(iDelayBe4ShutDown)) > 0
     IN status' = [status EXCEPT !.requested = asked, !.imminent = asked \/ status.expired]
  /\ iIntTimer' = Ticked
  /\ UNCHANGED <<inputs, iRemaining, iRunTimeToEmpty, bDischarging, previous, seen, stale>>

Current == [status |-> status, remaining |-> iRemaining, runtime |-> iRunTimeToEmpty]

WorthSending == Current # previous \/ iIntTimer > MINUPDATEINTERVAL

(* Slip: the timer starts too early. *)
RecordLate == previous' = Current /\ iIntTimer' = -2

Record == previous' = Current /\ iIntTimer' = 0

(* The reports fail or not as a whole; the snapshot is taken in any case.  *)
Report ==
  /\ pc = "report" /\ pc' = "measure"
  /\ \/ /\ WorthSending /\ Record
        /\ seen' = IF online THEN status ELSE seen
     \/ ~WorthSending /\ UNCHANGED <<previous, iIntTimer, seen>>
  /\ stale' = IF seen' = status \/ ~online THEN 0
              ELSE IF stale > MINUPDATEINTERVAL THEN stale ELSE stale + 1
  /\ UNCHANGED <<inputs, computed, half>>

-----------------------------------------------------------------------------
(* The world around it.                                                    *)

Change ==
  /\ ~quiet /\ changes < MaxChanges /\ changes' = changes + 1
  /\ UNCHANGED <<computed, half, previous, iIntTimer, pc, seen, quiet>>

MovePins ==
  /\ Change /\ ac' \in BOOLEAN /\ charge' \in Charges
  /\ UNCHANGED <<iDelayBe4ShutDown, iRemainTimeLimit, online, everAsked, stale>>

HostWrite ==
  /\ Change /\ online
  /\ \/ iDelayBe4ShutDown' \in Delays /\ UNCHANGED iRemainTimeLimit
     \/ iRemainTimeLimit' \in Limits /\ UNCHANGED iDelayBe4ShutDown
  /\ everAsked' = (everAsked \/ Signed(iDelayBe4ShutDown') > 0)
  /\ UNCHANGED <<ac, charge, online, stale>>

Plug ==
  /\ Change /\ online' = ~online /\ stale' = 0
  /\ UNCHANGED <<ac, charge, iDelayBe4ShutDown, iRemainTimeLimit, everAsked>>

Settle ==
  /\ online /\ ~quiet /\ quiet' = TRUE
  /\ UNCHANGED <<ac, charge, iDelayBe4ShutDown, iRemainTimeLimit, online, changes, everAsked,
                 computed, half, previous, iIntTimer, pc, seen, stale>>

Init ==
  /\ ac \in BOOLEAN /\ charge \in Charges
  /\ iRemaining = 0 /\ iRunTimeToEmpty = 0 /\ bDischarging = FALSE /\ status = NoStatus
  /\ iDelayBe4ShutDown = 65535 /\ iRemainTimeLimit = 600 /\ half = NothingRead
  /\ previous = [status |-> NoStatus, remaining |-> 0, runtime |-> 0]
  /\ iIntTimer = 0 /\ pc = "measure" /\ online \in BOOLEAN /\ seen = NoStatus
  /\ changes = 0 /\ quiet = FALSE /\ stale = 0 /\ everAsked = FALSE

LoopStep == Measure \/ ReadOneByte \/ CompareLimit \/ CheckDelay \/ Report

Next == LoopStep \/ MovePins \/ HostWrite \/ Plug \/ Settle

Spec == Init /\ [][Next]_vars

(* loop() is called again and again; the world need not settle. *)
FairSpec == Spec /\ WF_vars(LoopStep)

-----------------------------------------------------------------------------
(* A status that was lost because the host took no report at the time (the *)
(* snapshot is taken all the same) is repeated by the timer.               *)
StaleIsBounded == stale <= MINUPDATEINTERVAL \div 2

Expected ==
  LET expired == ~ac /\ Runtime(charge) < iRemainTimeLimit
      requested == Signed(iDelayBe4ShutDown) > 0
  IN [charging |-> ac, full |-> charge = iFullChargeCapacity, discharging |-> ~ac,
      expired |-> expired, requested |-> requested, imminent |-> expired \/ requested]

(* Once the pins and the host are quiet, the host gets the status they     *)
(* imply, whatever it wrote between two bytes and however often it was     *)
(* unplugged.                                                              *)
StatusArrives == quiet ~> [](seen = Expected)

(* docs/PROGRAMMING_GUIDE.md, "AVR atomicity rules": 16-bit values shared  *)
(* with the USB interrupt are read whole.  If so, no shutdown is requested *)
(* of a host that has never written a positive delay.                      *)
NoPhantomShutdown == status.requested => everAsked
=============================================================================
