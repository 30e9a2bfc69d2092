------------------------- MODULE BasicExampleProofs -------------------------
(***************************************************************************)
(* A theorem about module BasicExample, for every MINUPDATEINTERVAL, every *)
(* charge and every word the host writes.                                  *)
(***************************************************************************)
EXTENDS BasicExample, TLAPS

(* A pass that leaves the host an old status has let the timer run on, by  *)
(* the two ticks of the pass.                                              *)
TimerInv ==
  /\ stale \in Nat /\ iIntTimer \in Nat
  /\ stale + stale <= MINUPDATEINTERVAL
  /\ stale + stale <= iIntTimer
  /\ pc = "report" => stale + stale + 2 <= iIntTimer

LEMMA Interval == MINUPDATEINTERVAL \in Nat
BY BasicAssumption

LEMMA HalfBound == \A m, n \in Nat : n + n <= m => n <= m \div 2
BY SMTT(30)

LEMMA InitTimer == Init => TimerInv
BY Interval DEF Init, TimerInv

LEMMA ReportTimer == ASSUME TimerInv, Report PROVE TimerInv'
<1>1. MINUPDATEINTERVAL \in Nat /\ pc = "report" /\ pc' = "measure"
  BY Interval, Zenon DEF Report
<1>2. CASE seen' = status \/ ~online
  <2>1. stale' = 0
    BY <1>2 DEF Report
  <2>2. iIntTimer' \in Nat
    BY DEF Report, Record, TimerInv
  <2> QED BY <1>1, <2>1, <2>2 DEF TimerInv
<1>3. CASE ~(seen' = status \/ ~online)
  <2>1. ~WorthSending /\ UNCHANGED iIntTimer
    BY <1>3 DEF Report
  <2>2. iIntTimer <= MINUPDATEINTERVAL
    BY <1>1, <2>1 DEF WorthSending, TimerInv
  <2>3. stale' = stale + 1
    <3>1. ~(stale > MINUPDATEINTERVAL)
      BY <1>1 DEF TimerInv
    <3> QED BY <1>3, <3>1 DEF Report
  <2> QED BY <1>1, <2>1, <2>2, <2>3 DEF TimerInv
<1> QED BY <1>2, <1>3

LEMMA NextTimer == ASSUME TimerInv, [Next]_vars PROVE TimerInv'
<1>1. CASE Measure
  BY <1>1 DEF Measure, TimerInv
<1>2. CASE ReadOneByte
  BY <1>2 DEF ReadOneByte, TimerInv
<1>3. CASE CompareLimit
  BY <1>3 DEF CompareLimit, TimerInv
<1>4. CASE CheckDelay
  BY <1>4 DEF CheckDelay, Ticked, TimerInv
<1>5. CASE Report
  BY <1>5, ReportTimer
<1>6. CASE MovePins \/ HostWrite \/ Settle
  BY <1>6 DEF MovePins, HostWrite, Settle, Change, TimerInv
<1>7. CASE Plug
  <2>1. stale' = 0 /\ iIntTimer' = iIntTimer /\ pc' = pc
    BY <1>7 DEF Plug, Change
  <2> QED BY <2>1, Interval DEF TimerInv
<1>8. CASE UNCHANGED vars
  BY <1>8 DEF vars, TimerInv
<1> QED BY <1>1, <1>2, <1>3, <1>4, <1>5, <1>6, <1>7, <1>8 DEF Next, LoopStep

(* A host that takes reports is left with an old status for at most half   *)
(* as many passes on end as MINUPDATEINTERVAL has seconds, whatever was    *)
(* lost while it was away: the timer of the reports cannot be starved.     *)
THEOREM StaleStaysBounded == Spec => []StaleIsBounded
<1>1. Init => TimerInv
  BY InitTimer
<1>2. TimerInv /\ [Next]_vars => TimerInv'
  BY NextTimer
<1>3. TimerInv => StaleIsBounded
  BY Interval, HalfBound DEF TimerInv, StaleIsBounded
<1> QED BY <1>1, <1>2, <1>3, PTL DEF Spec
=============================================================================
