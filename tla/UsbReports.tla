----------------------------- MODULE UsbReports -----------------------------
(***************************************************************************)
(* sendUsbReports() of UPS_Simulator_Ethernet.ino, the interrupt endpoint  *)
(* it feeds and the host that polls it.                                    *)
(*                                                                         *)
(* One call sends the reports of Batch in order, each into a free bank of  *)
(* the endpoint, and gives up at the first that finds none; only a whole   *)
(* batch is recorded in the iPrev... snapshot.  The loop calls it with     *)
(* force at the end of every handler and of an expired lease, and without  *)
(* at the end of every pass, where it returns at once unless one of the    *)
(* tracked values differs from the snapshot or the interval has passed.    *)
(*                                                                         *)
(* The values belong to the main loop, which is busy sending while a batch *)
(* is under way, and the host cannot write them (kReadOnlyFeatures), so    *)
(* the locals the code copies them into are not modelled.  0 stands for    *)
(* the all-zero value the snapshot starts with.  Values are numbered by    *)
(* version: how many changes of the UPS there had been.                    *)
(***************************************************************************)
EXTENDS Integers, Sequences

CONSTANTS
  Batch,       \* the reports, in the order sendUsbReports() sends them
  Tracked,     \* those compared with the snapshot (status, charge, runtime)
  Banks,       \* free banks of an empty endpoint
  Values,
  MaxChanges   \* bound: changes of the simulated UPS

Reports == {Batch[i] : i \in 1 .. Len(Batch)}
Status  == Batch[1]
Unknown == -1

ASSUME BatchAssumption ==
  /\ Batch \in Seq(STRING) /\ Len(Batch) > 0
  /\ \A i, j \in 1 .. Len(Batch) : Batch[i] = Batch[j] => i = j
  /\ Tracked \subseteq Reports /\ Status \in Tracked
  /\ Banks \in Nat \ {0} /\ Values \subseteq Nat /\ {0, 1} \subseteq Values
  /\ MaxChanges \in Nat

VARIABLES
  val,           \* what the UPS model holds, by report
  version,       \* auxiliary: changes so far
  prev,          \* iPreviousStatus, iPrevRemaining, iPrevRunTimeToEmpty
  due,           \* REPORT_INTERVAL_MS have passed since lastReportMs
  pc, next,      \* inside sendUsbReports(), and the next report to send
  endpoint,      \* the filled banks of the interrupt endpoint, oldest first
  view,          \* what the host last received, by report
  viewVersion,   \* auxiliary: the version it belongs to
  failed         \* auxiliary: the last batch was given up

loopVars == <<val, version, prev, due, pc, next, failed>>
vars == <<val, version, prev, due, pc, next, endpoint, view, viewVersion, failed>>

-----------------------------------------------------------------------------
(* The main loop.                                                          *)

(* Slip: no periodic report, only changes are sent. *)
WorthSendingOnChange(v) == \E r \in Tracked : v[r] # prev[r]

WorthSending(v) == due \/ \E r \in Tracked : v[r] # prev[r]

Start == pc' = "send" /\ next' = 1

NewValues(v) ==
  /\ v = val \/ version < MaxChanges
  /\ val' = v /\ version' = IF v = val THEN version ELSE version + 1

(* A handler, or an expired lease: any values, then sendUsbReports(true).  *)
(* REPORT, and RESET of a safe simulator, change nothing.                  *)
Command(v) ==
  /\ pc = "idle" /\ NewValues(v) /\ Start
  /\ UNCHANGED <<prev, due, endpoint, view, viewVersion, failed>>

(* The end of a pass: updateModel(), whose status may have moved because   *)
(* the host wrote a limit or a delay, then sendUsbReports(false).          *)
EndOfPass(s) ==
  /\ pc = "idle" /\ NewValues([val EXCEPT ![Status] = s])
  /\ IF WorthSending(val') THEN Start ELSE UNCHANGED <<pc, next>>
  /\ UNCHANGED <<prev, due, endpoint, view, viewVersion, failed>>

(* Slip: the endpoint is asked for one byte too few. *)
QueuedOneTooMany(item) == Len(endpoint) <= Banks /\ endpoint' = Append(endpoint, item)

(* Slip: USB_SendSpace() is asked, but its answer only guards the copy. *)
QueuedOrDropped(item) ==
  endpoint' = IF Len(endpoint) < Banks THEN Append(endpoint, item) ELSE endpoint

(* usbSend() finds a free bank. *)
Queued(item) == Len(endpoint) < Banks /\ endpoint' = Append(endpoint, item)

(* Slip: a report that finds no room is skipped, the batch goes on. *)
GiveUpSkips ==
  /\ pc = "send" /\ Len(endpoint) >= Banks
  /\ IF next < Len(Batch) THEN next' = next + 1 /\ UNCHANGED pc
                          ELSE pc' = "idle" /\ next' = 1
  /\ failed' = TRUE
  /\ UNCHANGED <<val, version, prev, due, endpoint, view, viewVersion>>

GiveUp ==
  /\ pc = "send" /\ Len(endpoint) >= Banks
  /\ pc' = "idle" /\ next' = 1 /\ failed' = TRUE
  /\ UNCHANGED <<val, version, prev, due, endpoint, view, viewVersion>>

SendNext ==
  /\ pc = "send"
  /\ Queued([report |-> Batch[next], value |-> val[Batch[next]], version |-> version])
  /\ \/ /\ next < Len(Batch)
        /\ next' = next + 1 /\ UNCHANGED <<pc, prev, due, failed>>
     \/ /\ next = Len(Batch)
        /\ pc' = "idle" /\ next' = 1
        /\ prev' = [r \in Tracked |-> val[r]] /\ due' = FALSE /\ failed' = FALSE
  /\ UNCHANGED <<val, version, view, viewVersion>>

IntervalPasses ==
  /\ pc = "idle" /\ ~due /\ due' = TRUE
  /\ UNCHANGED <<val, version, prev, pc, next, endpoint, view, viewVersion, failed>>

(* The host polls the endpoint and takes the oldest bank.                  *)
HostPoll ==
  /\ endpoint # <<>> /\ endpoint' = Tail(endpoint)
  /\ LET item == Head(endpoint)
     IN /\ view' = [view EXCEPT ![item.report] = item.value]
        /\ viewVersion' = [viewVersion EXCEPT ![item.report] = item.version]
  /\ UNCHANGED loopVars

(* After setup(): a safe model, a zero snapshot, and a first forced batch  *)
(* sent before the host has enumerated the device.                         *)
Init ==
  /\ val = [r \in Reports |-> 1] /\ version = 0
  /\ prev = [r \in Tracked |-> 0] /\ due = FALSE
  /\ pc = "send" /\ next = 1 /\ endpoint = <<>>
  /\ view = [r \in Reports |-> Unknown]
  /\ viewVersion = [r \in Reports |-> Unknown]
  /\ failed = FALSE

LoopNext ==
  \/ \E v \in [Reports -> Values] : Command(v)
  \/ \E s \in Values : EndOfPass(s)
  \/ SendNext
  \/ GiveUp

Next == LoopNext \/ IntervalPasses \/ HostPoll

Spec == Init /\ [][Next]_vars

(* The loop runs, passes end, its clock runs, and the host keeps polling.  *)
(* Nothing is said of how fast the host polls.                             *)
FairSpec ==
  /\ Spec
  /\ WF_vars(SendNext \/ GiveUp)
  /\ WF_vars(EndOfPass(val[Status]))
  /\ WF_vars(IntervalPasses)
  /\ WF_vars(HostPoll)

-----------------------------------------------------------------------------
Item == [report : Reports, value : Values, version : 0 .. MaxChanges]

TypeOK ==
  /\ val \in [Reports -> Values] /\ version \in 0 .. MaxChanges
  /\ prev \in [Tracked -> Values] /\ due \in BOOLEAN /\ failed \in BOOLEAN
  /\ pc \in {"idle", "send"} /\ next \in 1 .. Len(Batch)
  /\ endpoint \in Seq(Item) /\ Len(endpoint) <= Banks
  /\ view \in [Reports -> Values \cup {Unknown}]
  /\ viewVersion \in [Reports -> 0 .. MaxChanges \cup {Unknown}]

(* The host never holds a measurement that is newer than the status it     *)
(* has: the status is first in the batch, and nothing of a batch is queued *)
(* after a report that found no room.                                      *)
StatusIsNewest == \A r \in Reports : viewVersion[Status] >= viewVersion[r]

(* What a host that holds a value of a report holds after polling a queue. *)
AfterPolling(r, queue, held) ==
  LET sent == {i \in 1 .. Len(queue) : queue[i].report = r}
  IN IF sent = {} THEN held
     ELSE queue[CHOOSE i \in sent : \A j \in sent : j <= i].value

Latest(r) == AfterPolling(r, endpoint, view[r])

(* Unless the last batch was given up, every change is with the host or on *)
(* its way: no handler and no pass leaves a value behind.                  *)
QuietMeansSent ==
  pc = "idle" /\ ~failed => \A r \in Reports : Latest(r) = val[r]

(* Whatever batches are given up, the host ends up with the right status   *)
(* once the UPS stops changing: the periodic report repairs even a change  *)
(* that was sent, not recorded, and taken back.                            *)
StatusReachesHost == <>[](view[Status] = val[Status])

(* docs/ETHERNET_SIMULATOR.md: a batch that was not queued as a whole is   *)
(* retried on the next loop, so giving one up must leave the unforced call *)
(* at the end of the pass a reason to send.                                *)
RetriedOnNextPass == pc = "idle" /\ failed => WorthSending(val)
=============================================================================
