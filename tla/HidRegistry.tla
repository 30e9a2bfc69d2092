----------------------------- MODULE HidRegistry -----------------------------
(***************************************************************************)
(* The registry of Features of HID.cpp: a linked list that setupHid()      *)
(* fills, one SetFeature() after the other, while the USB interrupt may    *)
(* already answer GET_REPORT, SET_REPORT and string requests from it.      *)
(*                                                                         *)
(* The main loop is cut into its stores: a node is filled, then linked     *)
(* with the two byte stores of an AVR pointer, then counted.  They happen  *)
(* in the order of the program, as the compiler of the board emits them.   *)
(* The interrupt runs to its end between any two of them.                  *)
(***************************************************************************)
EXTENDS Integers, Sequences, FiniteSets

CONSTANT Tracked   \* the Features whose stored value is followed

FeatureId ==
  [iProduct |-> 1, serial |-> 2, manufacturer |-> 3, rechargeable |-> 6, presentStatus |-> 7,
   remainTimeLimit |-> 8, manufactureDate |-> 9, configVoltage |-> 10, voltage |-> 11,
   remainingCapacity |-> 12, runTimeToEmpty |-> 13, fullChargeCapacity |-> 14,
   warnCapacityLimit |-> 15, granularity1 |-> 16, remnCapacityLimit |-> 17,
   delayShutdown |-> 18, delayReboot |-> 19, audibleAlarm |-> 20, capacityMode |-> 22,
   designCapacity |-> 23, granularity2 |-> 24, averageTime2Full |-> 26,
   averageTime2Empty |-> 28, deviceChemistry |-> 31, oemInformation |-> 32,
   delayStartup |-> 33, percentLoad |-> 34, inputVoltage |-> 35, outputVoltage |-> 36]

StringId == [deviceChemistry |-> 65280 + 4, oemInformation |-> 65280 + 5]

ASSUME TrackedAssumption == Tracked \subseteq DOMAIN FeatureId

-----------------------------------------------------------------------------
(* The calls of PowerDevice.begin() and setupHid(), in their order.        *)

Set(f)    == <<[call |-> "SetFeature", id |-> FeatureId[f]]>>
Lock(f)   == <<[call |-> "LockFeature", id |-> FeatureId[f]]>>
String(f) == Set(f) \o Lock(f) \o <<[call |-> "SetFeature", id |-> StringId[f]]>>

Begin == Set("iProduct") \o Set("serial") \o Set("manufacturer")
         \o Lock("iProduct") \o Lock("serial") \o Lock("manufacturer")

SetAll ==
  Set("presentStatus") \o Set("runTimeToEmpty") \o Set("averageTime2Full")
  \o Set("averageTime2Empty") \o Set("remainTimeLimit") \o Set("delayStartup")
  \o Set("delayReboot") \o Set("delayShutdown") \o Set("rechargeable") \o Set("capacityMode")
  \o Set("configVoltage") \o Set("voltage") \o Set("percentLoad") \o Set("inputVoltage")
  \o Set("outputVoltage") \o String("deviceChemistry") \o String("oemInformation")
  \o Set("audibleAlarm") \o Set("designCapacity") \o Set("fullChargeCapacity")
  \o Set("remainingCapacity") \o Set("warnCapacityLimit") \o Set("remnCapacityLimit")
  \o Set("granularity1") \o Set("granularity2") \o Set("manufactureDate")

(* Slip: a Feature of the control side is missing from the list. *)
LockAllButLoad ==
  Lock("iProduct") \o Lock("serial") \o Lock("manufacturer") \o Lock("presentStatus")
  \o Lock("runTimeToEmpty") \o Lock("averageTime2Full") \o Lock("averageTime2Empty")
  \o Lock("rechargeable") \o Lock("capacityMode") \o Lock("configVoltage") \o Lock("voltage")
  \o Lock("inputVoltage") \o Lock("outputVoltage") \o Lock("deviceChemistry")
  \o Lock("oemInformation") \o Lock("designCapacity") \o Lock("fullChargeCapacity")
  \o Lock("remainingCapacity") \o Lock("granularity1") \o Lock("granularity2")
  \o Lock("manufactureDate")

(* kReadOnlyFeatures *)
LockAll ==
  Lock("iProduct") \o Lock("serial") \o Lock("manufacturer") \o Lock("presentStatus")
  \o Lock("runTimeToEmpty") \o Lock("averageTime2Full") \o Lock("averageTime2Empty")
  \o Lock("rechargeable") \o Lock("capacityMode") \o Lock("configVoltage") \o Lock("voltage")
  \o Lock("percentLoad") \o Lock("inputVoltage") \o Lock("outputVoltage")
  \o Lock("deviceChemistry") \o Lock("oemInformation") \o Lock("designCapacity")
  \o Lock("fullChargeCapacity") \o Lock("remainingCapacity") \o Lock("granularity1")
  \o Lock("granularity2") \o Lock("manufactureDate")

Calls == Begin \o SetAll \o LockAll
Nodes == 1 .. Len(Calls)   \* a call makes one at most
Ids   == {Calls[i].id : i \in DOMAIN Calls}

Null == 0
Torn == -1   \* one byte of the pointer is the new one, the other is not

VARIABLES
  at,          \* the call of Calls the main loop is in
  pc,          \* its next store: "call", "linkHalf", "link", "count", or "done"
  pointer,     \* pointer[0] is rootReport, pointer[n] the next of node n
  id, locked,  \* of the nodes that are filled
  reportCount,
  value        \* who wrote what is stored for a Feature last: "sketch" or "host"

vars == <<at, pc, pointer, id, locked, reportCount, value>>

-----------------------------------------------------------------------------
(* GetFeature(), as the interrupt runs it on the memory as it is.          *)

Follow(p) == IF p \in DOMAIN id THEN pointer[p] ELSE Null

(* the pointers current holds in the first n turns of its loop *)
Turns[n \in 0 .. Len(Calls)] ==
  IF n = 0 THEN <<>>
  ELSE LET before == Turns[n - 1]
       IN Append(before, IF n = 1 THEN pointer[0] ELSE Follow(before[n - 1]))

(* Slip: the loop stops one node early. *)
DereferencedButLast == {Turns[reportCount - 1][i] : i \in 1 .. reportCount - 1} \ {Null}

Dereferenced ==
  LET current == Turns[reportCount] IN {current[i] : i \in 1 .. reportCount} \ {Null}

Named(nodes, wanted) == {n \in nodes \cap DOMAIN id : id[n] = wanted}

GetFeature(wanted) == Named(Dereferenced, wanted)

-----------------------------------------------------------------------------
(* The main loop.                                                          *)

Call == Calls[at]

(* Slip: the loop over kReadOnlyFeatures runs one element too far. *)
LastCallIsOver == at > Len(Calls)

LastCall == at = Len(Calls)

Return == IF LastCall THEN pc' = "done" /\ UNCHANGED at ELSE pc' = "call" /\ at' = at + 1

(* Slip: the flag of every other node is cleared. *)
LockedOnly(wanted) == [n \in DOMAIN id |-> id[n] = wanted]

LockedToo(wanted) == [n \in DOMAIN id |-> locked[n] \/ id[n] = wanted]

LockFeature ==
  /\ pc = "call" /\ Call.call = "LockFeature" /\ locked' = LockedToo(Call.id)
  /\ Return /\ UNCHANGED <<pointer, id, reportCount, value>>

(* An id that is known is left as it is; else new HIDReport(id, data, len) *)
(* makes a node that nothing points to yet.                                *)
NewNode(count) ==
  /\ pc = "call" /\ Call.call = "SetFeature"
  /\ IF \E n \in DOMAIN id : id[n] = Call.id
     THEN Return /\ UNCHANGED <<id, locked, reportCount>>
     ELSE /\ id' = Append(id, Call.id) /\ locked' = Append(locked, FALSE)
          /\ pc' = "linkHalf" /\ reportCount' = count /\ UNCHANGED at
  /\ UNCHANGED <<pointer, value>>

(* Slip: the node is counted before it is linked. *)
SetFeatureCountsFirst == NewNode(reportCount + 1)

SetFeature == NewNode(reportCount)

(* Two stores put it at the end of the list. *)
Link ==
  LET new == Len(id) IN
  /\ \/ pc = "linkHalf" /\ pointer' = [pointer EXCEPT ![new - 1] = Torn] /\ pc' = "link"
     \/ pc = "link" /\ pointer' = [pointer EXCEPT ![new - 1] = new] /\ pc' = "count"
  /\ UNCHANGED <<at, id, locked, reportCount, value>>

Count ==
  /\ pc = "count" /\ reportCount' = reportCount + 1
  /\ Return /\ UNCHANGED <<pointer, id, locked, value>>

-----------------------------------------------------------------------------
(* The interrupt: setup() with a SET_REPORT of the right length.           *)
HostSetReport(f) ==
  /\ \E n \in GetFeature(FeatureId[f]) : ~locked[n]
  /\ value' = [value EXCEPT ![f] = "host"]
  /\ UNCHANGED <<at, pc, pointer, id, locked, reportCount>>

Init ==
  /\ at = 1 /\ pc = "call" /\ pointer = [p \in {0} \cup Nodes |-> Null]
  /\ id = <<>> /\ locked = <<>> /\ reportCount = 0
  /\ value = [f \in Tracked |-> "sketch"]

SetupStep == LockFeature \/ SetFeature \/ Link \/ Count

Next ==
  \/ SetupStep
  \/ \E f \in Tracked : HostSetReport(f)

-----------------------------------------------------------------------------
TypeOK ==
  /\ at \in DOMAIN Calls /\ pc \in {"call", "linkHalf", "link", "count", "done"}
  /\ pointer \in [{0} \cup Nodes -> {Null, Torn} \cup Nodes]
  /\ id \in Seq(Ids) /\ locked \in Seq(BOOLEAN) /\ Len(id) = Len(locked)
  /\ reportCount \in 0 .. Len(id) /\ value \in [Tracked -> {"sketch", "host"}]

(* Whenever the interrupt comes, GetFeature() follows complete pointers to *)
(* complete nodes: reportCount keeps it away from a link that is half      *)
(* stored, for the first node as for the others.                           *)
NeverTorn == Dereferenced \subseteq DOMAIN id

Returned(i) == i < at \/ pc = "done"

(* Once its SetFeature() has returned, a Feature is found, and found once: *)
(* no two of the sketch's Features share an id, the string ids included.   *)
RegisteredIsFound ==
  LET nodes == Dereferenced
  IN \A i \in DOMAIN Calls : Returned(i) => Cardinality(Named(nodes, Calls[i].id)) = 1

(* The Features the host may write after setup() are the delays and limits *)
(* that module Firmware lets it write, and two that nothing else reads.    *)
HostWritable ==
  {"remainTimeLimit", "remnCapacityLimit", "delayStartup", "delayReboot", "delayShutdown",
   "warnCapacityLimit", "audibleAlarm"}

OnlyLimitsStayOpen ==
  LET nodes == Dereferenced
  IN pc = "done" => {f \in DOMAIN FeatureId :
                       \E n \in Named(nodes, FeatureId[f]) : ~locked[n]} = HostWritable

(* A read-only Feature lies open from its SetFeature() to its LockFeature()*)
(* and never again: a value the host stored is at most as old as setup().  *)
WindowEndsAtLock ==
  [][\A f \in Tracked : value'[f] # value[f] =>
       ~\E i \in DOMAIN Calls : Returned(i) /\ <<Calls[i]>> = Lock(f)]_vars
=============================================================================
