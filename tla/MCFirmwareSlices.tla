--------------------------- MODULE MCFirmwareSlices ---------------------------
(* The two slices of MCFirmware in one state space.  Nothing connects      *)
(* them: a behaviour stays in the slice it starts in.  The scenario slice  *)
(* arms without a lease, so that time decides nothing there and stands     *)
(* still.                                                                  *)
EXTENDS MCFirmware

VARIABLE slice

SliceRequests == [scenario |-> ScenarioRequests, lease |-> LeaseRequests]
AllRequests == ScenarioRequests \cup LeaseRequests
AllHostWrites == ScenarioHostWrites \cup LeaseHostWrites

SliceInit == Init /\ slice \in DOMAIN SliceRequests

SliceTick == slice = "lease" /\ Tick

SliceNext ==
  /\ \/ LoopStep
     \/ \E r \in SliceRequests[slice] : HandleCommand(r)
     \/ \E w \in HostWrites : HostSetReport(w)
     \/ SliceTick
  /\ UNCHANGED slice

SliceSpec == SliceInit /\ [][SliceNext]_<<vars, slice>>
               /\ WF_vars(LoopStep /\ UNCHANGED slice) /\ WF_vars(SliceTick /\ UNCHANGED slice)
=============================================================================
