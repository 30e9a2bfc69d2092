------------------------------- MODULE Startup -------------------------------
(***************************************************************************)
(* setup() and the network part of loop() in their order: the registry of  *)
(* HID.cpp is filled and locked, then initEthernet() may block, then the   *)
(* passes of loop() with the DHCP timer.  The host may write at any time.  *)
(***************************************************************************)
EXTENDS HidRegistry, Dhcp

StartupInit == Init /\ DhcpInit

StartupNext ==
  \/ Next /\ UNCHANGED dhcpVars
  \/ pc = "done" /\ (InitEthernet \/ DhcpLoop) /\ UNCHANGED vars

StartupSpec ==
  /\ StartupInit /\ [][StartupNext]_<<vars, dhcpVars>>
  /\ WF_vars(SetupStep /\ UNCHANGED dhcpVars)
  /\ WF_dhcpVars(InitEthernet /\ pc = "done" /\ UNCHANGED vars)
  /\ WF_dhcpVars(DhcpLoop /\ UNCHANGED vars)
  /\ SF_dhcpVars(TimePasses /\ UNCHANGED vars)

StartupTypeOK == TypeOK /\ DhcpTypeOK /\ (network # "down" => pc = "done")
=============================================================================
