----------------------------- MODULE MCPrograms -----------------------------
(* The programs against firmware_sim.py, with advances that cross the wrap *)
(* of its clock, and, apart from them and before anything else happens,    *)
(* the arguments of the lines character by character.                      *)
EXTENDS Programs, Arguments

(* What controllers may have left behind; the self test resets it first,   *)
(* so that a few kinds of it are enough.                                   *)
SimRequests ==
  {ArmFor(Absent), ArmFor(2), ArmFor(0), ArmFor(9), Line("ARM", Off), Line("PING", Absent),
   Line("STATUS?", Absent), Line("AC", Off), Line("BATTERY", 5), Line("LOAD", 101),
   Line("STARTDELAY", 30)}

SimAdvances == {0, 1, 2}

MCCliLines == {Line("RESET", Absent), Line("SHUTDOWN", On), Line("LOAD", 101), ArmFor(2)}

MCForeignLines == {ArmFor(2), Line("RESET", Absent)}

MCInit == ProgramsInit /\ token = <<>>

MCNext ==
  \/ ProgramsNext /\ token = <<>> /\ UNCHANGED token
  \/ ProgramsInit /\ SendCharacter /\ UNCHANGED <<vars, programVars>>
  \/ SendEnd /\ UNCHANGED <<vars, programVars>>

MCSpec == MCInit /\ [][MCNext]_<<vars, programVars, token>> /\ ProgramsFairness
=============================================================================
