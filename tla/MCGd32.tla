------------------------------- MODULE MCGd32 -------------------------------
(* Gd32 for TLC: one speed-based component with the speeds 0 and 1, and one  *)
(* command of each kind (speed 0 stands for Disable).  Velocity 0 is sent by *)
(* the disable command.                                                      *)
EXTENDS Gd32

MCSpeeds == <<"vacuum">>

Command(op, dev, level) == [op |-> op, dev |-> dev, level |-> level]

MCCommands ==
  {Command("speed", "vacuum", 0), Command("speed", "vacuum", 1),
   Command("velocity", "wheels", 1), Command("tank", "wheels", 1),
   Command("enable", "wheels", 0), Command("disable", "wheels", 0),
   Command("reset", "wheels", 0),
   Command("lidar_on", "lidar", 0), Command("lidar_off", "lidar", 0)}
=============================================================================
