----------------------------- MODULE MCS5MaxMcu -----------------------------
(***************************************************************************)
(* Small instances of S5MaxMcu for TLC.                                    *)
(***************************************************************************)
EXTENDS S5MaxMcu, TLC

CONSTANTS fan, q1, q2, q3

MCCleaners == {fan}
MCSeqs     == {q1, q2, q3}
MCPair     == {q1, q2}

Drive(l) == [op |-> "drive", act |-> Wheels, level |-> l]
Fan(l)   == [op |-> "motor", act |-> fan, level |-> l]
Other(o) == [op |-> o, act |-> Aux, level |-> 0]

MotorCommands == {Fan(0), Fan(1), Other("estop")}
DriveCommands == {Drive(0), Drive(1)} \cup {Other(o) : o \in {"stop_drive", "estop", "charger"}}

SeqSymmetry == Permutations(MCSeqs)
=============================================================================
