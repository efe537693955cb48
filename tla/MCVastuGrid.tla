---------------------------- MODULE MCVastuGrid ----------------------------
(***************************************************************************)
(* A small grid for TLC: three cells by two, which may grow by one column  *)
(* to the left or to the right.                                            *)
(***************************************************************************)
EXTENDS VastuGrid

MCWorld   == (-1 .. 3) \X (0 .. 1)
MCSensors == {<<1, 0>>}
MCMiss == -60
MCFree == -50
MCLMin == -120
=============================================================================
