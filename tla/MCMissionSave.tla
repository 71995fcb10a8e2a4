---------------------------- MODULE MCMissionSave ----------------------------
(* A small instance of MissionSave: two missions, one soldier, two frames.  *)
EXTENDS MissionSave

CONSTANTS m1, m2, d

MCFrameOf == [s \in Samples |-> s]
=============================================================================
