------------------------------ MODULE MCRecorder ------------------------------
(* Small instances of Recorder: two missions, an object id, two markers.    *)
EXTENDS Recorder

CONSTANTS m1, m2, o, alpha, bravo

MCSamples == [src : Missions, of : ObjIds \union Names]
MCFrameOf == [s \in MCSamples |-> 1]
=============================================================================
