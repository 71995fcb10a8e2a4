--------------------------- MODULE MCMemoryBackend ---------------------------
(* A small instance of MemoryBackend: a sample is just its capture frame.   *)
EXTENDS MemoryBackend

CONSTANTS m1, m2, d, o, alpha, bravo

MCFrameOf == [s \in Samples |-> s]

\* Samples and focus ranges meet in the metadata; deletions, markers and
\* events meet neither.  States that mix them are checked, but not explored.
Focus    == focusRanges # <<>> \/ focusOpen # None
Deletion == \E k \in Kinds, i \in ObjIds :
               entities[k][i] # None /\ entities[k][i].deleteFrame # FrameForever
Marking  == markersByID # <<>> \/ \E k \in EventKinds : events[k] > 0
Entities == entities # NoEntities
OneConcern == /\ ~(Focus /\ (Deletion \/ Marking))
              /\ ~(Entities /\ Marking)
=============================================================================
