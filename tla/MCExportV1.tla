------------------------------ MODULE MCExportV1 ------------------------------
(* A small instance of ExportV1: two event slices stand for the five, and    *)
(* the shapes of projectiles are those the code tells apart.                 *)
EXTENDS ExportV1

MCNames == {1}
MCPlacedIds == {1}
MCEventSlices == <<"general", "kill">>
MCShots == {[bullet |-> TRUE, points |-> 1, hits |-> 0],
            [bullet |-> TRUE, points |-> 2, hits |-> 1],
            [bullet |-> FALSE, points |-> 2, hits |-> 1]}

\* Units meet projectiles, whose bullets are theirs, and nothing else but these
\* meets slices, markers and placed objects.  States that mix units with any of
\* the latter are checked, but not explored.
Units  == \E k \in Kinds, i \in Ids : units[k][i] # None
Things == \/ \E s \in Range(EventSlices) : events[s] # <<>>
          \/ \E n \in Names : markers[n] # None
          \/ \E p \in PlacedIds : placed[p] # None
OneConcern == ~(Units /\ Things)
=============================================================================
