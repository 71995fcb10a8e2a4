------------------------------ MODULE MCDBWriter ------------------------------
(* A small instance of DBWriter: three of the sixteen queues, one with       *)
(* entities, one about them and one about markers, in the writer's order.    *)
EXTENDS DBWriter

MCOrder == <<"Soldiers", "SoldierStates", "MarkerStates">>
MCParent == [k \in {"SoldierStates", "MarkerStates"} |->
               IF k = "SoldierStates" THEN "Soldiers" ELSE "Markers"]
=============================================================================
