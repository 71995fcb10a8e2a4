------------------------------ MODULE MCIntake ------------------------------
(* One object of each kind, and a soldier whose ID does not fit in 16 bits. *)
EXTENDS Intake

=============================================================================
