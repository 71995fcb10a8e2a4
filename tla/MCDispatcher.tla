----------------------------- MODULE MCDispatcher -----------------------------
(* A small instance of Dispatcher: command "state" is registered twice,     *)
(* first gated, blocking and buffered, then buffered only; "sync" is gated. *)
EXTENDS Dispatcher

CONSTANTS state, sync, r1, r2, r3, c1, c2

MCCmdOf == [r \in Regs |-> IF r = r3 THEN sync ELSE state]
MCCap == [r \in Regs |-> CASE r = r1 -> 2 [] r = r2 -> 1 [] r = r3 -> 0]
=============================================================================
