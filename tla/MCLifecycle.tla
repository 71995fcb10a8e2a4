----------------------------- MODULE MCLifecycle -----------------------------
(* Small instances of Lifecycle: two recording commands, two inits.         *)
EXTENDS Lifecycle
=============================================================================
