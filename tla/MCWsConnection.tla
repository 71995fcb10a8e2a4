---------------------------- MODULE MCWsConnection ----------------------------
(* Small instances of WsConnection.                                         *)
EXTENDS WsConnection
=============================================================================
