-------------------------- MODULE MCEventProcessor --------------------------
(* EventProcessor for TLC: three packages of one event, and a mailbox with *)
(* room for two.                                                           *)
EXTENDS EventProcessor

MCEventOf == <<"e1", "e1", "e1">>

=============================================================================
