------------------------------ MODULE MCSyncer ------------------------------
(* Syncer for TLC.                                                         *)
EXTENDS Syncer, TLC

(* Two packages for one event, and one with the number of INVALID_EVENT.   *)
MCEventOf == <<"e1", "e1", "ff">>

(* One package for an event, and one with the number of INVALID_EVENT.     *)
MCEventOfMixed == <<"e1", "ff">>

(* Two answers to one event.                                               *)
MCEventOfPair == <<"e1", "e1">>

MCSymmetry == Permutations(Callers)

=============================================================================
