--------------------------- MODULE MCTransmitter ---------------------------
(* Transmitter for TLC: clock readings on both sides of the last 300 ms    *)
(* of a second.                                                            *)
EXTENDS Transmitter

MCClocks == {[tv_sec |-> 0, tv_nsec |-> n] : n \in {650000000, 950000000}}

=============================================================================
