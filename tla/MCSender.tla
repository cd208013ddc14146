------------------------------ MODULE MCSender ------------------------------
(* Sender for TLC: data of the lengths where something changes.            *)
EXTENDS Sender

MCPlaces == {<<1, 1, 100>>, <<1, 1, 101>>, <<1, 2, 100>>, <<1, 2, 101>>, <<2, 1, 100>>}
MCData == {[i \in 1 .. n |-> 7] : n \in {0, 1, 127, 128, 248, 249, 255, 256, 257, 4096, 4097}}
MCSelf == <<1, 1>>

=============================================================================
