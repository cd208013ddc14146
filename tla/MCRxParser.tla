----------------------------- MODULE MCRxParser -----------------------------
(* RxParser for TLC: two new frames, one without data and one with a byte  *)
(* that is half a keyword, an old frame, and noise: half a keyword, the    *)
(* head of a frame that is too long, and silence that fills the buffer.    *)
EXTENDS RxParser

MCBytes ==
  [new0  |-> <<170, 85, 5, 1, 7>>,
   new1  |-> <<170, 85, 6, 2, 9, 170>>,
   old1  |-> <<83, 77, 3, 1, 83, 87, 64>>,
   half  |-> <<83>>,
   alien |-> <<170, 85, 200, 4>>,
   zeros |-> <<0, 0, 0, 0, 0, 0, 0>>]

MCPackage ==
  [new0  |-> <<MCBytes.new0>>,
   new1  |-> <<MCBytes.new1>>,
   old1  |-> << <<170, 85, 6, 3, 87, 83>> >>,
   half  |-> << >>,
   alien |-> << >>,
   zeros |-> << >>]

ASSUME CleanLine

=============================================================================
