-------------------------------- MODULE Relay --------------------------------
(***************************************************************************)
(* What the daemon promises the applications of a card, with the threads,  *)
(* the acknowledgements and the descriptors left out.  Messages an         *)
(* application handed over are put on the line in that order, each once;   *)
(* frames that came in are passed on in that order, each once.  While the  *)
(* relay has no line, which may be always, it loses messages instead of    *)
(* keeping them.  A restart of the daemon may cost the message and the     *)
(* frame it has in hand.                                                   *)
(***************************************************************************)
EXTENDS Naturals, Sequences

CONSTANTS
  Msgs,      (* messages of the applications of this card                 *)
  Frames,    (* messages that come from the line                          *)
  Capacity   (* how many messages can wait                                *)

VARIABLES
  open,      (* has the daemon opened the queue?                          *)
  line,      (* has it opened the line?                                   *)
  waiting,   (* messages handed over and not put on the line yet          *)
  put,       (* history: the messages put on the line                     *)
  lost,      (* history: the messages thrown away instead                 *)
  arrived,   (* frames received and not passed on yet                     *)
  passed     (* history: the frames passed on                             *)

relayVars == <<open, line, waiting, put, lost, arrived, passed>>

Elems(s) == {s[i] : i \in DOMAIN s}

RelayInit ==
  /\ open = FALSE /\ line = FALSE
  /\ waiting = << >> /\ put = << >> /\ lost = {} /\ arrived = << >> /\ passed = << >>

Open ==
  /\ ~open
  /\ open' = TRUE
  /\ UNCHANGED <<line, waiting, put, lost, arrived, passed>>

OpenLine ==
  /\ ~line
  /\ line' = TRUE
  /\ UNCHANGED <<open, waiting, put, lost, arrived, passed>>

Accept(m) ==
  /\ Len(waiting) < Capacity
  /\ m \notin Elems(waiting) \cup Elems(put) \cup lost
  /\ waiting' = Append(waiting, m)
  /\ UNCHANGED <<open, line, put, lost, arrived, passed>>

Put ==
  /\ open /\ line /\ waiting # << >>
  /\ put' = Append(put, Head(waiting))
  /\ waiting' = Tail(waiting)
  /\ UNCHANGED <<open, line, lost, arrived, passed>>

Lose ==
  /\ open /\ ~line /\ waiting # << >>
  /\ lost' = lost \cup {Head(waiting)}
  /\ waiting' = Tail(waiting)
  /\ UNCHANGED <<open, line, put, arrived, passed>>

Arrive(f) ==
  /\ f \notin Elems(arrived) \cup Elems(passed)
  /\ arrived' = Append(arrived, f)
  /\ UNCHANGED <<open, line, waiting, put, lost, passed>>

Pass ==
  /\ arrived # << >>
  /\ passed' = Append(passed, Head(arrived))
  /\ arrived' = Tail(arrived)
  /\ UNCHANGED <<open, line, waiting, put, lost>>

Restart ==
  /\ open' = FALSE /\ line' = FALSE
  /\ arrived' = << >>
  /\ waiting' \in {waiting} \cup {Tail(w) : w \in {waiting} \ {<< >>}}
  /\ UNCHANGED <<put, lost, passed>>

RelayNext ==
  \/ Open \/ OpenLine \/ Put \/ Lose \/ Pass \/ Restart
  \/ \E m \in Msgs : Accept(m)
  \/ \E f \in Frames : Arrive(f)

(* Whatever happens at the other end of the line, an open relay puts what  *)
(* is waiting on the line, or loses it for want of one, and passes on what *)
(* arrived.                                                                *)
RelaySpec ==
  RelayInit /\ [][RelayNext]_relayVars /\ WF_relayVars(Put \/ Lose) /\ WF_relayVars(Pass)

=============================================================================
