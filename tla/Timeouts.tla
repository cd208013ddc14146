------------------------------ MODULE Timeouts ------------------------------
(***************************************************************************)
(* The absolute deadlines the code gives to pthread_cond_timedwait: the    *)
(* 250 ms of a wait_on (app/msg_syncer.c) and the 300 ms in which an       *)
(* acknowledgement must arrive (infra/rs485_util.c).  Both add a number of *)
(* milliseconds to the CLOCK_MONOTONIC time.                               *)
(*                                                                         *)
(* nsec is a uint32_t in the code.  It is at most 999999999 + 999 * 10^6,  *)
(* which is below 2^31: the sums never wrap.                               *)
(***************************************************************************)
EXTENDS Integers

timespec == [tv_sec : Nat, tv_nsec : {n \in Nat : n < 1000000000}]

(* What clock_gettime returned, and milliseconds, as nanoseconds.          *)
Nanos(t) == t.tv_sec * 1000000000 + t.tv_nsec
Millis(ms) == ms * 1000000

Earlier(s, t) ==
  s.tv_sec < t.tv_sec \/ (s.tv_sec = t.tv_sec /\ s.tv_nsec < t.tv_nsec)

set_time_out_ms(tp, time_ms) ==
  LET nsec == tp.tv_nsec + (time_ms % 1000) * 1000000 IN
  [tv_sec  |-> tp.tv_sec + nsec \div 1000000000 + time_ms \div 1000,
   tv_nsec |-> nsec % 1000000000]

(* Mutant: the nanoseconds are not reduced.                                *)
DeadlineUnreduced(tp) ==
  [tv_sec |-> tp.tv_sec, tv_nsec |-> tp.tv_nsec + (300 % 1000) * 1000000]

(* The same for 300 ms, but the divisor of the nanoseconds is one zero     *)
(* short of that of the seconds.                                           *)
get_time_out_len(tp) ==
  LET nsec == tp.tv_nsec + (300 % 1000) * 1000000 IN
  [tv_sec  |-> tp.tv_sec + nsec \div 1000000000 + 300 \div 1000,
   tv_nsec |-> nsec % 100000000]

=============================================================================
