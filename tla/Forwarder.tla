----------------------------- MODULE Forwarder -----------------------------
(***************************************************************************)
(* The forwarder that every element of every pipeline runs:                *)
(* experiment-lib/src/async_forwarder.rs and its blocking twin             *)
(* sync_forwarder.rs, as operators on the forwarder's fields.  `receive`,  *)
(* which strings them together, is the same in every driver and is the     *)
(* business of module Pipeline.                                            *)
(***************************************************************************)
EXTENDS Naturals, Sequences

\* Option::None, where a sender may be.
None == <<>>

-----------------------------------------------------------------------------
(* TestMessage: `to` is the sender that a configuration message carries.   *)

TestData(n) == [tag |-> "TestData", n |-> n, to |-> None]
AddSender(c) == [tag |-> "AddSender", n |-> 0, to |-> c]
Notify(c, count) == [tag |-> "Notify", n |-> count, to |-> c]

is_config(m) == m.tag # "TestData"

-----------------------------------------------------------------------------
(* The forwarder.  forwarding_multiplier is 1 and is never changed.        *)

new == [senders |-> <<>>, received_count |-> 0, send_count |-> 0,
        notify_count |-> 0, notify_sender |-> None, next_seq |-> 0]

handle_config(f, m) ==
  IF m.tag = "Notify"
    THEN [f EXCEPT !.notify_sender = m.to, !.notify_count = m.n]
    ELSE [f EXCEPT !.senders = Append(@, m.to)]

\* A fault: a run that starts again from 0 is refused.
in_sequence_strict(f, m) == f.senders = <<>> \/ m.n = f.next_seq

\* validate_sequence answers Ok: with nobody to forward to it accepts anything.
in_sequence(f, m) ==
  \/ f.senders = <<>>
  \/ m.n = f.next_seq
  \/ m.n = 0

\* A fault: the next number expected does not move.
validate_sequence_stuck(f, m) == [f EXCEPT !.received_count = @ + 1]

validate_sequence(f, m) ==
  [f EXCEPT !.received_count = @ + 1,
            !.next_seq = CASE f.senders = <<>> -> @
                           [] f.senders # <<>> /\ m.n = @ -> @ + 1
                           [] OTHER -> 1]

\* handle_action counts every message it has sent.
count_send(f) == [f EXCEPT !.send_count = @ + 1]

notification_due(f) == f.received_count = f.notify_count

\* A fault: the count of the last run is not cleared.
get_and_clear_kept(f) == [f EXCEPT !.send_count = 0]

get_and_clear_received_count(f) ==
  [f EXCEPT !.received_count = 0, !.send_count = 0]

\* The senders a forwarder keeps alive.
Holds(f) == {f.senders[j] : j \in DOMAIN f.senders} \cup {f.notify_sender}
=============================================================================
