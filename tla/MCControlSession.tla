-------------------------- MODULE MCControlSession --------------------------
(* What the owners and the phone may do in the sessions that TLC checks. *)
EXTENDS ControlSession

\* Both ends repeat what is not answered.
BothRetry == {[retries |-> Ends, closes |-> FALSE, extras |-> 0, streams |-> TRUE]}

\* Nobody repeats: the phone may say something unasked, and may close.
PhoneDisturbs == {[retries |-> {}, closes |-> TRUE, extras |-> 1, streams |-> TRUE]}

\* The daemon was given no stream port.
NoStream == {[retries |-> {}, closes |-> FALSE, extras |-> 1, streams |-> FALSE]}

AllDisturbed == BothRetry \cup PhoneDisturbs \cup NoStream

PhoneRepeats == {[retries |-> {}, closes |-> FALSE, extras |-> 1, streams |-> TRUE]}
Undisturbing == {[retries |-> {}, closes |-> FALSE, extras |-> 0, streams |-> TRUE]}
=============================================================================
