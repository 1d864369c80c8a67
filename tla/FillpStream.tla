---------------------------- MODULE FillpStream ----------------------------
(***************************************************************************)
(* What one direction of a fillp connection promises its user              *)
(* (src/src/proto/fillp_conn.h): the items queued by the sending           *)
(* application reach the receiving one in order and exactly once, and      *)
(* on_tx_complete fires only when all of them have.  fault records that    *)
(* the receiving process has read freed memory: "aborted" ends it, after   *)
(* "corrupt" nothing is promised about completion any more.                *)
(***************************************************************************)
EXTENDS Naturals, Sequences

CONSTANT StreamLen

VARIABLES queued, delivered, complete, fault

streamVars == <<queued, delivered, complete, fault>>

Init ==
  /\ queued = 0
  /\ delivered = <<>>
  /\ complete = FALSE
  /\ fault = "ok"

\* The sending application queues more of its stream.
Queue ==
  /\ \E n \in queued .. StreamLen : queued' = n
  /\ UNCHANGED <<delivered, complete, fault>>

\* The next n queued items reach the receiving application.
Deliver ==
  /\ fault = "ok"
  /\ \E n \in Len(delivered) .. queued : delivered' = [i \in 1 .. n |-> i]
  /\ UNCHANGED <<queued, complete, fault>>

\* The sender is told that everything has arrived.
Complete ==
  /\ \/ queued = StreamLen /\ Len(delivered) >= StreamLen
     \/ fault = "corrupt"
  /\ complete' = TRUE
  /\ UNCHANGED <<queued, delivered, fault>>

\* The receiver breaks after delivering one more item, with or without a
\* piece of freed memory (0) behind it.
Break ==
  /\ fault = "ok"
  /\ fault' \in {"aborted", "corrupt"}
  /\ Len(delivered) < queued
  /\ delivered' \in {[i \in 1 .. Len(delivered) + 1 |-> i],
                     Append([i \in 1 .. Len(delivered) + 1 |-> i], 0)}
  /\ UNCHANGED <<queued, complete>>

Next == Queue \/ Deliver \/ Complete \/ Break

Spec == Init /\ [][Next]_streamVars
============================================================================
