---------------------------- MODULE FileTransfer ----------------------------
(***************************************************************************)
(* What a DFile transfer promises the two applications                     *)
(* (src/src/proto/dfile_conn.h).  The receiver writes the blocks of each   *)
(* file in order, each once, and verifies them; the sender reports success *)
(* after that, and the receiver after the sender.  Either end may fail     *)
(* before, and what an end has reported stands.  So the ends can disagree  *)
(* in one way only: the sender succeeds and the receiver does not learn.   *)
(***************************************************************************)
EXTENDS Naturals, Sequences

VARIABLES
  blocks,            \* the files offered, in blocks
  sender, receiver,  \* "none", "active", "ok" or "failed"
  written,           \* blocks written of each file
  verified           \* the receiver has checked the contents

transferVars == <<blocks, sender, receiver, written, verified>>

Init ==
  /\ blocks \in Seq(Nat)
  /\ sender = "none" /\ receiver = "none"
  /\ written = [f \in DOMAIN blocks |-> 0]
  /\ verified = FALSE

\* The sending application offers its files.
Offer ==
  /\ sender = "none" /\ sender' = "active"
  /\ UNCHANGED <<blocks, receiver, written, verified>>

\* The offer has arrived; the receiver takes it or fails at once.
Accept ==
  /\ receiver = "none" /\ sender # "none"
  /\ receiver' \in {"active", "failed"}
  /\ UNCHANGED <<blocks, sender, written, verified>>

\* The next block of a file is written.
Write ==
  /\ receiver = "active"
  /\ \E f \in DOMAIN blocks :
       /\ written[f] < blocks[f]
       /\ written' = [written EXCEPT ![f] = @ + 1]
  /\ UNCHANGED <<blocks, sender, receiver, verified>>

\* All blocks are there and their contents are right.
Verify ==
  /\ receiver = "active" /\ ~verified /\ written = blocks
  /\ verified' = TRUE
  /\ UNCHANGED <<blocks, sender, receiver, written>>

SenderEnds ==
  /\ sender = "active"
  /\ sender' = "failed" \/ (verified /\ sender' = "ok")
  /\ UNCHANGED <<blocks, receiver, written, verified>>

ReceiverEnds ==
  /\ receiver = "active"
  /\ receiver' = "failed" \/ (sender = "ok" /\ receiver' = "ok")
  /\ UNCHANGED <<blocks, sender, written, verified>>

Next == Offer \/ Accept \/ Write \/ Verify \/ SenderEnds \/ ReceiverEnds

Spec == Init /\ [][Next]_transferVars
=============================================================================
