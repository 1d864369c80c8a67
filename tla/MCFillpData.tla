---------------------------- MODULE MCFillpData ----------------------------
(* FillpData for TLC, with the promise of FillpStream it implements.        *)
EXTENDS FillpData

Stream == INSTANCE FillpStream
            WITH queued <- filled, complete <- tx_notified, fault <- mem

\* The data plane implements the in-order, exactly-once stream that
\* fillp_conn.h describes: every handler is a step of FillpStream or changes
\* nothing its users can see.
ImplementsStream == Stream!Spec
============================================================================
