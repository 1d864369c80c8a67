------------------------------ MODULE MCDFile ------------------------------
(* What the connections that TLC checks transfer, and what goes wrong. *)
EXTENDS DFile

\* Two blocks and an empty file from the phone, one block back.
BothWays == [e \in Ends |-> IF e = "phone" THEN <<2, 0>> ELSE <<1>>]

\* Two files from the phone, nothing back.
TwoFiles == [e \in Ends |-> IF e = "phone" THEN <<2, 1>> ELSE <<>>]

OneEach == [e \in Ends |-> <<1>>]

With(blocks, timeouts, faults) ==
  [blocks |-> blocks, timeouts |-> timeouts, faults |-> faults,
   may_close |-> {}, set_up_late |-> {}]

\* Transfers both ways with retransmissions, that the phone may cut short.
Busy == {[With(BothWays, {"negotiate", "tx", "rx", "retran"},
               {"send data", "send done"})
            EXCEPT !.may_close = {"phone"}, !.set_up_late = {"daemon"}]}

\* Local operations that fail, without the transfer timers, where the engines
\* can only wait for each other, and with them.
Failing ==
  {With(BothWays, {"negotiate"}, {"start", "create", "write", "verify"}),
   With(OneEach, {"negotiate", "tx", "rx"},
        {"start", "create", "read", "write", "verify"})}

SendsFail(timeouts) ==
  With(OneEach, timeouts,
       {"send header", "send confirm", "send req", "send doneack"})

Cut(environments) == {[x EXCEPT !.may_close = {"phone"}] : x \in environments}

\* For transfers to end whatever fails, both timers must run.
CalmAndHarsh == Cut(Failing \cup {SendsFail({"tx", "rx", "ctrl"})})

\* Anything that may go wrong, for what must hold at every step; with failing
\* sends one transfer timer at a time (bound).
Anything ==
  Busy \cup Cut(Failing \cup {SendsFail({"tx", "ctrl"}), SendsFail({"rx", "ctrl"})})

Quiet == {With(OneEach, {}, {})}
QuietTwoFiles == {With(TwoFiles, {}, {})}
AckFails == {With(OneEach, {}, {"send ack"})}

\* One thing at a time that the comments in the code speak of.
AsCommented ==
  Quiet \cup {With(BothWays, {}, {})} \cup {With(OneEach, {"tx"}, {})}
  \cup {[x EXCEPT !.set_up_late = Ends] : x \in Quiet}
  \cup {[x EXCEPT !.may_close = {"phone"}] : x \in Quiet}
=============================================================================
