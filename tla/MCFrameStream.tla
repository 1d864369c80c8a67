---------------------------- MODULE MCFrameStream ----------------------------
(* The streams that TLC checks. *)
EXTENDS FrameStream

Stream(kind, first, second) ==
  [kind |-> kind, plan |-> [s \in Senders |-> IF s = "accept" THEN first ELSE second],
   noise |-> 0, ends |-> FALSE, stops |-> FALSE, times_out |-> FALSE]

\* Two threads send on a session that may be stopped; a session hears noise
\* first; a DFile connection and a file may end at any frame, and the former
\* hears noise.
Streams == {
  [Stream("session", <<2, 3>>, <<4>>) EXCEPT !.stops = TRUE],
  [Stream("session", <<3, 2>>, <<>>) EXCEPT !.noise = 3],
  [Stream("dfile", <<2, 3, 2>>, <<>>) EXCEPT !.ends = TRUE],
  [Stream("dfile", <<2>>, <<>>) EXCEPT !.noise = 2],
  [Stream("file", <<3, 2, 2>>, <<>>) EXCEPT !.ends = TRUE]}

\* A write that fails part of the way without ending the session.
TimedOut == {[Stream("session", <<3, 2>>, <<>>) EXCEPT !.times_out = TRUE]}
=============================================================================
