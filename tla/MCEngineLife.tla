---------------------------- MODULE MCEngineLife ----------------------------
(* What the users of the engines that TLC checks may do. *)
EXTENDS EngineLife

Uses(kind, holders, closers, connectors, dropped) ==
  [kind |-> kind, holders |-> holders, closers |-> closers,
   connectors |-> connectors, dropped |-> dropped, late |-> FALSE,
   slow |-> FALSE, inside |-> FALSE]

\* The daemon's main thread connects, closes and drops its FILLP engine; two
\* threads close and drop one, and a DFile connection, which a callback may close
\* too; the daemon's DFile connections are dropped by on_closed.
AsUsed == {
  Uses("fillp", {"main"}, {"main"}, {"main"}, FALSE),
  Uses("fillp", {"main", "other"}, {"main", "other"}, {}, FALSE),
  [Uses("dfile", {"main", "other"}, {"main", "other"}, {}, FALSE)
     EXCEPT !.inside = TRUE],
  [Uses("dfile", {}, {}, {}, TRUE) EXCEPT !.late = TRUE]}

\* A thread of a DFile connection starts the stream phase on the engine the
\* main thread is closing: the invoke runs on the calling thread when nobody
\* owns the default context any more.
LateStart == {Uses("fillp", {"main"}, {"main"}, {"other"}, FALSE)}

SlowConnect ==
  {[e EXCEPT !.slow = TRUE] : e \in {Uses("fillp", {"main"}, {"main"}, {"main"}, FALSE)}}

LateCallbacks == {[e EXCEPT !.late = TRUE] : e \in {Uses("dfile", {}, {}, {}, TRUE)}}
=============================================================================
