--------------------------- MODULE SessionBackend ---------------------------
(***************************************************************************)
(* The infrastructure transport (src/src/transport/infra_backend.c) and    *)
(* the sessions it accepts (src/src/proto/softbus_session.c): who owns a   *)
(* session, who joins its pump thread, and who is told that it is over.    *)
(*                                                                         *)
(* Threads: the accept loop, one pump per session, and the main thread     *)
(* that starts, stops and drops the transport.  A step is what a thread    *)
(* does between two accesses to state it shares with the others; a section *)
(* under sessions_mutex is one step.  What a pump reads, and the discovery *)
(* thread, which shares nothing with them, are left out.                   *)
(***************************************************************************)
EXTENDS Naturals, FiniteSets

CONSTANTS
  Sessions,     \* connections that may be accepted (bound)
  DropsRunning  \* the owner may drop the transport without stopping it

ASSUME BackendAssumption ==
  /\ IsFiniteSet(Sessions)
  /\ DropsRunning \in BOOLEAN

VARIABLES
  state,     \* HwPhoneLinkState of the transport
  accept,    \* program counter of the accept loop
  current,   \* the session it is working on: a set of at most one
  main,      \* program counter of the main thread
  todo,      \* sessions the main thread still has to stop
  refs,      \* [Sessions -> references held]
  running,   \* [Sessions -> the session's running flag]
  thread,    \* [Sessions -> who has the GThread reference]
  closed_cb, \* [Sessions -> the closed callback is registered]
  pump,      \* [Sessions -> program counter of the pump thread]
  listed,    \* sessions in the transport's list
  opened, closed, \* sessions announced with session-opened, session-closed
  broken     \* "no", or what a thread did to memory it does not own

threadVars == <<accept, current, main, todo>>
sessionVars == <<refs, running, thread, closed_cb, pump>>
vars == <<state, threadVars, sessionVars, listed, opened, closed, broken>>

\* One type invariant for the transport, its threads and its sessions.
TypeOK ==
  /\ state \in {"STOPPED", "RUNNING", "STOPPING", "ERROR"}
  /\ accept \in {"off", "accepting", "spawned", "created", "registered", "listed"}
  /\ current \in SUBSET Sessions /\ Cardinality(current) <= 1
  /\ (current = {}) = (accept \in {"off", "accepting"})
  /\ main \in {"new", "up", "failed", "stop", "collect", "stop sessions",
               "joining", "stopped", "drop", "release", "release joining", "gone"}
  /\ todo \subseteq Sessions
  /\ refs \in [Sessions -> 0 .. 3]
  /\ running \in [Sessions -> BOOLEAN]
  /\ thread \in [Sessions -> {"unset", "owned", "dropped", "joined"}]
  /\ closed_cb \in [Sessions -> BOOLEAN]
  /\ pump \in [Sessions -> {"off", "reading", "ended", "claimed", "called",
                            "signal", "drop", "done"}]
  /\ listed \subseteq Sessions
  /\ opened \subseteq Sessions /\ closed \subseteq Sessions
  /\ broken \in {"no", "freed session", "opened freed session",
                 "freed transport", "null thread", "joined itself"}

Init ==
  /\ state = "STOPPED" /\ accept = "off" /\ current = {} /\ main = "new"
  /\ todo = {}
  /\ refs = [s \in Sessions |-> 0]
  /\ running = [s \in Sessions |-> FALSE]
  /\ thread = [s \in Sessions |-> "unset"]
  /\ closed_cb = [s \in Sessions |-> FALSE]
  /\ pump = [s \in Sessions |-> "off"]
  /\ listed = {} /\ opened = {} /\ closed = {} /\ broken = "no"

-----------------------------------------------------------------------------
(***************************************************************************)
(* The accept loop.  The listeners are up while the transport is not       *)
(* stopping: stop sets the running flag and cancels the accept.            *)
(***************************************************************************)
ListenersUp == main \in {"up"}

\* softbus_session_new: the pump runs before its thread is stored.
Accept(s) ==
  /\ broken = "no" /\ accept = "accepting" /\ ListenersUp /\ pump[s] = "off"
  /\ accept' = "spawned" /\ current' = {s}
  /\ refs' = [refs EXCEPT ![s] = 1]
  /\ running' = [running EXCEPT ![s] = TRUE]
  /\ pump' = [pump EXCEPT ![s] = "reading"]
  /\ UNCHANGED <<state, main, todo, thread, closed_cb, listed, opened, closed, broken>>

StoreThread(s) ==
  /\ broken = "no" /\ accept = "spawned" /\ s \in current
  /\ accept' = "created"
  /\ thread' = [thread EXCEPT ![s] = "owned"]
  /\ UNCHANGED <<state, current, main, todo, refs, running, closed_cb, pump,
                 listed, opened, closed, broken>>

softbus_session_set_closed_cb(s) ==
  /\ broken = "no" /\ accept = "created" /\ s \in current
  /\ accept' = "registered"
  /\ closed_cb' = [closed_cb EXCEPT ![s] = TRUE]
  /\ UNCHANGED <<state, current, main, todo, refs, running, thread, pump,
                 listed, opened, closed, broken>>

\* The list takes over the creator's reference.
AppendSession(s) ==
  /\ broken = "no" /\ accept = "registered" /\ s \in current
  /\ accept' = "listed"
  /\ listed' = listed \cup {s}
  /\ UNCHANGED <<state, current, main, todo, sessionVars, opened, closed, broken>>

\* session-opened: its handlers use the session, which nobody holds for them.
EmitOpened(s) ==
  /\ broken = "no" /\ accept = "listed" /\ s \in current
  /\ IF refs[s] = 0
     THEN broken' = "opened freed session" /\ UNCHANGED opened
     ELSE opened' = opened \cup {s} /\ UNCHANGED broken
  /\ accept' = "accepting" /\ current' = {}
  /\ UNCHANGED <<state, main, todo, sessionVars, listed, closed>>

AcceptLoopEnds ==
  /\ broken = "no" /\ accept = "accepting" /\ ~ListenersUp
  /\ accept' = "off"
  /\ UNCHANGED <<state, current, main, todo, sessionVars, listed, opened, closed, broken>>

-----------------------------------------------------------------------------
(***************************************************************************)
(* The pump.                                                               *)
(***************************************************************************)

\* End of the stream, a read error, or the cancellation by stop.
PumpEnds(s) ==
  /\ broken = "no" /\ pump[s] = "reading"
  /\ pump' = [pump EXCEPT ![s] = "ended"]
  /\ UNCHANGED <<state, threadVars, refs, running, thread, closed_cb, listed,
                 opened, closed, broken>>

\* Mutant: the flag is left to stop and finalize.
PumpClaimsNothing(s) ==
  /\ broken = "no" /\ pump[s] = "ended"
  /\ pump' = [pump EXCEPT ![s] = "claimed"]
  /\ UNCHANGED <<state, threadVars, refs, running, thread, closed_cb, listed,
                 opened, closed, broken>>

\* Mutant: the pump drops the thread whoever won.
PumpClaimsAlways(s) ==
  /\ broken = "no" /\ pump[s] = "ended"
  /\ pump' = [pump EXCEPT ![s] = "claimed"]
  /\ thread' = [thread EXCEPT ![s] = "dropped"]
  /\ running' = [running EXCEPT ![s] = FALSE]
  /\ UNCHANGED <<state, threadVars, refs, closed_cb, listed, opened, closed, broken>>

\* The compare-and-exchange of running: the pump drops the GThread reference
\* itself unless stop or finalize will join it.
PumpClaims(s) ==
  /\ broken = "no" /\ pump[s] = "ended"
  /\ pump' = [pump EXCEPT ![s] = "claimed"]
  /\ running' = [running EXCEPT ![s] = FALSE]
  /\ CASE refs[s] = 0 -> broken' = "freed session" /\ UNCHANGED thread
       [] refs[s] > 0 /\ running[s] /\ thread[s] = "unset" ->
            broken' = "null thread" /\ UNCHANGED thread
       [] refs[s] > 0 /\ running[s] /\ thread[s] # "unset" ->
            thread' = [thread EXCEPT ![s] = "dropped"] /\ UNCHANGED broken
       [] OTHER -> UNCHANGED <<thread, broken>>
  /\ UNCHANGED <<state, threadVars, refs, closed_cb, listed, opened, closed>>

\* Mutant: a stopped session does not call back.
EmitClosedUnlessStopped(s) ==
  /\ broken = "no" /\ pump[s] = "claimed" /\ refs[s] > 0
  /\ IF closed_cb[s] /\ thread[s] = "dropped"
     THEN /\ pump' = [pump EXCEPT ![s] = "called"]
          /\ refs' = [refs EXCEPT ![s] = @ + 1]
     ELSE pump' = [pump EXCEPT ![s] = "done"] /\ UNCHANGED refs
  /\ UNCHANGED <<state, threadVars, running, thread, closed_cb, listed, opened,
                 closed, broken>>

\* _emit_closed: with a reference of its own across the callback, if one is
\* registered by now.
EmitClosed(s) ==
  /\ broken = "no" /\ pump[s] = "claimed"
  /\ CASE refs[s] = 0 ->
            broken' = "freed session" /\ UNCHANGED <<refs, pump>>
       [] refs[s] > 0 /\ ~closed_cb[s] ->
            pump' = [pump EXCEPT ![s] = "done"] /\ UNCHANGED <<refs, broken>>
       [] OTHER ->
            /\ pump' = [pump EXCEPT ![s] = "called"]
            /\ refs' = [refs EXCEPT ![s] = @ + 1]
            /\ UNCHANGED broken
  /\ UNCHANGED <<state, threadVars, running, thread, closed_cb, listed, opened, closed>>

\* Mutant: the reference is released whether or not the list still owns it.
OnSessionClosedAlways(s) ==
  /\ broken = "no" /\ pump[s] = "called" /\ main # "gone"
  /\ refs' = [refs EXCEPT ![s] = @ - 1]
  /\ listed' = listed \ {s}
  /\ pump' = [pump EXCEPT ![s] = "signal"]
  /\ UNCHANGED <<state, threadVars, running, thread, closed_cb, opened, closed, broken>>

\* Mutant: stop keeps sessions_mutex while it joins the pumps.
OnSessionClosedLocked(s) ==
  /\ broken = "no" /\ pump[s] = "called" /\ main \notin {"joining", "release joining"}
  /\ refs' = IF s \in listed THEN [refs EXCEPT ![s] = @ - 1] ELSE refs
  /\ listed' = listed \ {s}
  /\ pump' = [pump EXCEPT ![s] = "signal"]
  /\ UNCHANGED <<state, threadVars, running, thread, closed_cb, opened, closed, broken>>

\* _on_session_closed under the mutex: whoever takes the session off the list
\* releases the list's reference.
OnSessionClosed(s) ==
  /\ broken = "no" /\ pump[s] = "called"
  /\ IF main = "gone"
     THEN broken' = "freed transport" /\ UNCHANGED <<refs, listed, pump>>
     ELSE /\ refs' = IF s \in listed THEN [refs EXCEPT ![s] = @ - 1] ELSE refs
          /\ listed' = listed \ {s}
          /\ pump' = [pump EXCEPT ![s] = "signal"]
          /\ UNCHANGED broken
  /\ UNCHANGED <<state, threadVars, running, thread, closed_cb, opened, closed>>

SignalClosed(s) ==
  /\ broken = "no" /\ pump[s] = "signal"
  /\ pump' = [pump EXCEPT ![s] = "drop"]
  /\ IF main = "gone" THEN broken' = "freed transport" /\ UNCHANGED closed
                      ELSE closed' = closed \cup {s} /\ UNCHANGED broken
  /\ UNCHANGED <<state, threadVars, refs, running, thread, closed_cb, listed, opened>>

\* The pump gives up its reference.  If it was the last one finalize runs on
\* this thread, and must not join it.
PumpDone(s) ==
  /\ broken = "no" /\ pump[s] = "drop"
  /\ pump' = [pump EXCEPT ![s] = "done"]
  /\ refs' = [refs EXCEPT ![s] = @ - 1]
  /\ broken' = IF refs[s] = 1 /\ running[s] THEN "joined itself" ELSE broken
  /\ UNCHANGED <<state, threadVars, running, thread, closed_cb, listed, opened, closed>>

-----------------------------------------------------------------------------
(***************************************************************************)
(* The main thread.                                                        *)
(***************************************************************************)

\* start: no such interface, no address, or a listener that does not come
\* up leave the transport in ERROR without an accept loop.
start(ok) ==
  /\ broken = "no" /\ main = "new"
  /\ IF ok THEN main' = "up" /\ state' = "RUNNING" /\ accept' = "accepting"
           ELSE main' = "failed" /\ state' = "ERROR" /\ UNCHANGED accept
  /\ UNCHANGED <<current, todo, sessionVars, listed, opened, closed, broken>>

\* stop, first part: _stop_listeners clears the flag and cancels.
stop ==
  /\ broken = "no" /\ main = "up"
  /\ main' = "stop" /\ state' = "STOPPING"
  /\ UNCHANGED <<accept, current, todo, sessionVars, listed, opened, closed, broken>>

\* The accept thread is joined.
StopListeners ==
  /\ broken = "no" /\ main \in {"stop", "drop"} /\ accept = "off"
  /\ main' = IF main = "stop" THEN "collect" ELSE "release"
  /\ todo' = IF main = "stop" THEN todo ELSE listed
  /\ listed' = IF main = "stop" THEN listed ELSE {}
  /\ UNCHANGED <<state, accept, current, sessionVars, opened, closed, broken>>

\* stop copies the list and empties it: the sessions are off the list, and
\* the references it held belong to nobody.
CollectSessions ==
  /\ broken = "no" /\ main = "collect"
  /\ main' = "stop sessions"
  /\ todo' = listed /\ listed' = {}
  /\ UNCHANGED <<state, accept, current, sessionVars, opened, closed, broken>>

\* softbus_session_stop: the winner of the exchange joins the pump, the loser
\* goes on at once.  The release path also gives up the reference.
StopSession(s) ==
  /\ broken = "no" /\ main \in {"stop sessions", "release"} /\ s \in todo
  /\ running' = [running EXCEPT ![s] = FALSE]
  /\ IF running[s]
     THEN /\ main' = IF main = "release" THEN "release joining" ELSE "joining"
          /\ todo' = {s} \cup todo
          /\ thread' = [thread EXCEPT ![s] = "joined"]
          /\ UNCHANGED refs
     ELSE /\ todo' = todo \ {s}
          /\ refs' = IF main = "release" THEN [refs EXCEPT ![s] = @ - 1] ELSE refs
          /\ UNCHANGED <<main, thread>>
  /\ UNCHANGED <<state, accept, current, closed_cb, pump, listed, opened, closed, broken>>

\* The join returns when the pump thread has ended.
Joined(s) ==
  /\ broken = "no" /\ main \in {"joining", "release joining"}
  /\ s \in todo /\ thread[s] = "joined" /\ pump[s] = "done"
  /\ todo' = todo \ {s}
  /\ main' = IF main = "joining" THEN "stop sessions" ELSE "release"
  /\ refs' = IF main = "joining" THEN refs ELSE [refs EXCEPT ![s] = @ - 1]
  /\ UNCHANGED <<state, accept, current, running, thread, closed_cb, pump,
                 listed, opened, closed, broken>>

StopReturns ==
  /\ broken = "no" /\ main = "stop sessions" /\ todo = {}
  /\ main' = "stopped" /\ state' = "STOPPED"
  /\ UNCHANGED <<accept, current, todo, sessionVars, listed, opened, closed, broken>>

\* g_object_unref of the transport: finalize stops the listeners if they are
\* up, then releases the sessions still listed.
finalize ==
  /\ broken = "no"
  /\ main \in {"stopped", "failed"} \cup (IF DropsRunning THEN {"up"} ELSE {})
  /\ main' = "drop"
  /\ UNCHANGED <<state, accept, current, todo, sessionVars, listed, opened,
                 closed, broken>>

FinalizeReturns ==
  /\ broken = "no" /\ main = "release" /\ todo = {}
  /\ main' = "gone"
  /\ UNCHANGED <<state, accept, current, todo, sessionVars, listed, opened,
                 closed, broken>>

-----------------------------------------------------------------------------
AcceptLoop ==
  \/ \E s \in Sessions : Accept(s)
  \/ \E s \in Sessions : StoreThread(s)
  \/ \E s \in Sessions : softbus_session_set_closed_cb(s)
  \/ \E s \in Sessions : AppendSession(s)
  \/ \E s \in Sessions : EmitOpened(s)
  \/ AcceptLoopEnds

PumpThread(s) ==
  \/ PumpEnds(s) \/ PumpClaims(s) \/ EmitClosed(s) \/ OnSessionClosed(s)
  \/ SignalClosed(s) \/ PumpDone(s)

MainThread ==
  \/ \E ok \in BOOLEAN : start(ok)
  \/ stop
  \/ StopListeners
  \/ CollectSessions
  \/ \E s \in Sessions : StopSession(s)
  \/ \E s \in Sessions : Joined(s)
  \/ StopReturns
  \/ finalize
  \/ FinalizeReturns

Next == AcceptLoop \/ (\E s \in Sessions : PumpThread(s)) \/ MainThread

Spec == Init /\ [][Next]_vars

-----------------------------------------------------------------------------
(***************************************************************************)
(* Properties.                                                             *)
(***************************************************************************)

\* Every holder of a session has a reference: the accept loop until it has
\* listed it, the list, the main thread once it has taken the list over, and
\* the pump while it calls back ("list membership is the ownership record").
HoldersHaveReferences ==
  \A s \in Sessions :
    refs[s] >= (IF s \in listed THEN 1 ELSE 0)
             + (IF s \in current /\ accept # "listed" THEN 1 ELSE 0)
             + (IF s \in todo THEN 1 ELSE 0)
             + (IF pump[s] \in {"called", "signal", "drop"} THEN 1 ELSE 0)

\* The pump never joins itself, although its callback may drop the last
\* reference and run finalize on its own thread (softbus_session_finalize).
NeverJoinsItself == broken # "joined itself"

\* The GThread reference is consumed by exactly one side: what the main
\* thread is joining, the pump has not dropped.
OneThreadOwner ==
  main \in {"joining", "release joining"} => \E s \in todo : thread[s] = "joined"

\* softbus_session_stop, having joined a pump, has had its closed callback:
\* the daemon is told of every session that stop ends.
JoinedIsReported ==
  \A s \in Sessions :
    thread[s] = "joined" /\ pump[s] = "done" /\ closed_cb[s] => s \in closed

\* softbus_session.h: "The closed callback is invoked once, from the pump
\* thread, after the pump has fully stopped".
ClosedIsReported ==
  \A s \in Sessions : pump[s] = "done" => s \in closed

\* wifi_transport.c: "The transport keeps the session alive ... so handlers
\* may use the pointer without taking their own ref".
OpenedIsAlive == broken # "opened freed session"

\* infra_backend.c, stop: the closed callback "removes each session from the
\* list and releases the backend ref".
StopReleases ==
  main = "stopped" =>
    \A s \in Sessions : thread[s] = "joined" /\ s \in closed => refs[s] = 0

\* softbus_session.c, stop: the join "guarantees the closed callback has
\* fired before stop() returns".
StopWaitsForClosed ==
  main = "stopped" =>
    \A s \in Sessions : pump[s] \in {"off", "done"}

(***************************************************************************)
(* Liveness.  The accept loop finishes with a connection it has taken and  *)
(* returns once it is cancelled; the main thread completes a shutdown it   *)
(* has begun; a pump that is cancelled, or has left its loop, runs on.     *)
(* Nothing is assumed of the peers, nor of the owner while the transport   *)
(* is up.                                                                  *)
(***************************************************************************)
Fairness ==
  /\ WF_vars((current # {} \/ ~ListenersUp) /\ AcceptLoop)
  /\ WF_vars(main # "up" /\ MainThread)
  /\ \A s \in Sessions : WF_vars((~running[s] \/ pump[s] # "reading") /\ PumpThread(s))

FairSpec == Spec /\ Fairness

\* stop and finalize return, whatever the peers do meanwhile: no thread waits
\* for one that waits for it, although the closed callback needs the mutex
\* that guards the list and stop joins the pump that calls it.
ShutdownEnds == main \in {"stop", "drop"} ~> (main = "gone" \/ broken # "no")
=============================================================================
