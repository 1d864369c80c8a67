----------------------------- MODULE EngineLife -----------------------------
(***************************************************************************)
(* The life of an engine: a structure with its own thread, main context,   *)
(* socket and lock, shared with the threads of the application.  The FILLP *)
(* engine (src/src/proto/fillp_conn.c) and a DFile connection              *)
(* (src/src/proto/dfile_conn.c) follow the same scheme, close under the    *)
(* lock, teardown by the thread itself, a reference for the thread and one *)
(* for the creator, and differ in what ends them.  A DFile connection has  *)
(* a single peer, the one it is connected to.                              *)
(*                                                                         *)
(* A step is what a thread does between two accesses to what it shares; a  *)
(* section under the engine's lock is one step.  The protocols that run in *)
(* the loop are left out (FillpData, StreamSession, DFile).                *)
(***************************************************************************)
EXTENDS Naturals, Sequences, FiniteSets

CONSTANTS
  Users,        \* threads of the application
  Peers,        \* peers an engine may ever have (bound)
  Environments  \* what the engine is and what its users do with it

\* kind: which of the two engines; holders: users with a reference; closers,
\* connectors: users that may call close, connect; dropped: the callback
\* on_closed gives up the creator's reference (main.c on_ft_closed);
\* late: the thread may run before the callbacks are set; slow: a call
\* may take longer than the handshake and close timeouts; inside: a callback
\* may call close.
ASSUME EngineAssumption ==
  /\ Peers # {} /\ "close" \notin Peers
  /\ IsFiniteSet(Users) /\ "creator" \notin Users
  /\ Environments \subseteq
       [kind : {"fillp", "dfile"}, holders : SUBSET Users,
        closers : SUBSET Users, connectors : SUBSET Users,
        dropped : BOOLEAN, late : BOOLEAN, slow : BOOLEAN, inside : BOOLEAN]

VARIABLES
  env,             \* the environment of this behaviour
  refs, freed,     \* the reference count; the structure is freed
  holds,           \* who still has to give up a reference
  close_requested, thread_started, thread_done,
  closing,         \* close_in_progress, or the state DC_ST_CLOSING
  callbacks,       \* set_callbacks has been called
  ctx, socket,     \* the main context and the socket exist
  pc,              \* where the engine thread is
  invoked,         \* sources invoked on the context, in order
  table,           \* the peers in the table
  alive, born,     \* peers allocated, peers ever created
  closed,          \* peers whose state is CLOSED
  todo,            \* the engine thread's snapshot of peers to finalize
  sending,         \* connects between the table and the socket
  notified,        \* [Peers -> calls of on_closed]
  misuse           \* what was used after its end

count == <<refs, freed, holds>>
flags == <<close_requested, thread_started, thread_done>>
peers == <<table, alive, born, closed, notified>>
vars == <<env, count, flags, closing, callbacks, ctx, socket, pc, invoked,
          peers, todo, sending, misuse>>

\* One type invariant for the structure, its thread and its users.
StructureTyped ==
  /\ env \in Environments
  /\ refs \in 0 .. Cardinality(Users) + 2 /\ freed \in BOOLEAN
  /\ holds \subseteq Users \cup {"creator"}
  /\ close_requested \in BOOLEAN /\ thread_started \in BOOLEAN
  /\ thread_done \in BOOLEAN /\ closing \in BOOLEAN /\ callbacks \in BOOLEAN
  /\ ctx \in BOOLEAN /\ socket \in BOOLEAN

ThreadTyped ==
  /\ pc \in {"begin", "sources", "loop", "shutdown", "finalize", "abort",
             "abort finalize", "teardown", "mark", "unref", "drop", "ended",
             "deadlocked"}
  /\ invoked \in Seq({"close"} \cup Peers)

PeersTyped ==
  /\ table \subseteq alive /\ alive \subseteq born /\ born \subseteq Peers
  /\ closed \subseteq born /\ todo \subseteq Peers
  /\ sending \subseteq Users \X Peers
  /\ notified \in [Peers -> 0 .. 2]
  /\ misuse \subseteq {"engine", "context", "socket", "table", "peer"}

TypeOK == StructureTyped /\ ThreadTyped /\ PeersTyped

Fillp == env.kind = "fillp"

\* The constructor: one reference for the creator, one for the thread.
Init ==
  /\ env \in Environments
  /\ holds = env.holders \cup (IF env.dropped THEN {"creator"} ELSE {})
  /\ refs = Cardinality(holds) + 1 /\ freed = FALSE
  /\ close_requested = FALSE /\ thread_started = FALSE /\ thread_done = FALSE
  /\ closing = FALSE /\ callbacks = ~env.late
  /\ ctx = TRUE /\ socket = TRUE /\ pc = "begin" /\ invoked = <<>>
  /\ born \in {P \in SUBSET Peers : IF Fillp THEN P = {} ELSE Cardinality(P) = 1}
  /\ table = born /\ alive = born /\ closed = {}
  /\ todo = {} /\ sending = {}
  /\ notified = [p \in Peers |-> 0] /\ misuse = {}

\* The end of a reference frees the structure with the last one.
Unref(n) == refs' = refs - n /\ freed' = (refs = n)

-----------------------------------------------------------------------------
(***************************************************************************)
(* The application's threads.  A user calls one function at a time; one    *)
(* without a reference may call while somebody else holds the engine.      *)
(***************************************************************************)
Calls(u) == pc # "deadlocked" /\ \A p \in Peers : <<u, p>> \notin sending

set_callbacks ==
  /\ ~callbacks /\ ~freed
  /\ callbacks' = TRUE
  /\ UNCHANGED <<env, count, flags, closing, ctx, socket, pc, invoked, peers,
                 todo, sending, misuse>>

\* close: the invoke happens under the lock, before the thread can mark
\* itself done and let the context go.
close(u) ==
  /\ u \in env.closers /\ Calls(u) /\ (u \in holds \/ u \notin env.holders)
  /\ IF freed
     THEN misuse' = misuse \cup {"engine"} /\ UNCHANGED <<close_requested, invoked>>
     ELSE /\ ~close_requested /\ ~thread_done
          /\ close_requested' = TRUE
          /\ invoked' = IF thread_started /\ ctx THEN Append(invoked, "close")
                                                 ELSE invoked
          /\ misuse' = IF thread_started /\ ~ctx THEN misuse \cup {"context"}
                                                 ELSE misuse
  /\ UNCHANGED <<env, count, thread_started, thread_done, closing, callbacks,
                 ctx, socket, pc, peers, todo, sending>>

\* fillp_engine_connect, the section under the lock: refused once a close is
\* requested, so the shutdown's snapshot misses nobody.
connect(u, p) ==
  /\ u \in env.connectors /\ Fillp /\ Calls(u)
  /\ (u \in holds \/ u \notin env.holders)
  /\ p \notin born
  /\ IF freed
     THEN misuse' = misuse \cup {"engine"} /\ UNCHANGED <<peers, sending>>
     ELSE /\ ~close_requested /\ ~thread_done
          /\ born' = born \cup {p} /\ alive' = alive \cup {p}
          /\ table' = table \cup {p} /\ sending' = sending \cup {<<u, p>>}
          /\ misuse' = IF pc \in {"mark", "unref", "drop", "ended"}
                       THEN misuse \cup {"table"} ELSE misuse
          /\ UNCHANGED <<closed, notified>>
  /\ UNCHANGED <<env, count, flags, closing, callbacks, ctx, socket, pc,
                 invoked, todo>>

\* The request is sent without the lock, on the engine's socket to the peer's
\* address.  One that cannot be sent closes the peer (fillp_peer_close: the
\* close is invoked, or made at once when the loop has not started).
ConnectSend(u, p, ok) ==
  /\ <<u, p>> \in sending /\ pc # "deadlocked"
  /\ sending' = sending \ {<<u, p>>}
  /\ misuse' = misuse \cup (IF freed THEN {"engine"} ELSE {})
                      \cup (IF socket THEN {} ELSE {"socket"})
                      \cup (IF p \in alive THEN {} ELSE {"peer"})
                      \cup (IF ~ok /\ thread_started /\ ~ctx THEN {"context"} ELSE {})
  /\ invoked' = IF ~ok /\ p \notin closed /\ ~thread_done /\ thread_started
                THEN Append(invoked, p) ELSE invoked
  /\ UNCHANGED <<env, count, flags, closing, callbacks, ctx, socket, pc, peers,
                 todo>>

\* A user gives up its reference once it has closed what it is to close.
unref(u) ==
  /\ u \in holds /\ Calls(u)
  /\ u \in env.closers => close_requested \/ thread_done
  /\ holds' = holds \ {u}
  /\ Unref(1)
  /\ UNCHANGED <<env, flags, closing, callbacks, ctx, socket, pc, invoked,
                 peers, todo, sending, misuse>>

-----------------------------------------------------------------------------
(***************************************************************************)
(* The engine thread, up to its loop.                                      *)
(***************************************************************************)

\* Mutant: the thread starts whatever was requested before.
BeginsAnyway ==
  /\ pc = "begin" /\ thread_started' = TRUE
  /\ pc' = IF Fillp THEN "loop" ELSE "sources"
  /\ UNCHANGED <<env, count, close_requested, thread_done, closing, callbacks,
                 ctx, socket, invoked, peers, todo, sending, misuse>>

\* A close requested before the thread ran has invoked nothing: a DFile
\* connection is closed here, a FILLP engine goes straight to its teardown.
Begin ==
  /\ pc = "begin"
  /\ IF close_requested
     THEN /\ pc' = IF Fillp THEN "teardown" ELSE "abort"
          /\ UNCHANGED thread_started
     ELSE thread_started' = TRUE /\ pc' = IF Fillp THEN "loop" ELSE "sources"
  /\ UNCHANGED <<env, count, close_requested, thread_done, closing, callbacks,
                 ctx, socket, invoked, peers, todo, sending, misuse>>

\* A DFile connection sends its settings before it loops, and shuts down when
\* it cannot.
SendSetting(ok) ==
  /\ pc = "sources"
  /\ pc' = IF ok THEN "loop" ELSE "abort"
  /\ UNCHANGED <<env, count, flags, closing, callbacks, ctx, socket, invoked,
                 peers, todo, sending, misuse>>

-----------------------------------------------------------------------------
(***************************************************************************)
(* The loop.  Sources that were ready when the loop quits are dispatched   *)
(* before it returns.                                                      *)
(***************************************************************************)

\* What was invoked first: a close shuts the engine down; the close of a peer
\* reads the peer.
Dispatch ==
  /\ pc = "loop" /\ invoked # <<>>
  /\ invoked' = Tail(invoked)
  /\ IF Head(invoked) = "close"
     THEN pc' = "shutdown" /\ UNCHANGED misuse
     ELSE /\ misuse' = IF Head(invoked) \in alive THEN misuse ELSE misuse \cup {"peer"}
          /\ UNCHANGED pc
  /\ UNCHANGED <<env, count, flags, closing, callbacks, ctx, socket, peers,
                 todo, sending>>

\* A peer the engine has not met sends its CONN_CONFIRM.
PeerArrives(p) ==
  /\ Fillp /\ pc = "loop" /\ ~closing /\ p \notin born
  /\ born' = born \cup {p} /\ alive' = alive \cup {p} /\ table' = table \cup {p}
  /\ UNCHANGED <<env, count, flags, closing, callbacks, ctx, socket, pc,
                 invoked, closed, notified, todo, sending, misuse>>

\* The tick finalizes the peers that have drained or timed out: not one whose
\* request is only being sent, nor one with a close on its way, unless a call
\* takes seconds.
Waiting(p) == (\E u \in Users : <<u, p>> \in sending)
              \/ \E i \in 1 .. Len(invoked) : invoked[i] = p

Tick(P) ==
  /\ Fillp /\ pc = "loop" /\ ~closing /\ P # {}
  /\ \A p \in P : env.slow \/ ~Waiting(p)
  /\ todo' = P /\ pc' = "finalize"
  /\ UNCHANGED <<env, count, flags, closing, callbacks, ctx, socket, invoked,
                 peers, sending, misuse>>

\* A DFile connection reads the end of the stream, an error, or something it
\* cannot parse.
StreamEnds ==
  /\ ~Fillp /\ pc = "loop" /\ ~closing
  /\ pc' = "shutdown"
  /\ UNCHANGED <<env, count, flags, closing, callbacks, ctx, socket, invoked,
                 peers, todo, sending, misuse>>

\* Mutant: the snapshot misses a peer.
ShutdownMisses ==
  /\ pc \in {"shutdown", "abort"}
  /\ closing' = TRUE
  /\ \E p \in Peers : todo' = table \ {p}
  /\ pc' = IF pc = "shutdown" THEN "finalize" ELSE "abort finalize"
  /\ UNCHANGED <<env, count, flags, callbacks, ctx, socket, invoked, peers,
                 sending, misuse>>

\* fp_engine_shutdown and shutdown_common: once, over a snapshot of the table.
Shutdown ==
  /\ pc \in {"shutdown", "abort"}
  /\ closing' = TRUE
  /\ todo' = IF closing THEN {} ELSE table
  /\ pc' = IF pc = "shutdown" THEN "finalize" ELSE "abort finalize"
  /\ UNCHANGED <<env, count, flags, callbacks, ctx, socket, invoked, peers,
                 sending, misuse>>

Finalizing == pc \in {"finalize", "abort finalize"}

\* fp_peer_finalize: the state guards the callback, which may give up the
\* creator's reference.
Notify(p) ==
  /\ Finalizing /\ p \in todo /\ p \notin closed
  /\ closed' = closed \cup {p}
  /\ notified' = IF callbacks THEN [notified EXCEPT ![p] = @ + 1] ELSE notified
  /\ IF callbacks /\ "creator" \in holds
     THEN holds' = holds \ {"creator"} /\ Unref(1)
     ELSE UNCHANGED count
  /\ UNCHANGED <<env, flags, closing, callbacks, ctx, socket, pc, invoked,
                 table, alive, born, todo, sending, misuse>>

\* A callback closes the engine.  The context belongs to this thread: the
\* invoke runs fp_engine_shutdown at once, under the lock it takes again.
\* That of a DFile connection takes no lock and finds it closing.
CloseInside(p) ==
  /\ env.inside /\ Finalizing /\ p \in todo \cap closed
  /\ ~close_requested /\ close_requested' = TRUE
  /\ pc' = IF Fillp /\ ~closing THEN "deadlocked" ELSE pc
  /\ UNCHANGED <<env, count, thread_started, thread_done, closing, callbacks,
                 ctx, socket, invoked, peers, todo, sending, misuse>>

\* Under the lock the peer leaves the table; then it is freed.
RemovePeer(p) ==
  /\ Finalizing /\ p \in todo /\ p \in closed
  /\ table' = table \ {p} /\ alive' = alive \ {p} /\ todo' = todo \ {p}
  /\ UNCHANGED <<env, count, flags, closing, callbacks, ctx, socket, pc,
                 invoked, born, closed, notified, sending, misuse>>

\* Back to the loop, if there was one.
Finalized ==
  /\ Finalizing /\ todo = {}
  /\ pc' = IF pc = "finalize" THEN "loop" ELSE "teardown"
  /\ UNCHANGED <<env, count, flags, closing, callbacks, ctx, socket, invoked,
                 peers, todo, sending, misuse>>

\* A shutdown has told the loop to quit.
LoopReturns ==
  /\ pc = "loop" /\ closing
  /\ pc' = "teardown"
  /\ UNCHANGED <<env, count, flags, closing, callbacks, ctx, socket, invoked,
                 peers, todo, sending, misuse>>

-----------------------------------------------------------------------------
(***************************************************************************)
(* The teardown by the thread itself.                                      *)
(***************************************************************************)

\* Sources, socket and table go without the lock.
Teardown ==
  /\ pc = "teardown"
  /\ socket' = FALSE /\ table' = {}
  /\ pc' = "mark"
  /\ UNCHANGED <<env, count, flags, closing, callbacks, ctx, invoked, alive,
                 born, closed, notified, todo, sending, misuse>>

\* Mutant: the context goes before the thread is marked done.
UnrefFirst ==
  /\ pc = "mark"
  /\ ctx' = FALSE /\ invoked' = <<>>
  /\ pc' = "unref"
  /\ UNCHANGED <<env, count, flags, closing, callbacks, socket, peers, todo,
                 sending, misuse>>

\* Under the lock, before the context goes: close relies on that order.
MarkDone ==
  /\ pc = "mark"
  /\ thread_done' = TRUE /\ thread_started' = FALSE
  /\ pc' = "unref"
  /\ UNCHANGED <<env, count, close_requested, closing, callbacks, ctx, socket,
                 invoked, peers, todo, sending, misuse>>

UnrefContext ==
  /\ pc = "unref"
  /\ ctx' = FALSE /\ invoked' = <<>>
  /\ pc' = "drop"
  /\ UNCHANGED <<env, count, flags, closing, callbacks, socket, peers, todo,
                 sending, misuse>>

\* Mutant: the thread frees the structure itself.
FreeAtOnce ==
  /\ pc = "drop"
  /\ pc' = "ended"
  /\ refs' = refs - 1 /\ freed' = TRUE
  /\ UNCHANGED <<env, holds, flags, closing, callbacks, ctx, socket, invoked,
                 peers, todo, sending, misuse>>

\* The internal reference, last.
DropInternal ==
  /\ pc = "drop"
  /\ pc' = "ended"
  /\ Unref(1)
  /\ UNCHANGED <<env, holds, flags, closing, callbacks, ctx, socket, invoked,
                 peers, todo, sending, misuse>>

-----------------------------------------------------------------------------
EngineThread ==
  \/ Begin
  \/ \E ok \in BOOLEAN : SendSetting(ok)
  \/ Dispatch
  \/ Shutdown
  \/ \E p \in Peers : Notify(p)
  \/ \E p \in Peers : RemovePeer(p)
  \/ Finalized
  \/ LoopReturns
  \/ Teardown
  \/ MarkDone
  \/ UnrefContext
  \/ DropInternal

Network ==
  \/ \E p \in Peers : PeerArrives(p)
  \/ \E P \in SUBSET table : Tick(P)
  \/ StreamEnds

User(u) ==
  \/ close(u)
  \/ \E p \in Peers : connect(u, p)
  \/ \E p \in Peers, ok \in BOOLEAN : ConnectSend(u, p, ok)
  \/ unref(u)

Next ==
  \/ EngineThread
  \/ Network
  \/ \E u \in Users : User(u)
  \/ set_callbacks
  \/ \E p \in Peers : CloseInside(p)

Spec == Init /\ [][Next]_vars

-----------------------------------------------------------------------------
(***************************************************************************)
(* Properties.                                                             *)
(***************************************************************************)

\* "close() relies on that ordering": neither a call nor the engine thread
\* uses the structure, its context, its socket, its table or a peer after its
\* end, whenever the calls come.
NoUseAfterEnd == misuse = {}

\* "drops the internal ref, frees if we were the last one": the structure is
\* freed exactly when the thread has ended and every holder has let go, by
\* whichever of them is last, so it neither leaks nor goes early.
FreedWhenUnused == freed = (pc = "ended" /\ holds = {})

\* fillp_conn.h, dfile_conn.h: on_closed fires once; when the shutdown has
\* run it has fired for every peer the engine ever had, unless the callbacks
\* came too late, and none is left.
ClosedOnce ==
  /\ \A p \in Peers : notified[p] <= 1
  /\ pc = "ended" /\ closing =>
       alive = {} /\ \A p \in born : env.late \/ notified[p] = 1

\* fillp_conn.h: the peer "is live from the call until its on_closed fires",
\* whatever ends it.
EveryPeerIsNotified ==
  pc = "ended" => \A p \in born : notified[p] = 1

\* The reference that on_closed gives up is given up.
NothingLeaks == pc = "ended" => "creator" \notin holds

(***************************************************************************)
(* What the proofs of EngineLifeProofs rest on: the parts of an inductive  *)
(* invariant, and the use of an engine that its callers must keep to.      *)
(***************************************************************************)
AfterSocket == {"mark", "unref", "drop", "ended"}

CountsHolders ==
  /\ refs = Cardinality(holds) + (IF pc = "ended" THEN 0 ELSE 1)
  /\ freed = (refs = 0)

PeersAccounted ==
  /\ ~env.late => callbacks
  /\ \A p \in Peers : /\ notified[p] <= 1
                      /\ p \notin closed => notified[p] = 0
                      /\ p \in closed /\ ~env.late => notified[p] = 1
  /\ born \ alive \subseteq closed
  /\ todo \subseteq born
  /\ pc \notin AfterSocket => alive \subseteq table
  /\ pc \notin {"finalize", "abort finalize", "deadlocked"} => todo = {}
  /\ closing => alive \subseteq todo
  /\ Fillp => pc \notin {"sources", "abort", "abort finalize"}
  /\ Fillp /\ (\/ closing \/ pc = "shutdown"
               \/ \E i \in 1 .. Len(invoked) : invoked[i] = "close")
       => close_requested

IndInv == TypeOK /\ CountsHolders /\ PeersAccounted

\* Who calls has a reference, nobody closes under another thread's connect,
\* and no call outlasts the timeouts.
Disciplined ==
  \A e \in Environments :
    /\ e.closers \cup e.connectors \subseteq e.holders
    /\ ~e.slow
    /\ \A c \in e.connectors : e.closers \subseteq {c}

\* The socket goes before the context, and only for a reason.
EndsInOrder ==
  /\ ctx = (pc \notin {"drop", "ended"})
  /\ socket = (pc \notin AfterSocket)
  /\ thread_started => pc \notin {"begin", "unref", "drop", "ended"}
  /\ Fillp /\ pc \in AfterSocket \cup {"teardown"} => close_requested

SendsToLive ==
  \A u \in Users, p \in Peers : <<u, p>> \in sending =>
    /\ Fillp /\ u \in env.connectors /\ u \in holds
    /\ ~close_requested \/ pc = "deadlocked"
    /\ p \in alive /\ p \notin todo

\* The engine's own close is invoked last.
InvokesLive ==
  /\ \A i \in 1 .. Len(invoked) :
       IF invoked[i] = "close" THEN Fillp => i = Len(invoked)
       ELSE Fillp /\ invoked[i] \in alive /\ invoked[i] \notin todo
  /\ Fillp /\ (closing \/ pc = "shutdown") => invoked = <<>>

OrderlyEnd == EndsInOrder /\ SendsToLive /\ InvokesLive /\ NoUseAfterEnd

(***************************************************************************)
(* Liveness.  The engine thread runs, its sends return, and a call of a    *)
(* user returns; nothing is assumed of the peers and of what users call.   *)
(***************************************************************************)
Fairness ==
  /\ WF_vars(EngineThread)
  /\ \A u \in Users, p \in Peers : WF_vars(\E ok \in BOOLEAN : ConnectSend(u, p, ok))

FairSpec == Spec /\ Fairness

\* A close is never lost, whether it comes before the thread has started,
\* while it loops, from two threads at once or while the engine ends by
\* itself: the thread ends.
CloseEnds == close_requested ~> pc = "ended"
=============================================================================
