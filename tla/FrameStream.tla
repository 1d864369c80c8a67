----------------------------- MODULE FrameStream -----------------------------
(***************************************************************************)
(* Frames on a byte stream: how the sessions (softbus_session.c with       *)
(* softbus_frame.c), the DFile connections (dfile_conn.c) and the streamed *)
(* files (stream_file.c) of src/src/proto cut a stream that arrives in     *)
(* pieces of any size back into the frames that were written to it.        *)
(*                                                                         *)
(* A frame is a header of Header cells, which tells its length, and the    *)
(* rest; what the cells say is left out.  Any number of threads may send   *)
(* on a session; the other two have one sender.  The receiver is a single  *)
(* thread.  The stream itself loses nothing and keeps its order (TCP, or   *)
(* FillpStream).                                                           *)
(***************************************************************************)
EXTENDS Naturals, Sequences, FiniteSets

CONSTANTS
  Senders,      \* threads that send
  Header,       \* cells of a header
  Chunk,        \* most cells a read returns (bound)
  Followed,     \* frames whose arrival is followed, by their number (bound)
  Environments  \* which stream it is, and what happens on it

\* kind: whose stream; plan: the lengths of the frames each thread sends;
\* noise: cells that are no frame, written before the others; ends: a frame
\* may end the receiver; stops: the sending side may be stopped; times_out:
\* a write may fail part of the way while the stream stays up.
ASSUME FrameAssumption ==
  /\ Header \in Nat \ {0} /\ Chunk \in Nat \ {0}
  /\ \A e \in Environments :
       /\ e.kind \in {"session", "dfile", "file"}
       /\ e.plan \in [Senders -> Seq(Nat)]
       /\ \A s \in Senders : \A i \in 1 .. Len(e.plan[s]) : e.plan[s][i] >= Header
       /\ e.noise \in Nat /\ (e.kind = "file" => e.noise = 0)

VARIABLES
  env,      \* the environment of this behaviour
  running,  \* the sending side has not been stopped
  cancel,   \* its cancellable has been cancelled
  sender,   \* [Senders -> "idle", "checked" or "writing"]
  plan,     \* [Senders -> lengths of the frames it has still to send]
  seq,      \* the last sequence number given
  out,      \* [Senders -> cells it has still to write]
  order,    \* the frames whose writing has begun, in order
  wire,     \* cells written and not read
  eof,      \* nothing will follow them
  buffer,   \* the receiver's buffer
  receiver, \* "reading", "parsing" or "ended"
  got       \* the frames handed on

sending == <<running, cancel, sender, plan, seq, out, order, eof>>
vars == <<env, sending, wire, buffer, receiver, got>>

\* A frame, and its cells.  A cell of no frame has no place in one.
FrameOf(s, q, len) == [from |-> s, seq |-> q, len |-> len]
Cells(f) == [i \in 1 .. f.len |-> [frame |-> f, at |-> i]]
NoFrame == [from |-> "nobody", seq |-> 0, len |-> 0]
Noise == [frame |-> NoFrame, at |-> 0]

\* One type invariant for both ends.
TypeOK ==
  /\ env \in Environments
  /\ running \in BOOLEAN /\ cancel \in BOOLEAN /\ eof \in BOOLEAN
  /\ sender \in [Senders -> {"idle", "checked", "writing"}]
  /\ seq \in Nat
  /\ receiver \in {"reading", "parsing", "ended"}
  /\ \A s \in Senders : sender[s] # "writing" => out[s] = <<>>

Init ==
  /\ env \in Environments
  /\ running = TRUE /\ cancel = FALSE
  /\ sender = [s \in Senders |-> "idle"] /\ plan = env.plan
  /\ seq = 0 /\ out = [s \in Senders |-> <<>>] /\ order = <<>>
  /\ wire = [i \in 1 .. env.noise |-> Noise] /\ eof = FALSE
  /\ buffer = <<>> /\ receiver = "reading" /\ got = <<>>

-----------------------------------------------------------------------------
(***************************************************************************)
(* The sending threads (softbus_session_send; the others only write).      *)
(***************************************************************************)

\* A stopped session refuses the frame; otherwise the thread goes for the
\* write mutex.
Check(s) ==
  /\ sender[s] = "idle" /\ plan[s] # <<>>
  /\ IF running
     THEN sender' = [sender EXCEPT ![s] = "checked"] /\ UNCHANGED plan
     ELSE plan' = [plan EXCEPT ![s] = Tail(@)] /\ UNCHANGED sender
  /\ UNCHANGED <<env, running, cancel, seq, out, order, eof, wire, buffer,
                 receiver, got>>

\* Mutant: no mutex.
LockNothing(s) ==
  /\ sender[s] = "checked"
  /\ sender' = [sender EXCEPT ![s] = "writing"]
  /\ LET f == FrameOf(s, seq + 1, Head(plan[s]))
     IN  /\ out' = [out EXCEPT ![s] = Cells(f)]
         /\ order' = Append(order, f)
  /\ plan' = [plan EXCEPT ![s] = Tail(@)]
  /\ seq' = seq + 1
  /\ UNCHANGED <<env, running, cancel, eof, wire, buffer, receiver, got>>

\* Mutant: the number is what it was when the thread last looked.
LockReadsSeq(s) ==
  /\ sender[s] = "checked"
  /\ \A t \in Senders : sender[t] # "writing"
  /\ sender' = [sender EXCEPT ![s] = "writing"]
  /\ \E q \in {seq, seq + 1} :
       LET f == FrameOf(s, q, Head(plan[s]))
       IN  /\ out' = [out EXCEPT ![s] = Cells(f)]
           /\ order' = Append(order, f)
           /\ seq' = q
  /\ plan' = [plan EXCEPT ![s] = Tail(@)]
  /\ UNCHANGED <<env, running, cancel, eof, wire, buffer, receiver, got>>

\* write_mutex is held from the sequence number to the last cell.
Lock(s) ==
  /\ sender[s] = "checked"
  /\ \A t \in Senders : sender[t] # "writing"
  /\ sender' = [sender EXCEPT ![s] = "writing"]
  /\ LET f == FrameOf(s, seq + 1, Head(plan[s]))
     IN  /\ out' = [out EXCEPT ![s] = Cells(f)]
         /\ order' = Append(order, f)
  /\ plan' = [plan EXCEPT ![s] = Tail(@)]
  /\ seq' = seq + 1
  /\ UNCHANGED <<env, running, cancel, eof, wire, buffer, receiver, got>>

\* g_output_stream_write_all: piece by piece, as the socket takes them.
WritePiece(s, n) ==
  /\ sender[s] = "writing" /\ ~cancel /\ n \in 1 .. Len(out[s])
  /\ wire' = wire \o SubSeq(out[s], 1, n)
  /\ out' = [out EXCEPT ![s] = SubSeq(@, n + 1, Len(@))]
  /\ UNCHANGED <<env, running, cancel, sender, plan, seq, order, eof, buffer,
                 receiver, got>>

\* The mutex is released when everything is written, or the write is
\* cancelled or fails with part of the frame on the wire.
Unlock(s) ==
  /\ sender[s] = "writing"
  /\ out[s] = <<>> \/ cancel \/ env.times_out
  /\ sender' = [sender EXCEPT ![s] = "idle"]
  /\ out' = [out EXCEPT ![s] = <<>>]
  /\ UNCHANGED <<env, running, cancel, plan, seq, order, eof, wire, buffer,
                 receiver, got>>

\* softbus_session_stop: the flag, then the cancellable.
Stop ==
  /\ env.stops /\ running
  /\ running' = FALSE
  /\ UNCHANGED <<env, cancel, sender, plan, seq, out, order, eof, wire, buffer,
                 receiver, got>>

Cancel ==
  /\ ~running /\ ~cancel
  /\ cancel' = TRUE
  /\ UNCHANGED <<env, running, sender, plan, seq, out, order, eof, wire, buffer,
                 receiver, got>>

\* The connection is closed once the session is gone.
Close ==
  /\ cancel /\ ~eof /\ \A s \in Senders : sender[s] # "writing"
  /\ eof' = TRUE
  /\ UNCHANGED <<env, running, cancel, sender, plan, seq, out, order, wire,
                 buffer, receiver, got>>

-----------------------------------------------------------------------------
(***************************************************************************)
(* The receiving thread: _pump_thread, dc_drain, sf_on_data.               *)
(***************************************************************************)
Read(n) ==
  /\ receiver = "reading" /\ n \in 1 .. Len(wire) /\ n <= Chunk
  /\ buffer' = buffer \o SubSeq(wire, 1, n)
  /\ wire' = SubSeq(wire, n + 1, Len(wire))
  /\ receiver' = "parsing"
  /\ UNCHANGED <<env, sending, got>>

\* The buffer is read as if it began with a frame.  What it begins with is one
\* frame if no cell is missing.
HasHeader == Len(buffer) >= Header
Aligned == buffer[1].at = 1
Complete == HasHeader /\ Aligned /\ Len(buffer) >= buffer[1].frame.len
Taken == LET f == buffer[1].frame
         IN IF SubSeq(buffer, 1, f.len) = Cells(f) THEN f ELSE NoFrame

\* Mutant: one frame per read.
PopOnce ==
  /\ receiver = "parsing" /\ Complete
  /\ got' = Append(got, Taken)
  /\ buffer' = SubSeq(buffer, buffer[1].frame.len + 1, Len(buffer))
  /\ receiver' \in {"reading"} \cup (IF env.ends THEN {"ended"} ELSE {})
  /\ UNCHANGED <<env, sending, wire>>

\* Every complete frame is handed on; a DFile frame may close the connection,
\* and the last frame of a file ends the transfer: what follows is not read.
Pop ==
  /\ receiver = "parsing" /\ Complete
  /\ got' = Append(got, Taken)
  /\ buffer' = SubSeq(buffer, buffer[1].frame.len + 1, Len(buffer))
  /\ receiver' \in {"parsing"} \cup (IF env.ends THEN {"ended"} ELSE {})
  /\ UNCHANGED <<env, sending, wire>>

Incomplete ==
  /\ receiver = "parsing" /\ ~Complete
  /\ HasHeader => Aligned
  /\ receiver' = "reading"
  /\ UNCHANGED <<env, sending, wire, buffer, got>>

\* What is no header: a session forgets all it has buffered and goes on, a
\* DFile connection shuts down.
Corrupt ==
  /\ receiver = "parsing" /\ HasHeader /\ ~Aligned
  /\ IF env.kind = "session"
     THEN buffer' = <<>> /\ receiver' = "reading"
     ELSE receiver' = "ended" /\ UNCHANGED buffer
  /\ UNCHANGED <<env, sending, wire, got>>

ReadEof ==
  /\ receiver = "reading" /\ wire = <<>> /\ eof
  /\ receiver' = "ended"
  /\ UNCHANGED <<env, sending, wire, buffer, got>>

-----------------------------------------------------------------------------
Sender(s) ==
  \/ Check(s)
  \/ Lock(s)
  \/ \E n \in 1 .. Len(out[s]) : WritePiece(s, n)
  \/ Unlock(s)

Receiver ==
  \/ \E n \in 1 .. Chunk : Read(n)
  \/ Pop
  \/ Incomplete
  \/ Corrupt
  \/ ReadEof

Next ==
  \/ \E s \in Senders : Sender(s)
  \/ Stop \/ Cancel \/ Close
  \/ Receiver

Spec == Init /\ [][Next]_vars

-----------------------------------------------------------------------------
(***************************************************************************)
(* Properties.                                                             *)
(***************************************************************************)

\* Whatever the sizes of the pieces, and however many threads send, only
\* whole frames are handed on, in the order they were written; all of them
\* unless something that is no frame was on the stream.
WholeFramesInOrder ==
  /\ \A i \in 1 .. Len(got) : \E j \in 1 .. Len(order) : got[i] = order[j]
  /\ env.noise = 0 => got = SubSeq(order, 1, Len(got))

\* "seq is serialized by the write mutex": the receiver sees the numbers
\* grow, from whichever threads the frames come.
NumbersGrow == \A i, j \in 1 .. Len(got) : i < j => got[i].seq < got[j].seq

(***************************************************************************)
(* Liveness.  A thread that has begun to send goes on, whoever holds the   *)
(* mutex releases it, and the receiver reads what there is.                *)
(***************************************************************************)
Fairness ==
  /\ \A s \in Senders : WF_vars(Sender(s))
  /\ WF_vars(Receiver)

FairSpec == Spec /\ Fairness

\* "the first frame would sit in the buffer forever": no frame waits in a
\* buffer for another one to follow it.
FramesArrive ==
  \A k \in Followed :
    (Len(order) >= k /\ env.noise = 0)
      ~> (Len(got) >= k \/ cancel \/ receiver = "ended")
=============================================================================
