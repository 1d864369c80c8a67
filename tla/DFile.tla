------------------------------- MODULE DFile -------------------------------
(***************************************************************************)
(* A DFile session: two transfer engines (src/src/proto/dfile_conn.c) on   *)
(* the two ends of one TCP connection, with the applications that use      *)
(* them.  The phone pushes its files once the settings are exchanged; the  *)
(* daemon (src/src/main.c) pushes its own back when it learns of the       *)
(* phone's, so that the two transfers run at the same time.                *)
(*                                                                         *)
(* Every handler is a function from the state c of one engine to its next  *)
(* state; what it writes to the socket is collected in c.out, which is     *)
(* empty between handlers.  A file is its number of blocks.  A FILE_HEADER *)
(* list is one frame: the frames of a longer list are consecutive on the   *)
(* stream and only the last of them has an effect.  Both engines number    *)
(* their first transfer 1, so the transId of a frame never distinguishes   *)
(* the directions and is left out.  Timers are choices.                    *)
(***************************************************************************)
EXTENDS Naturals, Sequences, FiniteSets

CONSTANTS
  Environments,    \* what the two ends transfer, and what may go wrong
  DC_SEND_BUDGET, DC_CTRL_MAX_RETRIES, DFILE_MAX_ACK_ENTRIES

Ends == {"phone", "daemon"}

Other(e) == IF e = "phone" THEN "daemon" ELSE "phone"

\* blocks: the files of each end, in blocks; timeouts: timers that may expire;
\* faults: local operations that may fail; may_close: ends whose application
\* may close the connection; set_up_late: ends that set their callbacks after
\* the engine started.
ASSUME DFileAssumption ==
  /\ \A x \in Environments :
       /\ x.blocks \in [Ends -> Seq(Nat)]
       /\ x.timeouts \subseteq {"negotiate", "tx", "rx", "retran", "ctrl"}
       /\ x.faults \subseteq {"start", "create", "read", "write", "verify",
                              "send ack", "send done", "send data",
                              "send doneack", "send header", "send confirm",
                              "send req"}
       /\ x.may_close \subseteq Ends /\ x.set_up_late \subseteq Ends
  /\ {DC_SEND_BUDGET, DC_CTRL_MAX_RETRIES, DFILE_MAX_ACK_ENTRIES} \subseteq Nat

VARIABLES
  env,      \* the environment of this behaviour
  engine,   \* [Ends -> DFileConn]
  ch        \* [Ends -> frames on their way to that end, in order]

vars == <<env, engine, ch>>

Blocks == env.blocks
Timeouts == env.timeouts
Faults == env.faults

Files(e) == DOMAIN Blocks[e]

\* DCTrans as a sender.  retrans[f] is the oldest sequence number on file f's
\* retransmit list: the list is retrans[f] .. next_seq[f] - 1, because it
\* grows at one end and shrinks at the other.  acked[f] is last_acked + 1.
TxTrans(e) ==
  [phase : {"NONE", "WAIT_CONFIRM_REQ", "SENDING", "WAIT_DONE", "DONE", "FAILED"},
   all_confirmed : BOOLEAN, req_received : BOOLEAN, done_received : BOOLEAN,
   next_seq : [Files(e) -> Nat], retrans : [Files(e) -> Nat],
   acked : [Files(e) -> Nat], retransmitted : BOOLEAN,
   ctrl_retries : 0 .. DC_CTRL_MAX_RETRIES + 1]

\* DCTrans as a receiver of the other end's files.
RxTrans(e) ==
  [phase : {"NONE", "IDLE", "WAIT_DATA", "WAIT_DONEACK", "DONE", "FAILED"},
   expected_seq : [Files(Other(e)) -> Nat],
   ack_pending : BOOLEAN, done_sent : BOOLEAN]

Frame ==
  [type : {"SETTING", "HEADER", "CONFIRM", "REQ", "DONE", "DONE_ACK", "EOF"}]
    \cup [type : {"DATA"}, file : Nat, seq : Nat]
    \cup [type : {"RST"}, of : {"tx", "rx"}]

Simple(type) == [type |-> type]
Data(f, seq) == [type |-> "DATA", file |-> f, seq |-> seq]

\* A RST for one of its sender's two transfers.
Rst(of) == [type |-> "RST", of |-> of]

\* A FILE_DATA_ACK lists files with the number of their last block.
Ack(ents) == [type |-> "ACK", ents |-> ents]

\* One type invariant for both engines and the stream between them; the
\* sequence numbers stay within the files.
TypeOK ==
  /\ env \in Environments
  /\ \A e \in Ends :
    /\ engine[e].state \in {"NEGOTIATING", "READY", "CLOSING", "CRASHED"}
    /\ engine[e].set_up \in BOOLEAN
    /\ engine[e].tx \in TxTrans(e)
    /\ engine[e].rx \in RxTrans(e)
    /\ engine[e].results \in [{"tx", "rx"} -> Nat]
    /\ engine[e].out = <<>>
    /\ \A f \in Files(e) :
         /\ engine[e].tx.retrans[f] <= engine[e].tx.next_seq[f]
         /\ engine[e].tx.next_seq[f] <= Blocks[e][f]
         /\ engine[Other(e)].rx.expected_seq[f] <= Blocks[e][f]
    /\ \A i \in DOMAIN ch[e] :
         ch[e][i] \in Frame \/ ch[e][i].type = "ACK"

NewTx(e, phase) ==
  [phase |-> phase, all_confirmed |-> FALSE, req_received |-> FALSE,
   done_received |-> FALSE, next_seq |-> [f \in Files(e) |-> 0],
   retrans |-> [f \in Files(e) |-> 0], acked |-> [f \in Files(e) |-> 0],
   retransmitted |-> FALSE, ctrl_retries |-> 0]

NewRx(e, phase) ==
  [phase |-> phase, expected_seq |-> [f \in Files(Other(e)) |-> 0],
   ack_pending |-> FALSE, done_sent |-> FALSE]

\* dc_alloc and the start of engine_thread: both ends send their SETTING at
\* once (dc_send_local_setting).
Init ==
  /\ env \in Environments
  /\ engine = [e \in Ends |->
       [state |-> "NEGOTIATING", set_up |-> e \notin env.set_up_late,
        tx |-> NewTx(e, "NONE"), rx |-> NewRx(e, "NONE"), results |-> [dir \in {"tx", "rx"} |-> 0],
        out |-> <<>>]]
  /\ ch = [e \in Ends |-> <<Simple("SETTING")>>]

-----------------------------------------------------------------------------
(***************************************************************************)
(* Helpers.                                                                *)
(***************************************************************************)

\* Writing frames to the socket.
dc_send(c, frames) == [c EXCEPT !.out = @ \o frames]

\* Mutant: a finished transfer can still fail.
OverUnlessDone(phase) == phase \in {"NONE", "FAILED"}

\* There is no such transfer, or its result has been reported.
Over(phase) == phase \in {"NONE", "DONE", "FAILED"}

\* A transfer ends in phase, and on_result tells the application.
Report(c, dir, phase) ==
  [c EXCEPT ![dir].phase = phase, !.results[dir] = IF c.set_up THEN @ + 1 ELSE @]

\* A transfer that is not over fails.
trans_fail(c, dir, send_rst) ==
  IF Over(c[dir].phase) THEN c
  ELSE dc_send(Report(c, dir, "FAILED"), IF send_rst THEN <<Rst(dir)>> ELSE <<>>)

\* Both transfers fail and the socket is shut down: the other end will read
\* the end of the stream.
shutdown_common(c) ==
  IF c.state = "CLOSING" THEN c
  ELSE dc_send([trans_fail(trans_fail(c, "tx", FALSE), "rx", FALSE)
                  EXCEPT !.state = "CLOSING"], <<Simple("EOF")>>)

\* A protocol error of the receive side: RST, then shut down.
Refuse(c) == shutdown_common(dc_send(c, <<Rst("rx")>>))

-----------------------------------------------------------------------------
(***************************************************************************)
(* Sender.                                                                 *)
(***************************************************************************)

\* send_files_impl: one transfer per connection and direction.  Files that
\* cannot be opened, or a header that cannot be sent, leave no transfer.
send_files_impl(e, c, bad) ==
  IF c.state # "READY" \/ c.tx.phase # "NONE" \/ Blocks[e] = <<>> \/ bad = "start"
  THEN c
  ELSE dc_send([c EXCEPT !.tx = NewTx(e, "WAIT_CONFIRM_REQ")],
               <<Simple("HEADER")>>)

tx_all_sent(e, t) ==
  \A f \in Files(e) : t.next_seq[f] = Blocks[e][f] /\ t.retrans[f] = t.next_seq[f]

\* Mutant: one block more than there is.
tx_all_acked_beyond(e, t) == \A f \in Files(e) : t.acked[f] > Blocks[e][f]

tx_all_acked(e, t) == \A f \in Files(e) : t.acked[f] >= Blocks[e][f]

\* Mutant: the block counter is advanced before the block is sent.
DataRunShifted(f, from, to) == [i \in 1 .. (to - from) |-> Data(f, from + i)]

\* Blocks from .. to - 1 of file f.
DataRun(f, from, to) == [i \in 1 .. (to - from) |-> Data(f, from + i - 1)]

Min2(a, b) == IF a <= b THEN a ELSE b
Max2(a, b) == IF a >= b THEN a ELSE b

\* Mutant: the end of the file is not looked at.
NewBlocksNoEnd(e, f, next_seq, budget) == next_seq + budget

\* How far the loop over new blocks gets.
NewBlocks(e, f, next_seq, budget) == Min2(Blocks[e][f], next_seq + budget)

\* One file's turn in tx_pump: new blocks while the budget lasts, then the
\* oldest block of the retransmit list once, if the pace of the transfer
\* allows one.  w = [t, budget, may_retran, out].
PumpFile(e, f, w) ==
  LET next == NewBlocks(e, f, w.t.next_seq[f], w.budget)
      left == w.budget - (next - w.t.next_seq[f])
      old  == w.t.retrans[f]
      again == old < next /\ left > 0 /\ w.may_retran
  IN [t |-> [w.t EXCEPT !.next_seq[f] = next,
                        !.retrans[f] = IF again THEN old + 1 ELSE old,
                        !.retransmitted = @ \/ again],
      budget |-> IF again THEN left - 1 ELSE left,
      may_retran |-> w.may_retran /\ ~again,
      out |-> w.out \o DataRun(f, w.t.next_seq[f], next)
                    \o (IF again THEN <<Data(f, old)>> ELSE <<>>)]

\* The files in order: what their turns have come to after the first i.  (A
\* value chosen from a singleton is that value, computed once.)
Turns(e, c, due) ==
  LET w[i \in 0 .. Len(Blocks[e])] ==
        IF i = 0
        THEN [t |-> c.tx, budget |-> DC_SEND_BUDGET,
              may_retran |-> due \/ ~c.tx.retransmitted, out |-> <<>>]
        ELSE CHOOSE y \in {PumpFile(e, i, x) : x \in {w[i - 1]}} : TRUE
  IN w

\* tx_pump: the blocks of a turn are read and sent, or the transfer fails.
tx_pump(e, c, due, bad) ==
  LET pumped(x) ==
        CASE x.out = <<>>  -> c
          [] x.out # <<>> /\ bad = "read" -> trans_fail(c, "tx", TRUE)
          [] x.out # <<>> /\ bad = "send data" -> trans_fail(c, "tx", FALSE)
          [] OTHER -> dc_send([c EXCEPT !.tx = x.t], x.out)
  IN CHOOSE c1 \in {pumped(x) : x \in {Turns(e, c, due)[Len(Blocks[e])]}} : TRUE

\* tx_finish: answer DONE and report success, once.
tx_finish(c, bad) ==
  CASE c.tx.phase \in {"DONE", "FAILED"} -> c
    [] c.tx.phase \notin {"DONE", "FAILED"} /\ bad = "send doneack" ->
         trans_fail(c, "tx", FALSE)
    [] OTHER -> dc_send(Report(c, "tx", "DONE"), <<Simple("DONE_ACK")>>)

\* Mutant: success without the receiver's DONE.
FinishAcked(e, c, bad) == IF tx_all_acked(e, c.tx) THEN tx_finish(c, bad) ELSE c

\* The finish condition, looked at after every ACK, DONE and pump.
Finish(e, c, bad) ==
  IF c.tx.done_received /\ tx_all_acked(e, c.tx) THEN tx_finish(c, bad) ELSE c

\* FILE_HEADER_CONFIRM and FILE_TRANSFER_REQ: data may flow after both.
handle_tx_ctrl(c, type) ==
  IF c.tx.phase # "WAIT_CONFIRM_REQ" THEN c
  ELSE LET t == [c.tx EXCEPT !.all_confirmed = @ \/ type = "CONFIRM",
                             !.req_received = @ \/ type = "REQ"]
       IN [c EXCEPT !.tx = IF t.all_confirmed /\ t.req_received
                           THEN [t EXCEPT !.phase = "SENDING"] ELSE t]

\* FILE_DATA_ACK: cumulative per file.
handle_ack(e, c, ents, bad) ==
  IF c.tx.phase \notin {"SENDING", "WAIT_DONE"} THEN c
  ELSE LET up(g, f) == IF f \in DOMAIN ents THEN Max2(g[f], ents[f]) ELSE g[f]
           t == [c.tx EXCEPT
                   !.acked = [f \in Files(e) |-> up(c.tx.acked, f)],
                   !.retrans = [f \in Files(e) |-> up(c.tx.retrans, f)]]
       IN Finish(e, [c EXCEPT !.tx = t], bad)

\* FILE_TRANSFER_DONE.
handle_done(e, c, bad) ==
  IF Over(c.tx.phase) THEN c
  ELSE Finish(e, [c EXCEPT !.tx.done_received = TRUE,
                           !.tx.phase = IF @ = "SENDING" THEN "WAIT_DONE" ELSE @],
              bad)

-----------------------------------------------------------------------------
(***************************************************************************)
(* Receiver.                                                               *)
(***************************************************************************)

\* Mutant: the number of blocks written is taken for the last block's number.
AckEntriesOffByOne(e, t) ==
  [f \in {g \in Files(Other(e)) : t.expected_seq[g] > 0} |-> t.expected_seq[f] + 1]

\* What rx_flush_ack lists: the files that have blocks, the first
\* DFILE_MAX_ACK_ENTRIES of them.
AckEntries(e, t) ==
  LET begun  == {f \in Files(Other(e)) : t.expected_seq[f] > 0}
      listed == {f \in begun :
                   Cardinality({g \in begun : g < f}) < DFILE_MAX_ACK_ENTRIES}
  IN [f \in listed |-> t.expected_seq[f]]

rx_flush_ack(e, c, bad) ==
  LET c1 == [c EXCEPT !.rx.ack_pending = FALSE]
      ents == AckEntries(e, c.rx)
  IN CASE DOMAIN ents = {} -> c1
       [] DOMAIN ents # {} /\ bad = "send ack" -> trans_fail(c1, "rx", FALSE)
       [] OTHER -> dc_send(c1, <<Ack(ents)>>)

\* write_complete for every file.
AllWritten(e, t) ==
  \A f \in Files(Other(e)) : t.expected_seq[f] >= Blocks[Other(e)][f]

\* Mutant: success without waiting for the answer.
rx_send_done_early(e, c, bad) ==
  dc_send(Report([c EXCEPT !.rx.done_sent = TRUE], "rx", "DONE"),
          <<Simple("DONE")>>)

\* rx_send_done: verify the contents, send DONE, wait for its answer.  The
\* phase is written whatever it was before.
rx_send_done(e, c, bad) ==
  CASE bad = "verify"    -> trans_fail(dc_send(c, <<Rst("rx")>>), "rx", FALSE)
    [] bad = "send done" -> trans_fail(c, "rx", FALSE)
    [] OTHER -> dc_send([c EXCEPT !.rx.done_sent = TRUE,
                                  !.rx.phase = "WAIT_DONEACK"],
                        <<Simple("DONE")>>)

\* FILE_TRANSFER_DONE_ACK.
handle_doneack(c) ==
  IF c.rx.phase = "WAIT_DONEACK" THEN Report(c, "rx", "DONE") ELSE c

\* rx_header_complete: open the files, tell the application (the daemon then
\* starts its own push), confirm, and ask for the data.
on_file_list(e, c, bad) == IF e = "daemon" THEN send_files_impl(e, c, bad) ELSE c

rx_header_complete(e, c, bad) ==
  LET told == on_file_list(e, c, bad)
  IN CASE ~c.set_up       -> trans_fail(c, "rx", FALSE)
       [] c.set_up /\ bad = "create" ->
            trans_fail(dc_send(c, <<Rst("rx")>>), "rx", FALSE)
       [] c.set_up /\ bad = "send confirm" -> trans_fail(told, "rx", FALSE)
       [] c.set_up /\ bad = "send req" ->
            trans_fail(dc_send(told, <<Simple("CONFIRM")>>), "rx", FALSE)
       [] OTHER ->
            dc_send([told EXCEPT !.rx.phase = "WAIT_DATA"],
                    <<Simple("CONFIRM"), Simple("REQ")>>)

\* Mutant: a repeated header opens the files again.
ReopenedByHeader(e, c, bad) ==
  rx_header_complete(e, [c EXCEPT !.rx = NewRx(e, "IDLE")], bad)

\* FILE_HEADER: a repeated one changes nothing.
handle_file_header(e, c, bad) ==
  IF c.rx.phase = "NONE"
  THEN rx_header_complete(e, [c EXCEPT !.rx = NewRx(e, "IDLE")], bad)
  ELSE c

\* FILE_DATA: the next block is written, an earlier one is a retransmission;
\* anything else is an error that ends the connection.
handle_data(e, c, f, seq, bad) ==
  CASE c.rx.phase # "WAIT_DATA" -> Refuse(c)
    [] c.rx.phase = "WAIT_DATA" /\ seq >= Blocks[Other(e)][f] -> Refuse(c)
    [] c.rx.phase = "WAIT_DATA" /\ seq < c.rx.expected_seq[f] -> c
    [] c.rx.phase = "WAIT_DATA" /\ seq > c.rx.expected_seq[f] -> Refuse(c)
    [] c.rx.phase = "WAIT_DATA" /\ seq = c.rx.expected_seq[f] /\ bad = "write" ->
         Refuse(c)
    [] OTHER -> [c EXCEPT !.rx.expected_seq[f] = seq + 1,
                          !.rx.ack_pending = TRUE]

-----------------------------------------------------------------------------
(***************************************************************************)
(* Settings, RST and dispatch.                                             *)
(***************************************************************************)

\* SETTING: ready.  on_negotiated of the phone starts its push.
handle_setting(e, c, bad) ==
  IF c.state # "NEGOTIATING" THEN c
  ELSE LET c1 == [c EXCEPT !.state = "READY"]
       IN IF e = "phone" /\ c.set_up THEN send_files_impl(e, c1, bad) ELSE c1

\* RST names a transfer by its transId only.  The send transfer is looked at
\* first, and it has the same one.
handle_rst(c) ==
  IF c.tx.phase # "NONE" THEN trans_fail(c, "tx", FALSE)
  ELSE trans_fail(c, "rx", FALSE)

handle_frame(e, c, m, bad) ==
  CASE m.type = "SETTING"          -> handle_setting(e, c, bad)
    [] m.type = "HEADER"           -> handle_file_header(e, c, bad)
    [] m.type \in {"CONFIRM", "REQ"} -> handle_tx_ctrl(c, m.type)
    [] m.type = "DATA"             -> handle_data(e, c, m.file, m.seq, bad)
    [] m.type = "ACK"              -> handle_ack(e, c, m.ents, bad)
    [] m.type = "DONE"             -> handle_done(e, c, bad)
    [] m.type = "DONE_ACK"         -> handle_doneack(c)
    [] m.type = "RST"              -> handle_rst(c)
    [] m.type = "EOF"              -> shutdown_common(c)

-----------------------------------------------------------------------------
(***************************************************************************)
(* Tick.  In this order: timeouts, acknowledgements and DONE, data and the *)
(* finish condition, retransmission of the header.                         *)
(***************************************************************************)
TickTimeouts(c, late) ==
  LET c1 == IF "tx" \in late THEN trans_fail(c, "tx", TRUE) ELSE c
  IN IF "rx" \in late THEN trans_fail(c1, "rx", TRUE) ELSE c1

TickReceive(e, c, bad) ==
  IF c.rx.phase # "WAIT_DATA" THEN c
  ELSE LET c1 == IF c.rx.ack_pending THEN rx_flush_ack(e, c, bad) ELSE c
       IN IF ~c1.rx.done_sent /\ Files(Other(e)) # {} /\ AllWritten(e, c1.rx)
          THEN rx_send_done(e, c1, bad) ELSE c1

TickSend(e, c, late, bad) ==
  IF c.tx.phase \notin {"SENDING", "WAIT_DONE"} THEN c
  ELSE LET c1 == tx_pump(e, c, "retran" \in late, bad)
           c2 == IF c1.tx.phase = "SENDING" /\ tx_all_sent(e, c1.tx)
                 THEN [c1 EXCEPT !.tx.phase = "WAIT_DONE"] ELSE c1
       IN Finish(e, c2, bad)

TickHeader(c, late, bad) ==
  IF c.tx.phase # "WAIT_CONFIRM_REQ" \/ "ctrl" \notin late THEN c
  ELSE LET c1 == [c EXCEPT !.tx.ctrl_retries = @ + 1]
       IN CASE c1.tx.ctrl_retries > DC_CTRL_MAX_RETRIES -> trans_fail(c1, "tx", TRUE)
            [] c1.tx.ctrl_retries <= DC_CTRL_MAX_RETRIES /\ bad = "send header" ->
                 trans_fail(c1, "tx", FALSE)
            [] OTHER -> dc_send(c1, <<Simple("HEADER")>>)

-----------------------------------------------------------------------------
(***************************************************************************)
(* Actions.                                                                *)
(***************************************************************************)
Running(e) == engine[e].state \in {"NEGOTIATING", "READY"}

\* End e's engine becomes c, having received what leaves rest on its stream.
\* What it wrote is lost when the other end has shut the socket down.
Commit(e, c, rest) ==
  /\ engine' = [engine EXCEPT ![e] = [c EXCEPT !.out = <<>>]]
  /\ ch' = [ch EXCEPT ![e] = IF c.state = "CLOSING" THEN <<>> ELSE rest,
                      ![Other(e)] = IF Running(Other(e)) THEN @ \o c.out ELSE <<>>]
  /\ UNCHANGED env

\* Writing to a socket that the other end has shut down fails in the end, and
\* dc_send then stores the error through the null pointer its callers pass.
CrashesOn(e, c) ==
  /\ ~Running(Other(e))
  /\ \E i \in DOMAIN c.out : c.out[i].type # "EOF"
  /\ engine' = [engine EXCEPT ![e].state = "CRASHED"]
  /\ ch' = [ch EXCEPT ![e] = <<>>]
  /\ UNCHANGED env

\* The I/O source: one frame of the stream.
Receive(e, bad) ==
  /\ Running(e) /\ ch[e] # <<>>
  /\ \E c \in {handle_frame(e, engine[e], Head(ch[e]), bad)} :
       Commit(e, c, Tail(ch[e])) \/ CrashesOn(e, c)

\* on_tick before the settings are exchanged: there is no transfer yet.
NegotiateTimeout(e) ==
  /\ "negotiate" \in Timeouts
  /\ engine[e].state = "NEGOTIATING"
  /\ Commit(e, shutdown_common(engine[e]), <<>>)

\* on_tick, with the timers in late expired.
on_tick(e, late, bad) ==
  /\ engine[e].state = "READY"
  /\ \E c1 \in {TickTimeouts(engine[e], late)} :
     \E c2 \in {TickReceive(e, c1, bad)} :
     \E c3 \in {TickSend(e, c2, late, bad)} :
     \E c  \in {TickHeader(c3, late, bad)} :
       Commit(e, c, ch[e]) \/ CrashesOn(e, c)

\* dfile_conn_close, which runs close_impl on the engine thread.
dfile_conn_close(e) ==
  /\ e \in env.may_close /\ Running(e)
  /\ Commit(e, shutdown_common(engine[e]), <<>>)

\* dfile_conn_set_recv_dir and dfile_conn_set_callbacks: plain writes by the
\* thread that created the connection, after the engine thread has started.
set_callbacks(e) ==
  /\ ~engine[e].set_up
  /\ engine' = [engine EXCEPT ![e].set_up = TRUE]
  /\ UNCHANGED <<env, ch>>

Next ==
  \/ \E e \in Ends, bad \in Faults \cup {"none"} : Receive(e, bad)
  \/ \E e \in Ends, late \in SUBSET (Timeouts \ {"negotiate"}),
        bad \in Faults \cup {"none"} :
       on_tick(e, late, bad)
  \/ \E e \in Ends : NegotiateTimeout(e)
  \/ \E e \in Ends : dfile_conn_close(e)
  \/ \E e \in Ends : set_callbacks(e)

Spec == Init /\ [][Next]_vars

-----------------------------------------------------------------------------
(***************************************************************************)
(* Properties.                                                             *)
(***************************************************************************)

\* A sender that reports success has all of its files written, verified and
\* confirmed by the receiver (tx_finish against rx_send_done).
SentMeansVerified ==
  \A e \in Ends : engine[e].tx.phase = "DONE" =>
    /\ AllWritten(Other(e), engine[Other(e)].rx)
    /\ engine[Other(e)].rx.done_sent

\* A receiver never reports success for a transfer whose sender does not:
\* the DONE / DONE_ACK exchange leaves at most the receiver in doubt.
ReceivedMeansSent ==
  \A e \in Ends : engine[e].rx.phase = "DONE" =>
    engine[Other(e)].tx.phase = "DONE"

\* No block is acknowledged, and so dropped from the retransmit list, before
\* it has been written (rx_flush_ack, handle_ack).
AckedIsWritten ==
  \A e \in Ends : \A f \in Files(e) :
    engine[e].tx.acked[f] <= engine[Other(e)].rx.expected_seq[f]

\* The stream never shows an active receiver a gap or a block beyond the end
\* of the file: new blocks, retransmissions and the files of a transfer are
\* interleaved so that handle_data finds the next block or an earlier one.
NoGap ==
  \A e \in Ends :
    ch[e] # <<>> /\ Head(ch[e]).type = "DATA" /\ engine[e].rx.phase = "WAIT_DATA" =>
      /\ Head(ch[e]).seq <= engine[e].rx.expected_seq[Head(ch[e]).file]
      /\ Head(ch[e]).seq < Blocks[Other(e)][Head(ch[e]).file]

\* Each transfer is reported to the application at most once (dfile_conn.h:
\* on_result is "fired when a transfer finishes in either direction"),
\* whatever arrives, expires or is shut down after it has finished.
OneResult ==
  \A e \in Ends, dir \in {"tx", "rx"} : engine[e].results[dir] <= 1

\* What the application has been told of a transfer in this phase.
Status(phase) ==
  CASE phase = "NONE"   -> "none"
    [] phase = "DONE"   -> "ok"
    [] phase = "FAILED" -> "failed"
    [] OTHER            -> "active"

FromPhone == INSTANCE FileTransfer
  WITH blocks <- Blocks["phone"],
       sender <- Status(engine["phone"].tx.phase),
       receiver <- Status(engine["daemon"].rx.phase),
       written <- engine["daemon"].rx.expected_seq,
       verified <- engine["daemon"].rx.done_sent

FromDaemon == INSTANCE FileTransfer
  WITH blocks <- Blocks["daemon"],
       sender <- Status(engine["daemon"].tx.phase),
       receiver <- Status(engine["phone"].rx.phase),
       written <- engine["phone"].rx.expected_seq,
       verified <- engine["phone"].rx.done_sent

\* The two engines implement a transfer each way: whatever is repeated, lost
\* with the connection or timed out, every step is one of FileTransfer, or
\* changes nothing that its applications can tell.
ImplementsTransfer == FromPhone!Spec /\ FromDaemon!Spec

(***************************************************************************)
(* What the documentation says and the code does not keep.                 *)
(***************************************************************************)

\* dfile_conn.c, handle_data: a block already written is a "duplicate
\* (retransmit)" and is ignored; it does not end the connection.
DuplicateIsHarmless ==
  [][\A e \in Ends :
       /\ engine[e].state = "READY" /\ ch[e] # <<>> /\ ch'[e] # ch[e]
       /\ Head(ch[e]).type = "DATA"
       /\ Head(ch[e]).seq < engine[e].rx.expected_seq[Head(ch[e]).file]
       /\ engine[e].rx.phase \in {"WAIT_DATA", "WAIT_DONEACK", "DONE"}
       => engine'[e].state # "CLOSING"]_vars

\* dfile_conn.h: "One transfer per direction, multiplexed by transId".  A RST
\* for the transfer that e receives leaves the one it sends alone.
RstHitsItsTransfer ==
  [][\A e \in Ends :
       /\ engine[e].state = "READY" /\ ch[e] # <<>> /\ Len(ch'[e]) < Len(ch[e])
       /\ Head(ch[e]).type = "RST" /\ Head(ch[e]).of = "tx"
       => engine'[e].tx.phase = engine[e].tx.phase]_vars

\* dfile_conn.h: "Any error -> RST frame, transfer failed".  An error of the
\* socket does not end the process.
ErrorsAreReported == \A e \in Ends : engine[e].state # "CRASHED"

\* dfile_conn.c, dfile_conn_set_callbacks: callbacks are set "long before any
\* peer traffic can arrive".
CallbacksAreSet ==
  \A e \in Ends : engine[e].state = "READY" => engine[e].set_up

\* main.c, on_ft_result: "once our reverse push is fully acked the peer's
\* DFile phase is over".
PhaseIsOver ==
  engine["daemon"].tx.phase = "DONE" => Over(engine["phone"].tx.phase)

(***************************************************************************)
(* Liveness.  The stream delivers what was written and the 1 ms tick goes  *)
(* on; timers that a configuration allows expire in the end.               *)
(***************************************************************************)
Fairness ==
  \A e \in Ends :
    /\ WF_vars(\E bad \in Faults \cup {"none"} : Receive(e, bad))
    /\ WF_vars(on_tick(e, Timeouts, "none"))
    /\ WF_vars(NegotiateTimeout(e))

FairSpec == Spec /\ Fairness

\* Every transfer ends at both ends.  Where no timer may expire this says
\* that the two engines never wait for each other: each transfer is done, or
\* the connection has been closed.
TransfersEnd ==
  <>[](\A e \in Ends :
         \/ engine[e].state = "CRASHED"
         \/ Over(engine[e].tx.phase) /\ Over(engine[e].rx.phase))
============================================================================
