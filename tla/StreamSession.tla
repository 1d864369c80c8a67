--------------------------- MODULE StreamSession ---------------------------
(***************************************************************************)
(* One stream phase between the daemon (fillp client, main.c) and a phone  *)
(* (fillp server): the four-way handshake with its retransmissions,        *)
(* timeouts and reconnects, the two file streams of stream_file.c on top   *)
(* of it, and the FIN close (src/src/proto/fillp_conn.c).                  *)
(*                                                                         *)
(* Both ends run the same engine and the same StreamFile.  The daemon's    *)
(* application is src/src/main.c; the phone's is external and may close    *)
(* its peer from another thread.  FillpData describes how one direction    *)
(* keeps its packets in order; here a direction is the counters that       *)
(* description leaves: packet n carries VTP frame n, frame 1 the metadata, *)
(* frames 2 .. Chunks + 1 the file.  A file is the same in every attempt,  *)
(* so a packet number determines its contents.                             *)
(*                                                                         *)
(* The network keeps every datagram and delivers it never, once or again:  *)
(* that is loss, delay and duplication.  Timers are choices.               *)
(***************************************************************************)
EXTENDS Naturals

CONSTANTS
  Chunks,             \* data frames of the file each end sends
  Senders,            \* ends that have a file to send
  Faulty,             \* ends whose file system may fail
  PhoneMayLeave,      \* the phone may close before both files are through
  ConnectResults,     \* what fillp_engine_connect may return
  STREAM_CONNECT_MAX  \* connect attempts of the daemon

Ends == {"client", "server"}

Other(e) == IF e = "client" THEN "server" ELSE "client"

ASSUME SessionAssumption ==
  /\ Chunks \in [Ends -> Nat]
  /\ Senders \subseteq Ends
  /\ Faulty \subseteq Ends
  /\ PhoneMayLeave \in BOOLEAN
  /\ ConnectResults \subseteq {"sent", "send failed", "no peer"}
  /\ STREAM_CONNECT_MAX \in Nat

Frames(e) == Chunks[e] + 1

VARIABLES
  peer,      \* [Ends -> FillpPeer]: the peer each engine keeps for the other
  sf,        \* [Ends -> StreamFile]: the file session on it
  app,       \* [Ends -> the application's flags]
  net,       \* handshake and FIN datagrams sent so far
  sent,      \* [Ends -> highest packet number sent]
  packed,    \* [Ends -> highest packet number of its stream acknowledged]
  close_queued, \* [Ends -> a close callback waiting for the engine thread]
  removing,  \* the daemon's engine thread has called on_closed and not yet
             \* removed the peer's key from the table
  starting,  \* a stream_start call is queued on the daemon's main loop
  stream_attempts

engineVars == <<peer, net, sent, packed, close_queued, removing>>
fileVars == <<sf, app>>
mainVars == <<starting, stream_attempts>>
vars == <<engineVars, fileVars, mainVars>>

FillpPeer ==
  [state : {"NONE", "PENDING", "ESTABLISHED", "CLOSING"},
   hs_confirm_sent : BOOLEAN, peer_fin : BOOLEAN, pending_fin : BOOLEAN,
   fill_fn : BOOLEAN, fill_done : BOOLEAN, tx_notified : BOOLEAN,
   send_pkt_num : Nat, acked : Nat, recv_pkt_num : Nat, unpacked : BOOLEAN]

StreamFile ==
  [tx_state : {"IDLE", "ACTIVE", "DONE", "FAILED"}, tx_offset : Nat,
   rx_state : {"NONE", "WAIT", "DATA", "DONE", "FAILED"}, rx_received : Nat]

AppFlags ==
  [established : BOOLEAN, tx_done : BOOLEAN, rx_done : BOOLEAN,
   failed : BOOLEAN]

Message ==
  [type : {"CONN_REQ", "CONN_CONFIRM", "CONN_REQ_ACK", "CONN_CONFIRM_ACK",
           "FIN"},
   to : Ends]

\* One type invariant for both ends and the network between them.
TypeOK ==
  /\ peer \in [Ends -> FillpPeer]
  /\ sf \in [Ends -> StreamFile]
  /\ app \in [Ends -> AppFlags]
  /\ net \subseteq Message
  /\ sent \in [Ends -> Nat]
  /\ packed \in [Ends -> Nat]
  /\ close_queued \in [Ends -> {"no", "queued", "dangling"}]
  /\ removing \in BOOLEAN
  /\ starting \in BOOLEAN
  /\ stream_attempts \in 0 .. STREAM_CONNECT_MAX + 1
  /\ \A e \in Ends :
       /\ peer[e].send_pkt_num \in peer[e].acked .. Frames(e)
       /\ {sent[e], packed[e], sf[e].tx_offset} \subseteq 0 .. Frames(e)
       /\ sf[e].rx_received <= Chunks[Other(e)]

\* fp_peer_new: zeroed counters.  State "NONE": not in the engine's table.
NewPeer(state) ==
  [state |-> state, hs_confirm_sent |-> FALSE, peer_fin |-> FALSE,
   pending_fin |-> FALSE, fill_fn |-> FALSE, fill_done |-> FALSE,
   tx_notified |-> FALSE, send_pkt_num |-> 0, acked |-> 0,
   recv_pkt_num |-> 0, unpacked |-> FALSE]

\* No StreamFile is attached to the peer: fp_deliver drops the data.
NoFile ==
  [tx_state |-> "IDLE", tx_offset |-> 0, rx_state |-> "NONE",
   rx_received |-> 0]

\* stream_file_new, attached and, if it sends, started.
NewFile(sends) ==
  [tx_state |-> IF sends THEN "ACTIVE" ELSE "IDLE", tx_offset |-> 0,
   rx_state |-> "WAIT", rx_received |-> 0]

\* The file transfer has just ended and on_ft_result has queued stream_start.
Init ==
  /\ peer = [e \in Ends |-> NewPeer("NONE")]
  /\ sf = [e \in Ends |-> NoFile]
  /\ app = [e \in Ends |-> [established |-> FALSE, tx_done |-> FALSE,
                            rx_done |-> FALSE, failed |-> FALSE]]
  /\ net = {}
  /\ sent = [e \in Ends |-> 0]
  /\ packed = [e \in Ends |-> 0]
  /\ close_queued = [e \in Ends |-> "no"]
  /\ removing = FALSE
  /\ starting = TRUE
  /\ stream_attempts = 0

-----------------------------------------------------------------------------
(***************************************************************************)
(* Messages.                                                               *)
(***************************************************************************)

Msg(type, to) == [type |-> type, to |-> to]

\* Datagrams sent by one handler, and a handler's answer to one it received.
Send(ms) == net' = net \cup ms

Reply(m, ms) == m \in net /\ Send(ms)

\* Handlers and ticks run on the engine's one thread.
EngineFree(e) == e = "client" => ~removing

Max2(a, b) == IF a >= b THEN a ELSE b

-----------------------------------------------------------------------------
(***************************************************************************)
(* The daemon's main loop: stream_start and stream_connect.                *)
(***************************************************************************)

\* One more attempt.  Beyond the limit the phase has failed.
GiveUp ==
  /\ starting /\ ~app["client"].failed
  /\ stream_attempts >= STREAM_CONNECT_MAX
  /\ app' = [app EXCEPT !["client"].failed = TRUE]
  /\ starting' = FALSE
  /\ stream_attempts' = stream_attempts + 1
  /\ UNCHANGED <<engineVars, sf>>

\* fillp_engine_connect registers a peer and sends one CONN_REQ.  When the
\* send fails it queues a close of the peer; when it has no peer to return
\* the retry timer calls stream_connect again.
stream_connect(result) ==
  /\ starting /\ ~app["client"].failed
  /\ stream_attempts < STREAM_CONNECT_MAX
  /\ stream_attempts' = stream_attempts + 1
  /\ starting' = (result = "no peer")
  /\ IF result = "no peer"
     THEN UNCHANGED <<peer, net, close_queued>>
     ELSE /\ peer' = [peer EXCEPT !["client"] = NewPeer("PENDING")]
          /\ Send(IF result = "sent" THEN {Msg("CONN_REQ", "server")} ELSE {})
          /\ close_queued' = IF result = "sent" THEN close_queued
                             ELSE [close_queued EXCEPT !["client"] = "queued"]
  /\ UNCHANGED <<fileVars, sent, packed, removing>>

-----------------------------------------------------------------------------
(***************************************************************************)
(* Handshake.                                                              *)
(***************************************************************************)

\* A CONN_REQ from an unknown address creates a peer; one from a peer still
\* waiting repeats the acknowledgement; any other is ignored.
fp_handle_conn_req ==
  LET p == peer["server"] IN
  /\ IF p.state \in {"NONE", "PENDING"}
     THEN Reply(Msg("CONN_REQ", "server"), {Msg("CONN_REQ_ACK", "client")})
     ELSE Reply(Msg("CONN_REQ", "server"), {})
  /\ peer' = IF p.state = "NONE"
             THEN [peer EXCEPT !["server"] = NewPeer("PENDING")]
             ELSE peer
  /\ UNCHANGED <<fileVars, mainVars, sent, packed, close_queued, removing>>

\* The cookie is echoed, and is from now on what the client retransmits.
fp_handle_conn_req_ack ==
  LET pending == peer["client"].state = "PENDING" IN
  /\ EngineFree("client")
  /\ Reply(Msg("CONN_REQ_ACK", "client"),
           IF pending THEN {Msg("CONN_CONFIRM", "server")} ELSE {})
  /\ peer' = IF pending
             THEN [peer EXCEPT !["client"].hs_confirm_sent = TRUE]
             ELSE peer
  /\ UNCHANGED <<fileVars, mainVars, sent, packed, close_queued, removing>>

\* fp_peer_established and the application's on_established: a fresh
\* StreamFile, and the send side armed if there is a file and it opens.
Established(e, opens) ==
  LET sends == e \in Senders /\ opens IN
  /\ peer' = [peer EXCEPT ![e].state = "ESTABLISHED", ![e].fill_fn = sends]
  /\ sf' = [sf EXCEPT ![e] = NewFile(sends)]
  /\ app' = [app EXCEPT ![e].established = TRUE,
                        ![e].failed = @ \/ (e \in Senders /\ ~opens)]

\* Mutant: every CONN_CONFIRM is acknowledged, whatever the peer's state.
fp_handle_conn_confirm_always(opens) ==
  /\ Reply(Msg("CONN_CONFIRM", "server"), {Msg("CONN_CONFIRM_ACK", "client")})
  /\ IF peer["server"].state = "PENDING" THEN Established("server", TRUE)
                                         ELSE UNCHANGED <<peer, sf, app>>
  /\ UNCHANGED <<mainVars, sent, packed, close_queued, removing>>

\* Every cookie on this network was made by this server's engine, so it
\* verifies.  A repeated CONN_CONFIRM is acknowledged again.
fp_handle_conn_confirm(opens) ==
  LET p == peer["server"] IN
  /\ Reply(Msg("CONN_CONFIRM", "server"),
           IF p.state \in {"PENDING", "ESTABLISHED"}
           THEN {Msg("CONN_CONFIRM_ACK", "client")} ELSE {})
  /\ opens \/ "server" \in Faulty
  /\ IF p.state = "PENDING" THEN Established("server", opens)
                            ELSE UNCHANGED <<peer, sf, app>>
  /\ UNCHANGED <<mainVars, sent, packed, close_queued, removing>>

fp_handle_conn_confirm_ack(opens) ==
  /\ EngineFree("client")
  /\ Reply(Msg("CONN_CONFIRM_ACK", "client"), {})
  /\ opens \/ "client" \in Faulty
  /\ IF peer["client"].state = "PENDING" THEN Established("client", opens)
                                         ELSE UNCHANGED <<peer, sf, app>>
  /\ UNCHANGED <<mainVars, sent, packed, close_queued, removing>>

\* fp_on_tick in PENDING: the client repeats its last message every 500 ms,
\* long after a close queued at connect time has run.
Retransmit ==
  /\ EngineFree("client")
  /\ close_queued["client"] = "no"
  /\ peer["client"].state = "PENDING"
  /\ Send({Msg(IF peer["client"].hs_confirm_sent
               THEN "CONN_CONFIRM" ELSE "CONN_REQ", "server")})
  /\ UNCHANGED <<peer, fileVars, mainVars, sent, packed, close_queued, removing>>

\* fp_peer_request_close: the FIN is sent at once, and only when established.
CloseFin(p, e) ==
  IF p.state = "ESTABLISHED" THEN {Msg("FIN", Other(e))} ELSE {}

Closing(p) ==
  IF p.state \in {"PENDING", "ESTABLISHED"}
  THEN [p EXCEPT !.state = "CLOSING"] ELSE p

\* fp_on_tick in PENDING for 5 s.
HandshakeTimeout(e) ==
  /\ EngineFree(e)
  /\ peer[e].state = "PENDING"
  /\ peer' = [peer EXCEPT ![e] = Closing(@)]
  /\ Send(CloseFin(peer[e], e))
  /\ UNCHANGED <<fileVars, mainVars, sent, packed, close_queued, removing>>

-----------------------------------------------------------------------------
(***************************************************************************)
(* Files.                                                                  *)
(***************************************************************************)

\* sf_fail: both directions still in progress are reported as failed.
sf_fail(s) ==
  [s EXCEPT !.rx_state = IF @ \in {"WAIT", "DATA"} THEN "FAILED" ELSE @,
            !.tx_state = IF @ = "ACTIVE" THEN "FAILED" ELSE @]

\* Mutant: the peer is closed when the first direction is through.
ClosesOnFirstDone(e, a) == e = "client" /\ (a.tx_done \/ a.rx_done)

\* main.c on_stream_done closes the peer once both directions are through;
\* on the engine thread the close runs at once.  The phone's application
\* closes in PhoneClose.
ClosesOnDone(e, a) == e = "client" /\ a.tx_done /\ a.rx_done

\* sf_process_frame for the next frame: metadata first, then chunks until
\* rx_received reaches the total, when the contents are verified.
Received(e, s, outcome) ==
  CASE s.rx_state \in {"NONE", "DONE", "FAILED"} -> s
    [] s.rx_state \in {"WAIT", "DATA"} /\ outcome = "error" -> sf_fail(s)
    [] s.rx_state = "WAIT" /\ outcome # "error" -> [s EXCEPT !.rx_state = "DATA"]
    [] OTHER -> [s EXCEPT !.rx_received = @ + 1,
                          !.rx_state = IF s.rx_received + 1 = Chunks[Other(e)]
                                       THEN "DONE" ELSE @]

\* fp_on_data for the next packet in order: deliver it to the StreamFile,
\* let the application react, then acknowledge at once if enough is pending.
fp_on_data(e, outcome, flush) ==
  LET p  == peer[e]
      s1 == Received(e, sf[e], outcome)
      finished == s1.rx_state = "DONE" /\ sf[e].rx_state # "DONE"
      bad == \/ s1.rx_state = "FAILED" /\ sf[e].rx_state # "FAILED"
             \/ finished /\ outcome = "mismatch"
      a1 == [app[e] EXCEPT !.rx_done = @ \/ (finished /\ ~bad),
                           !.failed = @ \/ bad]
      closes == finished /\ ~bad /\ ClosesOnDone(e, a1)
      p1 == [p EXCEPT !.recv_pkt_num = @ + 1, !.unpacked = ~flush]
  IN /\ EngineFree(e)
     /\ p.state \in {"ESTABLISHED", "CLOSING"}
     /\ p.recv_pkt_num < sent[Other(e)]
     /\ outcome = "ok" \/ e \in Faulty
     /\ sf' = [sf EXCEPT ![e] = s1]
     /\ app' = [app EXCEPT ![e] = a1]
     /\ peer' = [peer EXCEPT ![e] = IF closes THEN Closing(p1) ELSE p1]
     /\ Send(IF closes THEN CloseFin(p1, e) ELSE {})
     /\ packed' = IF flush
                  THEN [packed EXCEPT ![Other(e)] = Max2(@, p1.recv_pkt_num)]
                  ELSE packed
     /\ UNCHANGED <<mainVars, sent, close_queued, removing>>

\* fp_on_pack with a cumulative acknowledgement sent earlier.
fp_on_pack(e) ==
  /\ EngineFree(e)
  /\ peer[e].state \in {"ESTABLISHED", "CLOSING"}
  /\ \E a \in 1 .. packed[e] :
       /\ peer[e].acked < a /\ a <= peer[e].send_pkt_num
       /\ peer' = [peer EXCEPT ![e].acked = a]
  /\ UNCHANGED <<fileVars, mainVars, net, sent, packed, close_queued, removing>>

-----------------------------------------------------------------------------
(***************************************************************************)
(* Pump and close.                                                         *)
(***************************************************************************)

\* The FIN of the other end: never finalize at once, drain first.
OnFin(e) ==
  /\ EngineFree(e)
  /\ Reply(Msg("FIN", e), {})
  /\ peer' = IF peer[e].state = "NONE" THEN peer
             ELSE [peer EXCEPT ![e] = [Closing(@) EXCEPT !.peer_fin = TRUE,
                                                         !.pending_fin = TRUE]]
  /\ UNCHANGED <<fileVars, mainVars, sent, packed, close_queued, removing>>

\* The fill callback (sf_fill): one frame per call.  The offset advances
\* whether or not fillp_peer_send accepts the frame.
Asked(p, fill) == p.fill_fn /\ ~p.fill_done /\ fill # "skip"

HasFrame(e, s) == s.tx_state = "ACTIVE" /\ s.tx_offset < Frames(e)

FilledFile(e, p, s, fill) ==
  CASE Asked(p, fill) /\ fill = "error" /\ s.tx_state = "ACTIVE" -> sf_fail(s)
    [] Asked(p, fill) /\ fill = "ok" /\ HasFrame(e, s) ->
         [s EXCEPT !.tx_offset = @ + 1]
    [] OTHER -> s

FilledPeer(e, p, s, fill) ==
  IF ~Asked(p, fill) \/ fill = "error" THEN p
  ELSE [p EXCEPT
          !.send_pkt_num = IF HasFrame(e, s) /\ p.state = "ESTABLISHED"
                           THEN @ + 1 ELSE @,
          !.fill_done = @ \/ s.tx_state = "DONE"
                          \/ (s.tx_state = "ACTIVE" /\ s.tx_offset = Frames(e))]

\* Mutant: completion once everything has been queued.
TxDrainedQueued(p) == p.fill_done

TxDrained(p) == p.fill_done /\ p.acked = p.send_pkt_num

CloseDrained(p) == p.peer_fin /\ TxDrained(p) /\ ~p.unpacked

\* Mutant: every close of an established session is a failure.
ClosedFlagsAlways(a) == [a EXCEPT !.failed = @ \/ a.established]

\* Mutant: the daemon reconnects after sessions, not after handshakes.
RetriesEstablished(e, a) ==
  e = "client" /\ ~a.failed /\ a.established /\ ~(a.tx_done /\ a.rx_done)

\* on_stream_closed: a session that got established and did not finish has
\* failed; a handshake that did not complete is tried again by the daemon.
ClosedFlags(a) ==
  [a EXCEPT !.failed = @ \/ (a.established /\ ~(a.tx_done /\ a.rx_done))]

Retries(e, a) ==
  e = "client" /\ ~a.failed /\ ~a.established /\ ~(a.tx_done /\ a.rx_done)

\* fp_on_tick for an established or closing peer.  In this order: ask for
\* data, send it, report completion (and let the application close), flush
\* the pending acknowledgement, answer the FIN, finalize.  A pump that has
\* run for the 2 s of the close timeout has flushed its acknowledgements.
Pump(e, fill, due, expired) ==
  LET p0 == peer[e]
      s1 == FilledFile(e, p0, sf[e], fill)
      p1 == FilledPeer(e, p0, sf[e], fill)
      notify == TxDrained(p1) /\ ~p1.tx_notified
      ok == notify /\ s1.tx_state = "ACTIVE"
      s2 == IF ok THEN [s1 EXCEPT !.tx_state = "DONE"] ELSE s1
      a2 == [app[e] EXCEPT
               !.tx_done = @ \/ ok,
               !.failed = @ \/ (s1.tx_state = "FAILED" /\ sf[e].tx_state = "ACTIVE")]
      closes == ok /\ ClosesOnDone(e, a2)
      p2 == [(IF closes THEN Closing(p1) ELSE p1) EXCEPT !.tx_notified = @ \/ notify]
      reply == p2.pending_fin /\ TxDrained(p2)
      p3 == [p2 EXCEPT !.unpacked = @ /\ ~due, !.pending_fin = @ /\ ~reply]
      final == p3.state = "CLOSING" /\ (CloseDrained(p3) \/ expired)
  IN /\ EngineFree(e)
     /\ p0.state \in {"ESTABLISHED", "CLOSING"}
     /\ fill = "error" => e \in Faulty /\ sf[e].tx_state = "ACTIVE"
     /\ expired => p0.state = "CLOSING" /\ due
     /\ sent' = [sent EXCEPT ![e] = Max2(@, p1.send_pkt_num)]
     /\ packed' = IF p2.unpacked /\ due
                  THEN [packed EXCEPT ![Other(e)] = Max2(@, p2.recv_pkt_num)]
                  ELSE packed
     /\ Send((IF closes THEN CloseFin(p1, e) ELSE {})
             \cup (IF reply THEN {Msg("FIN", Other(e))} ELSE {}))
     /\ IF final
        THEN /\ peer' = [peer EXCEPT ![e] = NewPeer("NONE")]
             /\ sf' = [sf EXCEPT ![e] = NoFile]
             /\ app' = [app EXCEPT ![e] = ClosedFlags(a2)]
             /\ starting' = (starting \/ Retries(e, a2))
             /\ close_queued' = [close_queued EXCEPT ![e] =
                                   IF @ = "queued" THEN "dangling" ELSE @]
             /\ removing' = (removing \/ e = "client")
        ELSE /\ peer' = [peer EXCEPT ![e] = p3]
             /\ sf' = [sf EXCEPT ![e] = s2]
             /\ app' = [app EXCEPT ![e] = a2]
             /\ UNCHANGED <<starting, close_queued, removing>>
     /\ UNCHANGED stream_attempts

\* fp_peer_finalize goes on after on_closed and removes the key.  If the main
\* thread has connected again in between, the table holds the new peer under
\* the same key and loses it: it stays allocated, out of reach of the tick
\* and of every datagram.
FinalizeRemoves ==
  /\ removing
  /\ removing' = FALSE
  /\ peer' = [peer EXCEPT !["client"] = NewPeer("NONE")]
  /\ UNCHANGED <<net, sent, packed, close_queued, fileVars, mainVars>>

\* The phone's application calls fillp_peer_close from a thread of its own:
\* when both files are through, or earlier if it may leave.  The state is
\* checked now, the callback runs later on the engine thread.
PhoneClose ==
  /\ peer["server"].state = "ESTABLISHED"
  /\ close_queued["server"] = "no"
  /\ PhoneMayLeave \/ (app["server"].tx_done /\ app["server"].rx_done)
  /\ close_queued' = [close_queued EXCEPT !["server"] = "queued"]
  /\ UNCHANGED <<peer, net, sent, packed, removing, fileVars, mainVars>>

\* The queued callback.  A peer that was finalized in between is freed
\* memory; its bytes read as closed here.
fp_peer_close_cb(e) ==
  /\ EngineFree(e)
  /\ close_queued[e] # "no"
  /\ IF close_queued[e] = "queued"
     THEN /\ peer' = [peer EXCEPT ![e] = Closing(@)]
          /\ Send(CloseFin(peer[e], e))
     ELSE UNCHANGED <<peer, net>>
  /\ close_queued' = [close_queued EXCEPT ![e] = "no"]
  /\ UNCHANGED <<fileVars, mainVars, sent, packed, removing>>

-----------------------------------------------------------------------------
Next ==
  \/ GiveUp
  \/ \E r \in ConnectResults : stream_connect(r)
  \/ fp_handle_conn_req
  \/ fp_handle_conn_req_ack
  \/ \E opens \in BOOLEAN : fp_handle_conn_confirm(opens)
  \/ \E opens \in BOOLEAN : fp_handle_conn_confirm_ack(opens)
  \/ Retransmit
  \/ \E e \in Ends : HandshakeTimeout(e)
  \/ \E e \in Ends, outcome \in {"ok", "error", "mismatch"}, flush \in BOOLEAN :
       fp_on_data(e, outcome, flush)
  \/ \E e \in Ends : fp_on_pack(e)
  \/ \E e \in Ends : OnFin(e)
  \/ \E e \in Ends, fill \in {"ok", "skip", "error"}, due, expired \in BOOLEAN :
       Pump(e, fill, due, expired)
  \/ FinalizeRemoves
  \/ PhoneClose
  \/ \E e \in Ends : fp_peer_close_cb(e)

Spec == Init /\ [][Next]_vars

-----------------------------------------------------------------------------
(***************************************************************************)
(* Properties.                                                             *)
(***************************************************************************)

\* stream_file.h: for the sending side ok "always means all bytes sent and
\* acked".  sf_on_tx_complete reports success to the daemon only after the
\* phone's engine has acknowledged every frame of the file.
TxOkMeansAcked ==
  app["client"].tx_done => packed["client"] >= Frames("client")

\* A FIN is only ever sent when both files are through: the side that closes
\* first has everything acknowledged and verified (on_stream_done), and the
\* reply waits for its own stream to drain (fp_pump).  A FIN that overtakes
\* data therefore never cuts a stream short.
FinMeansDelivered ==
  (\E e \in Ends : Msg("FIN", e) \in net) =>
    \A e \in Ends : packed[e] >= Frames(e) \/ app[Other(e)].rx_done

\* While the daemon is established the phone is too, or has finished with
\* both files: no loss, timeout or stale CONFIRM_ACK of the handshake leaves
\* the daemon alone on a connection the phone has given up.
NoHalfOpenDaemon ==
  peer["client"].state = "ESTABLISHED" =>
    \/ peer["server"].state = "ESTABLISHED"
    \/ app["server"].tx_done /\ app["server"].rx_done

\* The daemon never reports both a completed and a failed stream phase,
\* whatever closes, times out or arrives late (on_stream_done against
\* on_stream_closed).
OneVerdict ==
  ~(app["client"].failed /\ app["client"].tx_done /\ app["client"].rx_done)

\* The receiving side knows the size from the metadata frame and reports its
\* direction finished when it has all of the file (stream_file.h: "One
\* direction finished ... receiver side").
ReceivedIsReported ==
  \A e \in Ends :
    peer[e].recv_pkt_num = Frames(Other(e)) =>
      sf[e].rx_state \notin {"WAIT", "DATA"}

\* stream_file.c: registering from on_established "cannot miss the peer's
\* first data packet".  No packet is counted as received, and then
\* acknowledged, while no StreamFile is there to take it.
FirstPacketNotMissed ==
  \A e \in Ends : peer[e].recv_pkt_num > 0 => sf[e].rx_state # "NONE"

\* fillp_conn.h: FIN is "sent when the app has drained its send queue".
FinAfterDrain ==
  \A e \in Senders : Msg("FIN", Other(e)) \in net => packed[e] >= Frames(e)

\* fillp_peer_close is "any thread, idempotent": its callback never acts on a
\* peer that has been finalized and freed.
CloseOfLivePeer == \A e \in Ends : close_queued[e] # "dangling"

\* fp_pump step 6: a peer that has received a FIN and has nothing left to
\* send answers with a FIN before it goes away.
FinIsAnswered ==
  [][\A e \in Ends :
       /\ peer[e].state = "CLOSING" /\ peer'[e].state = "NONE"
       /\ peer[e].pending_fin /\ peer[e].send_pkt_num = peer[e].acked
       => Msg("FIN", Other(e)) \in net']_vars

(***************************************************************************)
(* Liveness.  Engine ticks go on and their timers expire; the main loop    *)
(* runs what is queued on it; data and acknowledgements of a live          *)
(* connection get through in the end because they are retransmitted.       *)
(* Nothing is assumed about handshake messages and FINs.                   *)
(***************************************************************************)
MainLoop == GiveUp \/ \E r \in ConnectResults : stream_connect(r)

Tick(e) ==
  \/ HandshakeTimeout(e)
  \/ Pump(e, "ok", TRUE, peer[e].state = "CLOSING")

Arrival(e) == \E outcome \in {"ok", "error", "mismatch"}, flush \in BOOLEAN :
                fp_on_data(e, outcome, flush)

Fairness ==
  /\ WF_vars(MainLoop)
  /\ WF_vars(FinalizeRemoves)
  /\ WF_vars(fp_peer_close_cb("client"))
  /\ WF_vars(fp_on_pack("client"))
  /\ \A e \in Ends : WF_vars(Tick(e)) /\ WF_vars(Arrival(e))

FairSpec == Spec /\ Fairness

Verdict ==
  app["client"].failed \/ (app["client"].tx_done /\ app["client"].rx_done)

\* fillp_conn.h: a connect is live "until its on_closed fires", also when
\* the handshake times out, and "the app then retries with a fresh connect".
\* So the daemon's stream phase ends: both files through, or failed.
PhaseEnds == <>Verdict

\* A new peer under the key that fp_peer_finalize is about to remove.
Overtaken == removing /\ peer["client"].state # "NONE"

\* The stream phase ends, through every timeout, retry and lost handshake
\* message, unless a reconnect was overtaken by the removal of the peer
\* before it (fp_peer_finalize calls on_closed before it removes the key), or
\* a peer closing after a handshake timeout swallowed data of the phone.
PhaseEndsUnlessLost == <>(Verdict \/ Overtaken \/ ~FirstPacketNotMissed)
============================================================================
