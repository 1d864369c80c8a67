------------------------ MODULE StreamSessionProofs ------------------------
(***************************************************************************)
(* Theorems about StreamSession for files of any length, any number of     *)
(* connect attempts and any senders.                                       *)
(*                                                                         *)
(* One invariant describes an end by itself (EndInv): its peer, its file,  *)
(* its application's flags, and the packets sent and acknowledged either   *)
(* way.  A second one says that the daemon lives through at most one       *)
(* established session (ClientInv).  These hold whatever the phone does.   *)
(* The handshake (HandshakeInv) and what a FIN says (FinInv) need that the *)
(* phone closes only when both files are through, and the latter that a    *)
(* connect which returns has sent its request.                             *)
(***************************************************************************)
EXTENDS StreamSession, TLAPS

Done(a) == a.tx_done /\ a.rx_done

Fin(e) == Msg("FIN", e)

Ack == Msg("CONN_CONFIRM_ACK", "client")

-----------------------------------------------------------------------------
(***************************************************************************)
(* One end: p its peer, s its file, a its application's flags, out the     *)
(* packets it has sent, acks those acknowledged, in the other end's.       *)
(***************************************************************************)

EndTypes(p, s, a) ==
  /\ p \in FillpPeer
  /\ s \in StreamFile
  /\ a \in AppFlags

\* Acknowledged, sent and filled packets of the current session, in order.
SendCounters(e, p, s, out, acks) ==
  /\ p.acked <= p.send_pkt_num
  /\ p.acked <= acks
  /\ p.send_pkt_num <= s.tx_offset
  /\ s.tx_offset <= Frames(e)
  /\ p.send_pkt_num <= out
  /\ out <= Frames(e)
  /\ acks <= Frames(e)

\* One packet is the metadata frame, the others are chunks.
ReceiveCounters(e, p, s, a, in) ==
  /\ p.recv_pkt_num <= in
  /\ s.rx_received = 0 \/ s.rx_received < p.recv_pkt_num
  /\ s.rx_state = "DATA" => s.rx_received < p.recv_pkt_num
  /\ a.rx_done => Frames(Other(e)) <= in

\* A file is attached when the session is established, not before.
Attached(e, p, s, a) ==
  /\ p.state \in {"NONE", "PENDING"} => s = NoFile /\ ~p.fill_fn
  /\ s # NoFile => a.established
  /\ p.state = "ESTABLISHED" => a.established
  /\ p.fill_fn => a.established
  /\ p.fill_done => p.fill_fn
  /\ p.fill_done /\ s.tx_state = "ACTIVE" => s.tx_offset = Frames(e)
  /\ a.tx_done \/ a.rx_done => a.established

EndInv(e, p, s, a, out, acks, in) ==
  /\ EndTypes(p, s, a)
  /\ SendCounters(e, p, s, out, acks)
  /\ ReceiveCounters(e, p, s, a, in)
  /\ Attached(e, p, s, a)

-----------------------------------------------------------------------------
(***************************************************************************)
(* The daemon: one established session at most, and one verdict.           *)
(***************************************************************************)

\* A direction that has failed has not been reported as done and will not be.
OneIsLost(s, a) ==
  \/ ~a.tx_done /\ s.tx_state # "ACTIVE"
  \/ ~a.rx_done /\ s.rx_state \notin {"WAIT", "DATA"}

\* out is the number of packets that the daemon has sent.
OneSession(p, s, a, out) ==
  /\ a.established => p.state # "PENDING"
  /\ a.established /\ p.state # "NONE" => p.send_pkt_num = out
  /\ ~a.established => out = 0
  /\ s.tx_state = "ACTIVE" => ~a.tx_done
  /\ s.rx_state \in {"WAIT", "DATA"} => ~a.rx_done
  /\ a.failed /\ ~a.established => p.state = "NONE"
  /\ a.failed /\ a.established => OneIsLost(s, a)

MainInv(p, a, start, remove, attempts) ==
  /\ start => p.state = "NONE" /\ ~a.established /\ ~a.failed
  /\ remove => p.state \in {"NONE", "PENDING"}
  /\ attempts \in Nat
  /\ attempts <= STREAM_CONNECT_MAX + 1
  /\ attempts = STREAM_CONNECT_MAX + 1 => a.failed

-----------------------------------------------------------------------------
(***************************************************************************)
(* Both ends.                                                              *)
(***************************************************************************)

StateTypes ==
  /\ peer \in [Ends -> FillpPeer]
  /\ sf \in [Ends -> StreamFile]
  /\ app \in [Ends -> AppFlags]
  /\ net \subseteq Message
  /\ sent \in [Ends -> Nat]
  /\ packed \in [Ends -> Nat]
  /\ close_queued \in [Ends -> {"no", "queued", "dangling"}]
  /\ removing \in BOOLEAN
  /\ starting \in BOOLEAN

EndOK(e) ==
  EndInv(e, peer[e], sf[e], app[e], sent[e], packed[e], sent[Other(e)])

ClientOK ==
  /\ OneSession(peer["client"], sf["client"], app["client"], sent["client"])
  /\ MainInv(peer["client"], app["client"], starting, removing, stream_attempts)

\* Holds whatever the phone does.
SessionInv ==
  /\ StateTypes
  /\ \A e \in Ends : EndOK(e)
  /\ ClientOK

\* A CONFIRM_ACK tells of a server that stays, unless it is through.
HandshakeInv ==
  /\ close_queued["server"] # "no" => Done(app["server"])
  /\ Ack \in net =>
       \/ peer["server"].state = "ESTABLISHED"
       \/ Done(app["server"])
       \/ Fin("server") \in net
  /\ peer["client"].state = "ESTABLISHED" => Ack \in net
  /\ Fin("server") \in net =>
       /\ app["client"].established
       /\ peer["client"].state \in {"CLOSING", "NONE"}
  /\ peer["client"].pending_fin => peer["client"].state = "CLOSING"

\* The daemon's stream is acknowledged; the phone's is, or has arrived.
Through(e) == packed[e] >= Frames(e) \/ app[Other(e)].rx_done

\* What an end that still sends has offered has also been sent, unless the
\* other end does not wait for it.
FinInv ==
  /\ close_queued["client"] = "no"
  /\ \A e \in Ends : peer[e].pending_fin => Fin(e) \in net
  /\ \A e \in Ends : Fin(e) \in net => Done(app["client"]) \/ Done(app["server"])
  /\ app["client"].tx_done => packed["client"] >= Frames("client")
  /\ app["server"].tx_done => Through("server")
  /\ \A e \in Ends :
       sf[e].tx_state = "ACTIVE" =>
         /\ sf[e].tx_offset = peer[e].send_pkt_num \/ Through(e)
         /\ peer[e].state = "CLOSING" => Through(e)

PhoneStays == ~PhoneMayLeave

ConnectsSend == "send failed" \notin ConnectResults

-----------------------------------------------------------------------------
(***************************************************************************)
(* Lemmas about one end.                                                   *)
(***************************************************************************)

\* The two ends, and the types of their numbers of frames.
LEMMA EndsFacts ==
  /\ "client" \in Ends /\ "server" \in Ends
  /\ Other("client") = "server" /\ Other("server") = "client"
  /\ \A e \in Ends : /\ Other(e) \in Ends /\ Other(e) # e /\ Other(Other(e)) = e
                     /\ Frames(e) \in Nat /\ Chunks[e] \in Nat
                     /\ Frames(e) = Chunks[e] + 1
  <1>1. /\ "client" \in Ends /\ "server" \in Ends
        /\ Other("client") = "server" /\ Other("server") = "client"
    BY DEF Ends, Other
  <1>2. ASSUME NEW e \in Ends
        PROVE  /\ Other(e) \in Ends /\ Other(e) # e /\ Other(Other(e)) = e
               /\ Frames(e) \in Nat /\ Chunks[e] \in Nat
               /\ Frames(e) = Chunks[e] + 1
    <2>1. Chunks[e] \in Nat
      BY SessionAssumption
    <2>2. e = "client" \/ e = "server"
      BY DEF Ends
    <2>3. Other(e) \in Ends /\ Other(e) # e /\ Other(Other(e)) = e
      BY <2>2, <1>1
    <2> QED BY <2>1, <2>3 DEF Frames
  <1> QED BY <1>1, <1>2

\* Fields of a peer and their types.
LEMMA PeerFields ==
  ASSUME NEW p \in FillpPeer
  PROVE  /\ p.state \in {"NONE", "PENDING", "ESTABLISHED", "CLOSING"}
         /\ p.fill_fn \in BOOLEAN /\ p.fill_done \in BOOLEAN
         /\ p.send_pkt_num \in Nat /\ p.acked \in Nat /\ p.recv_pkt_num \in Nat
         /\ p.hs_confirm_sent \in BOOLEAN /\ p.peer_fin \in BOOLEAN
         /\ p.pending_fin \in BOOLEAN /\ p.tx_notified \in BOOLEAN
         /\ p.unpacked \in BOOLEAN
  BY DEF FillpPeer

\* Fields of a stream file and of the application's flags.
LEMMA FileFields ==
  ASSUME NEW s \in StreamFile, NEW a \in AppFlags
  PROVE  /\ s.tx_state \in {"IDLE", "ACTIVE", "DONE", "FAILED"}
         /\ s.rx_state \in {"NONE", "WAIT", "DATA", "DONE", "FAILED"}
         /\ s.tx_offset \in Nat /\ s.rx_received \in Nat
         /\ a.established \in BOOLEAN /\ a.tx_done \in BOOLEAN
         /\ a.rx_done \in BOOLEAN /\ a.failed \in BOOLEAN
  BY DEF StreamFile, AppFlags

\* A handler that leaves the counters and the fill callback of a peer alone,
\* and whose only change of state is to close it.
Kept(p, q) ==
  /\ q \in FillpPeer
  /\ q.fill_fn = p.fill_fn
  /\ q.fill_done = p.fill_done
  /\ q.send_pkt_num = p.send_pkt_num
  /\ q.acked = p.acked
  /\ q.recv_pkt_num = p.recv_pkt_num
  /\ q.state = p.state \/ (q.state = "CLOSING" /\ p.state # "NONE")

\* fp_peer_request_close is such a step.
LEMMA ClosingKeeps ==
  ASSUME NEW p \in FillpPeer
  PROVE  Kept(p, Closing(p))
  BY DEF Kept, Closing, FillpPeer

\* So are the changes of flags in the handlers of FIN and CONN_REQ_ACK.
LEMMA FlagsKeep ==
  ASSUME NEW p \in FillpPeer
  PROVE  /\ Kept(p, [p EXCEPT !.hs_confirm_sent = TRUE])
         /\ p.state # "NONE" =>
              Kept(p, [Closing(p) EXCEPT !.peer_fin = TRUE, !.pending_fin = TRUE])
  BY DEF Kept, Closing, FillpPeer

\* Such steps keep what is known of the end.
LEMMA KeptEnd ==
  ASSUME NEW e \in Ends, NEW p, NEW q, NEW s, NEW a,
         NEW out, NEW acks, NEW in,
         EndInv(e, p, s, a, out, acks, in), Kept(p, q)
  PROVE  EndInv(e, q, s, a, out, acks, in)
  <1>1. EndTypes(q, s, a)
    BY DEF EndInv, EndTypes, Kept
  <1>2. SendCounters(e, q, s, out, acks)
    BY DEF EndInv, SendCounters, Kept
  <1>3. ReceiveCounters(e, q, s, a, in)
    BY DEF EndInv, ReceiveCounters, Kept
  <1>4. Attached(e, q, s, a)
    BY Zenon DEF EndInv, Attached, Kept
  <1> QED BY <1>1, <1>2, <1>3, <1>4 DEF EndInv

\* And what is known of the daemon.
LEMMA KeptClient ==
  ASSUME NEW p, NEW q, NEW s, NEW a, NEW out, NEW acks, NEW in,
         EndInv("client", p, s, a, out, acks, in), Kept(p, q),
         OneSession(p, s, a, out)
  PROVE  OneSession(q, s, a, out)
  <1>1. /\ q.send_pkt_num = p.send_pkt_num
        /\ q.state = p.state \/ (q.state = "CLOSING" /\ p.state # "NONE")
    BY DEF Kept
  <1>2. /\ p.state \in {"NONE", "PENDING"} => s = NoFile
        /\ p.state = "ESTABLISHED" => a.established
        /\ p.state \in {"NONE", "PENDING", "ESTABLISHED", "CLOSING"}
    BY PeerFields DEF EndInv, EndTypes, Attached
  <1> QED BY <1>1, <1>2 DEF OneSession

\* More acknowledgements of its packets, or more packets of the other end,
\* keep what is known of an end.
LEMMA MoreTraffic ==
  ASSUME NEW e \in Ends, NEW p, NEW s, NEW a,
         NEW out \in Nat, NEW acks \in Nat, NEW in \in Nat,
         NEW acks2 \in Nat, NEW in2 \in Nat,
         EndInv(e, p, s, a, out, acks, in),
         acks <= acks2, acks2 <= Frames(e), in <= in2
  PROVE  EndInv(e, p, s, a, out, acks2, in2)
  <1> USE EndsFacts
  <1>1. EndTypes(p, s, a) /\ Attached(e, p, s, a)
    BY DEF EndInv
  <1>2. SendCounters(e, p, s, out, acks2)
    BY PeerFields DEF EndInv, SendCounters, EndTypes
  <1>3. ReceiveCounters(e, p, s, a, in2)
    BY PeerFields DEF EndInv, ReceiveCounters, EndTypes
  <1> QED BY <1>1, <1>2, <1>3 DEF EndInv

\* A peer made anew, or none, has no file.
LEMMA NewPeerFields ==
  ASSUME NEW st \in {"NONE", "PENDING"}
  PROVE  /\ NewPeer(st) \in FillpPeer
         /\ NewPeer(st).state = st
         /\ NewPeer(st).fill_fn = FALSE /\ NewPeer(st).fill_done = FALSE
         /\ NewPeer(st).send_pkt_num = 0 /\ NewPeer(st).acked = 0
         /\ NewPeer(st).recv_pkt_num = 0 /\ NewPeer(st).pending_fin = FALSE
         /\ NoFile \in StreamFile
         /\ NoFile.tx_state = "IDLE" /\ NoFile.rx_state = "NONE"
         /\ NoFile.tx_offset = 0 /\ NoFile.rx_received = 0
  BY DEF NewPeer, NoFile, FillpPeer, StreamFile

\* A peer that is made, or that goes, leaves the flags and the traffic.
LEMMA FreshEnd ==
  ASSUME NEW e \in Ends, NEW p, NEW s, NEW a, NEW b \in AppFlags,
         NEW out \in Nat, NEW acks \in Nat, NEW in \in Nat,
         NEW st \in {"NONE", "PENDING"},
         EndInv(e, p, s, a, out, acks, in),
         b.established = a.established, b.tx_done = a.tx_done,
         b.rx_done = a.rx_done
  PROVE  EndInv(e, NewPeer(st), NoFile, b, out, acks, in)
  <1> USE EndsFacts, NewPeerFields
  <1>1. EndTypes(NewPeer(st), NoFile, b)
    BY DEF EndTypes
  <1>2. SendCounters(e, NewPeer(st), NoFile, out, acks)
    BY DEF EndInv, SendCounters
  <1>3. ReceiveCounters(e, NewPeer(st), NoFile, b, in)
    BY DEF EndInv, ReceiveCounters
  <1>4. Attached(e, NewPeer(st), NoFile, b)
    BY DEF EndInv, Attached
  <1> QED BY <1>1, <1>2, <1>3, <1>4 DEF EndInv

\* An established session has a new file, which may send.
LEMMA NewFileFields ==
  ASSUME NEW sends \in BOOLEAN
  PROVE  /\ NewFile(sends) \in StreamFile
         /\ NewFile(sends).tx_state = IF sends THEN "ACTIVE" ELSE "IDLE"
         /\ NewFile(sends).rx_state = "WAIT"
         /\ NewFile(sends).tx_offset = 0 /\ NewFile(sends).rx_received = 0
  BY DEF NewFile, StreamFile

\* What the handlers of CONN_CONFIRM and CONN_CONFIRM_ACK make of a pending
\* peer p and of the flags a.
Opened(p, a, q, s, b, sends) ==
  /\ q \in FillpPeer
  /\ q.state = "ESTABLISHED"
  /\ q.fill_fn = sends
  /\ q.fill_done = p.fill_done
  /\ q.send_pkt_num = p.send_pkt_num
  /\ q.acked = p.acked
  /\ q.recv_pkt_num = p.recv_pkt_num
  /\ q.pending_fin = p.pending_fin
  /\ s = NewFile(sends)
  /\ b \in AppFlags
  /\ b.established = TRUE
  /\ b.tx_done = a.tx_done
  /\ b.rx_done = a.rx_done

\* fp_peer_established and on_established do that.
LEMMA EstablishedOpens ==
  ASSUME StateTypes, NEW e \in Ends, NEW opens \in BOOLEAN,
         Established(e, opens)
  PROVE  /\ Opened(peer[e], app[e], peer'[e], sf'[e], app'[e],
                   e \in Senders /\ opens)
         /\ app'[e].failed = (app[e].failed \/ (e \in Senders /\ ~opens))
         /\ peer' \in [Ends -> FillpPeer]
         /\ sf' \in [Ends -> StreamFile]
         /\ app' \in [Ends -> AppFlags]
         /\ \A o \in Ends : o # e => /\ peer'[o] = peer[o]
                                     /\ sf'[o] = sf[o]
                                     /\ app'[o] = app[o]
  <1> DEFINE sends == e \in Senders /\ opens
             bad == e \in Senders /\ ~opens
             q == [peer[e] EXCEPT !.state = "ESTABLISHED", !.fill_fn = sends]
             b == [app[e] EXCEPT !.established = TRUE,
                                 !.failed = app[e].failed \/ bad]
  <1>1. /\ peer \in [Ends -> FillpPeer]
        /\ sf \in [Ends -> StreamFile]
        /\ app \in [Ends -> AppFlags]
    BY DEF StateTypes
  <1>2. /\ peer' = [peer EXCEPT ![e] = q]
        /\ sf' = [sf EXCEPT ![e] = NewFile(sends)]
        /\ app' = [app EXCEPT ![e] = b]
    BY <1>1 DEF Established
  <1>3. sends \in BOOLEAN /\ bad \in BOOLEAN
    BY Zenon
  <1> HIDE DEF sends, bad
  <1>4. /\ q \in FillpPeer /\ q.state = "ESTABLISHED" /\ q.fill_fn = sends
        /\ q.fill_done = peer[e].fill_done
        /\ q.send_pkt_num = peer[e].send_pkt_num
        /\ q.acked = peer[e].acked
        /\ q.recv_pkt_num = peer[e].recv_pkt_num
        /\ q.pending_fin = peer[e].pending_fin
    BY <1>1, <1>3 DEF FillpPeer
  <1>5. /\ b \in AppFlags /\ b.established = TRUE
        /\ b.tx_done = app[e].tx_done /\ b.rx_done = app[e].rx_done
        /\ b.failed = (app[e].failed \/ bad)
    BY <1>1, <1>3 DEF AppFlags
  <1>6. NewFile(sends) \in StreamFile
    BY <1>3, NewFileFields
  <1> HIDE DEF q, b
  <1>7. /\ peer'[e] = q /\ sf'[e] = NewFile(sends) /\ app'[e] = b
        /\ peer' \in [Ends -> FillpPeer]
        /\ sf' \in [Ends -> StreamFile]
        /\ app' \in [Ends -> AppFlags]
        /\ \A o \in Ends : o # e => /\ peer'[o] = peer[o]
                                    /\ sf'[o] = sf[o]
                                    /\ app'[o] = app[o]
    BY <1>1, <1>2, <1>4, <1>5, <1>6
  <1>8. Opened(peer[e], app[e], peer'[e], sf'[e], app'[e], sends)
    BY <1>4, <1>5, <1>7 DEF Opened
  <1> QED BY <1>5, <1>7, <1>8, Zenon DEF sends, bad

\* An established end.
LEMMA OpenedEnd ==
  ASSUME NEW e \in Ends, NEW p, NEW s, NEW a, NEW q, NEW t, NEW b,
         NEW sends \in BOOLEAN,
         NEW out \in Nat, NEW acks \in Nat, NEW in \in Nat,
         EndInv(e, p, s, a, out, acks, in), p.state = "PENDING",
         Opened(p, a, q, t, b, sends)
  PROVE  EndInv(e, q, t, b, out, acks, in)
  <1> USE EndsFacts
  <1>0. /\ s = NoFile /\ ~p.fill_fn /\ ~p.fill_done
    BY DEF EndInv, Attached
  <1>1. /\ p.send_pkt_num = 0 /\ p.acked = 0
        /\ p.recv_pkt_num \in Nat
    <2>1. /\ p.send_pkt_num <= 0 /\ p.acked <= 0
          /\ p.send_pkt_num \in Nat /\ p.acked \in Nat /\ p.recv_pkt_num \in Nat
      BY <1>0, PeerFields, NewPeerFields DEF EndInv, EndTypes, SendCounters
    <2> QED BY <2>1
  <1>2. EndTypes(q, t, b)
    BY NewFileFields DEF EndTypes, Opened
  <1>3. SendCounters(e, q, t, out, acks)
    BY <1>1, NewFileFields DEF EndInv, SendCounters, Opened
  <1>4. ReceiveCounters(e, q, t, b, in)
    BY <1>1, NewFileFields DEF EndInv, ReceiveCounters, Opened
  <1>5. Attached(e, q, t, b)
    BY <1>0 DEF Attached, Opened
  <1> QED BY <1>2, <1>3, <1>4, <1>5 DEF EndInv

\* The daemon's session is the first one it establishes.
LEMMA OpenedClient ==
  ASSUME NEW p, NEW s, NEW a, NEW q, NEW t, NEW b,
         NEW sends \in BOOLEAN, NEW lost \in BOOLEAN,
         NEW out \in Nat, NEW acks \in Nat, NEW in \in Nat,
         EndInv("client", p, s, a, out, acks, in), p.state = "PENDING",
         Opened(p, a, q, t, b, sends),
         b.failed = (a.failed \/ lost), lost => ~sends,
         OneSession(p, s, a, out)
  PROVE  OneSession(q, t, b, out)
  <1>1. /\ ~a.established /\ out = 0 /\ ~a.tx_done /\ ~a.rx_done /\ ~a.failed
    BY FileFields DEF OneSession, EndInv, EndTypes, Attached
  <1>2. p.send_pkt_num = 0
    BY <1>1, PeerFields DEF EndInv, EndTypes, SendCounters
  <1>3. /\ b.established /\ ~b.tx_done /\ ~b.rx_done
        /\ q.state = "ESTABLISHED" /\ q.send_pkt_num = 0
    BY <1>1, <1>2 DEF Opened
  <1>4. b.failed => OneIsLost(t, b)
    <2>1. b.failed => ~sends
      BY <1>1
    <2>2. t = NewFile(sends)
      BY DEF Opened
    <2>3. ~sends => t.tx_state # "ACTIVE"
      BY <2>2, NewFileFields
    <2> QED BY <1>3, <2>1, <2>3 DEF OneIsLost
  <1> QED BY <1>1, <1>3, <1>4 DEF OneSession

-----------------------------------------------------------------------------
(***************************************************************************)
(* Arrival of a packet.                                                    *)
(***************************************************************************)

\* What sf_process_frame may make of the file s.
Processed(e, s, t) ==
  /\ t \in StreamFile
  /\ t.tx_offset = s.tx_offset
  /\ \/ t = s /\ s.rx_state \notin {"WAIT", "DATA"}
     \/ /\ s.rx_state \in {"WAIT", "DATA"} /\ t.rx_state = "FAILED"
        /\ t.rx_received = s.rx_received
        /\ t.tx_state = IF s.tx_state = "ACTIVE" THEN "FAILED" ELSE s.tx_state
     \/ /\ s.rx_state = "WAIT" /\ t.rx_state = "DATA"
        /\ t.rx_received = s.rx_received
        /\ t.tx_state = s.tx_state
     \/ /\ s.rx_state = "DATA" /\ t.rx_received = s.rx_received + 1
        /\ \/ t.rx_state = "DATA"
           \/ t.rx_state = "DONE" /\ t.rx_received = Chunks[Other(e)]
        /\ t.tx_state = s.tx_state

\* It makes one of these.
LEMMA ReceivedProcesses ==
  ASSUME NEW e \in Ends, NEW s \in StreamFile,
         NEW outcome \in {"ok", "error", "mismatch"}
  PROVE  Processed(e, s, Received(e, s, outcome))
  <1>0. /\ s.tx_state \in {"IDLE", "ACTIVE", "DONE", "FAILED"}
        /\ s.rx_state \in {"NONE", "WAIT", "DATA", "DONE", "FAILED"}
        /\ s.tx_offset \in Nat /\ s.rx_received \in Nat
    BY DEF StreamFile
  <1>1. CASE s.rx_state \in {"NONE", "DONE", "FAILED"}
    <2>1. Received(e, s, outcome) = s
      BY <1>1 DEF Received
    <2> QED BY <1>1, <2>1 DEF Processed
  <1>2. CASE s.rx_state \in {"WAIT", "DATA"} /\ outcome = "error"
    <2>1. Received(e, s, outcome) = sf_fail(s)
      BY <1>2 DEF Received
    <2>2. sf_fail(s) \in StreamFile
      BY <1>0 DEF sf_fail, StreamFile
    <2>3. /\ sf_fail(s).rx_state = "FAILED"
          /\ sf_fail(s).tx_offset = s.tx_offset
          /\ sf_fail(s).rx_received = s.rx_received
          /\ sf_fail(s).tx_state = IF s.tx_state = "ACTIVE" THEN "FAILED"
                                                           ELSE s.tx_state
      BY <1>2 DEF sf_fail, StreamFile
    <2> QED BY <1>2, <2>1, <2>2, <2>3 DEF Processed
  <1>3. CASE s.rx_state = "WAIT" /\ outcome # "error"
    <2>1. Received(e, s, outcome) = [s EXCEPT !.rx_state = "DATA"]
      BY <1>3 DEF Received
    <2> QED BY <1>0, <1>3, <2>1 DEF Processed, StreamFile
  <1>4. CASE s.rx_state = "DATA" /\ outcome # "error"
    <2> DEFINE n == s.rx_received + 1
               st == IF n = Chunks[Other(e)] THEN "DONE" ELSE "DATA"
               t == [s EXCEPT !.rx_received = n, !.rx_state = st]
    <2>1. Received(e, s, outcome) = t
      BY <1>4 DEF Received
    <2>2. n \in Nat /\ st \in {"DATA", "DONE"}
      BY <1>0
    <2>3. st = "DONE" => n = Chunks[Other(e)]
      OBVIOUS
    <2>4. n = s.rx_received + 1
      OBVIOUS
    <2> HIDE DEF n, st
    <2>5. t \in StreamFile
      BY <2>2 DEF StreamFile
    <2>6. /\ t.rx_received = n /\ t.rx_state = st
          /\ t.tx_offset = s.tx_offset /\ t.tx_state = s.tx_state
      BY DEF StreamFile
    <2> HIDE DEF t
    <2> QED BY <1>4, <2>1, <2>2, <2>3, <2>4, <2>5, <2>6 DEF Processed
  <1> QED BY <1>0, <1>1, <1>2, <1>3, <1>4

\* One packet more has been received.
Counted(p, q) ==
  /\ q \in FillpPeer
  /\ q.state = p.state
  /\ q.fill_fn = p.fill_fn
  /\ q.fill_done = p.fill_done
  /\ q.send_pkt_num = p.send_pkt_num
  /\ q.acked = p.acked
  /\ q.recv_pkt_num = p.recv_pkt_num + 1
  /\ q.pending_fin = p.pending_fin

\* on_stream_done after a packet: the direction is done, or it has failed.
ReportedRx(s, t, a, b) ==
  /\ b \in AppFlags
  /\ b.established = a.established
  /\ b.tx_done = a.tx_done
  /\ b.rx_done => a.rx_done \/ (t.rx_state = "DONE" /\ s.rx_state = "DATA")
  /\ a.rx_done => b.rx_done
  /\ a.failed => b.failed
  /\ b.failed => \/ a.failed
                 \/ /\ s.rx_state \in {"WAIT", "DATA"}
                    /\ t.rx_state \in {"FAILED", "DONE"}
                    /\ b.rx_done => a.rx_done

\* The end that received it.
LEMMA CountedEnd ==
  ASSUME NEW e \in Ends, NEW p, NEW s, NEW a, NEW q, NEW t, NEW b,
         NEW out \in Nat, NEW acks \in Nat, NEW in \in Nat,
         EndInv(e, p, s, a, out, acks, in),
         p.state \in {"ESTABLISHED", "CLOSING"}, p.recv_pkt_num < in,
         Counted(p, q), Processed(e, s, t), ReportedRx(s, t, a, b)
  PROVE  EndInv(e, q, t, b, out, acks, in)
  <1> USE EndsFacts
  <1>0. /\ p.recv_pkt_num \in Nat /\ s.rx_received \in Nat
        /\ s.rx_state \in {"NONE", "WAIT", "DATA", "DONE", "FAILED"}
    BY PeerFields, FileFields DEF EndInv, EndTypes
  <1>1. EndTypes(q, t, b)
    BY DEF EndTypes, Counted, Processed, ReportedRx
  <1>2. SendCounters(e, q, t, out, acks)
    BY DEF EndInv, SendCounters, Counted, Processed
  <1>3. ReceiveCounters(e, q, t, b, in)
    <2>1. /\ s.rx_received = 0 \/ s.rx_received < p.recv_pkt_num
          /\ s.rx_state = "DATA" => s.rx_received < p.recv_pkt_num
          /\ a.rx_done => Frames(Other(e)) <= in
      BY DEF EndInv, ReceiveCounters
    <2>2. q.recv_pkt_num = p.recv_pkt_num + 1 /\ q.recv_pkt_num <= in
      BY <1>0 DEF Counted
    <2>3. /\ t.rx_received = 0 \/ t.rx_received < q.recv_pkt_num
          /\ t.rx_state = "DATA" => t.rx_received < q.recv_pkt_num
      BY <1>0, <2>1, <2>2 DEF Processed
    <2>4. t.rx_state = "DONE" /\ s.rx_state = "DATA" => Frames(Other(e)) <= in
      <3>1. t.rx_state = "DONE" /\ s.rx_state = "DATA"
              => t.rx_received = Chunks[Other(e)] /\ t.rx_received < q.recv_pkt_num
        BY <1>0, <2>1, <2>2 DEF Processed
      <3> QED BY <1>0, <2>2, <3>1
    <2>5. b.rx_done => Frames(Other(e)) <= in
      BY <2>1, <2>4 DEF ReportedRx
    <2> QED BY <2>2, <2>3, <2>5 DEF ReceiveCounters
  <1>4. Attached(e, q, t, b)
    <2>1. s.rx_state \in {"WAIT", "DATA"} => a.established
      BY NewPeerFields DEF EndInv, Attached
    <2>2. t # NoFile => a.established
      BY <2>1 DEF EndInv, Attached, Processed
    <2>3. /\ t.tx_state = "ACTIVE" => s.tx_state = "ACTIVE"
          /\ t.tx_offset = s.tx_offset
      BY DEF Processed
    <2>4. /\ b.established = a.established
          /\ b.tx_done \/ b.rx_done => a.established
      BY <2>1 DEF EndInv, Attached, ReportedRx
    <2>5. /\ q.state = p.state /\ q.fill_fn = p.fill_fn
          /\ q.fill_done = p.fill_done
      BY DEF Counted
    <2> QED BY <2>2, <2>3, <2>4, <2>5, Zenon DEF EndInv, Attached
  <1> QED BY <1>1, <1>2, <1>3, <1>4 DEF EndInv

\* The daemon when it received it.
LEMMA CountedClient ==
  ASSUME NEW p, NEW s, NEW a, NEW q, NEW t, NEW b,
         NEW out \in Nat, NEW acks \in Nat, NEW in \in Nat,
         EndInv("client", p, s, a, out, acks, in),
         p.state \in {"ESTABLISHED", "CLOSING"},
         Counted(p, q), Processed("client", s, t), ReportedRx(s, t, a, b),
         OneSession(p, s, a, out)
  PROVE  OneSession(q, t, b, out)
  <1>1. /\ q.state = p.state /\ q.send_pkt_num = p.send_pkt_num
        /\ b.established = a.established /\ b.tx_done = a.tx_done
    BY DEF Counted, ReportedRx
  <1>2. s.rx_state \in {"WAIT", "DATA"} => a.established /\ ~a.rx_done
    BY NewPeerFields DEF EndInv, Attached, OneSession
  <1>3. /\ t.tx_state = "ACTIVE" => s.tx_state = "ACTIVE"
        /\ t.rx_state \in {"WAIT", "DATA"} => s.rx_state \in {"WAIT", "DATA"}
    BY DEF Processed
  <1>4. t.rx_state \in {"WAIT", "DATA"} => ~b.rx_done
    BY <1>2, <1>3 DEF ReportedRx
  <1>5. b.failed => a.established
    BY <1>2 DEF ReportedRx, OneSession
  <1>6. b.failed => OneIsLost(t, b)
    <2>1. CASE a.failed /\ ~a.tx_done /\ s.tx_state # "ACTIVE"
      BY <2>1, <1>1, <1>3 DEF OneIsLost
    <2>2. CASE ~a.rx_done /\ s.rx_state \notin {"WAIT", "DATA"}
      BY <2>2, <1>3 DEF OneIsLost, ReportedRx
    <2>3. CASE /\ s.rx_state \in {"WAIT", "DATA"}
               /\ t.rx_state \in {"FAILED", "DONE"}
               /\ b.rx_done => a.rx_done
      BY <2>3, <1>2 DEF OneIsLost
    <2> QED BY <2>1, <2>2, <2>3, <1>5 DEF ReportedRx, OneSession, OneIsLost
  <1> QED BY <1>1, <1>3, <1>4, <1>5, <1>6 DEF OneSession

-----------------------------------------------------------------------------
(***************************************************************************)
(* The pump.                                                               *)
(***************************************************************************)

\* What the fill callback may do: nothing, fail, offer a frame, which is
\* queued while the session is established, or say that there are no more.
Filled(e, p, s, q, t) ==
  /\ q \in FillpPeer
  /\ t \in StreamFile
  /\ q.state = p.state
  /\ q.fill_fn = p.fill_fn
  /\ q.acked = p.acked
  /\ q.recv_pkt_num = p.recv_pkt_num
  /\ q.pending_fin = p.pending_fin
  /\ t.rx_received = s.rx_received
  /\ \/ q = p /\ t = s
     \/ /\ q = p /\ s.tx_state = "ACTIVE"
        /\ t.tx_offset = s.tx_offset
        /\ t.tx_state = "FAILED"
        /\ t.rx_state = IF s.rx_state \in {"WAIT", "DATA"} THEN "FAILED"
                                                           ELSE s.rx_state
     \/ /\ s.tx_state = "ACTIVE" /\ s.tx_offset < Frames(e)
        /\ t.tx_offset = s.tx_offset + 1
        /\ t.tx_state = "ACTIVE"
        /\ t.rx_state = s.rx_state
        /\ p.fill_fn = TRUE
        /\ q.fill_done = FALSE
        /\ q.send_pkt_num = IF p.state = "ESTABLISHED" THEN p.send_pkt_num + 1
                                                       ELSE p.send_pkt_num
     \/ /\ t = s
        /\ p.fill_fn = TRUE
        /\ q.send_pkt_num = p.send_pkt_num
        /\ q.fill_done => \/ s.tx_state = "DONE"
                          \/ s.tx_state = "ACTIVE" /\ s.tx_offset = Frames(e)

\* It does one of these.
LEMMA FillFills ==
  ASSUME NEW e \in Ends, NEW p \in FillpPeer, NEW s \in StreamFile,
         NEW fill \in {"ok", "skip", "error"},
         fill = "error" => s.tx_state = "ACTIVE",
         s.tx_offset <= Frames(e)
  PROVE  Filled(e, p, s, FilledPeer(e, p, s, fill), FilledFile(e, p, s, fill))
  <1> USE EndsFacts
  <1>0. /\ s.tx_state \in {"IDLE", "ACTIVE", "DONE", "FAILED"}
        /\ s.rx_state \in {"NONE", "WAIT", "DATA", "DONE", "FAILED"}
        /\ s.tx_offset \in Nat /\ s.rx_received \in Nat
    BY FileFields DEF StreamFile
  <1>1. CASE ~Asked(p, fill)
    <2>1. FilledPeer(e, p, s, fill) = p /\ FilledFile(e, p, s, fill) = s
      BY <1>1 DEF FilledPeer, FilledFile
    <2> QED BY <2>1 DEF Filled
  <1>2. CASE Asked(p, fill) /\ fill = "error"
    <2>1. FilledPeer(e, p, s, fill) = p /\ FilledFile(e, p, s, fill) = sf_fail(s)
      BY <1>2 DEF FilledPeer, FilledFile
    <2>2. sf_fail(s) \in StreamFile
      BY <1>0 DEF sf_fail, StreamFile
    <2>3. /\ sf_fail(s).tx_state = "FAILED"
          /\ sf_fail(s).tx_offset = s.tx_offset
          /\ sf_fail(s).rx_received = s.rx_received
          /\ sf_fail(s).rx_state = IF s.rx_state \in {"WAIT", "DATA"}
                                   THEN "FAILED" ELSE s.rx_state
      BY <1>2 DEF sf_fail, StreamFile
    <2> QED BY <1>2, <2>1, <2>2, <2>3 DEF Filled
  <1>3. CASE Asked(p, fill) /\ fill = "ok"
    <2> DEFINE n == IF HasFrame(e, s) /\ p.state = "ESTABLISHED"
                    THEN p.send_pkt_num + 1 ELSE p.send_pkt_num
               d == p.fill_done \/ s.tx_state = "DONE"
                      \/ (s.tx_state = "ACTIVE" /\ s.tx_offset = Frames(e))
               q == [p EXCEPT !.send_pkt_num = n, !.fill_done = d]
    <2>1. FilledPeer(e, p, s, fill) = q
      BY <1>3 DEF FilledPeer
    <2>2. p.fill_fn = TRUE /\ p.fill_done = FALSE
      BY <1>3, PeerFields DEF Asked
    <2>3. n \in Nat
      BY PeerFields
    <2>4. d \in BOOLEAN
      BY PeerFields
    <2>5. d => s.tx_state = "DONE" \/ (s.tx_state = "ACTIVE" /\ s.tx_offset = Frames(e))
      BY <2>2
    <2>6. /\ HasFrame(e, s) => n = IF p.state = "ESTABLISHED" THEN p.send_pkt_num + 1
                                                              ELSE p.send_pkt_num
          /\ ~HasFrame(e, s) => n = p.send_pkt_num
      OBVIOUS
    <2> HIDE DEF n, d
    <2>7. /\ q \in FillpPeer /\ q.send_pkt_num = n /\ q.fill_done = d
          /\ q.state = p.state /\ q.fill_fn = p.fill_fn /\ q.acked = p.acked
          /\ q.recv_pkt_num = p.recv_pkt_num /\ q.pending_fin = p.pending_fin
      BY <2>3, <2>4 DEF FillpPeer
    <2> HIDE DEF q
    <2>8. CASE HasFrame(e, s)
      <3> DEFINE t == [s EXCEPT !.tx_offset = s.tx_offset + 1]
      <3>1. FilledFile(e, p, s, fill) = t
        BY <1>3, <2>8 DEF FilledFile
      <3>2. /\ t \in StreamFile /\ t.tx_offset = s.tx_offset + 1
            /\ t.tx_state = s.tx_state /\ t.rx_state = s.rx_state
            /\ t.rx_received = s.rx_received
        BY <1>0 DEF StreamFile
      <3>3. /\ s.tx_state = "ACTIVE" /\ s.tx_offset < Frames(e)
        BY <2>8 DEF HasFrame
      <3>4. d = FALSE
        BY <2>4, <2>5, <3>3, <1>0
      <3> HIDE DEF t
      <3> QED BY <2>1, <2>2, <2>6, <2>7, <2>8, <3>1, <3>2, <3>3, <3>4 DEF Filled
    <2>9. CASE ~HasFrame(e, s)
      <3>1. FilledFile(e, p, s, fill) = s
        BY <1>3, <2>9 DEF FilledFile
      <3> QED BY <2>1, <2>2, <2>5, <2>6, <2>7, <2>9, <3>1 DEF Filled
    <2> QED BY <2>8, <2>9
  <1> QED BY <1>1, <1>2, <1>3 DEF Asked

\* sf_on_tx_complete after the fill callback has made t of the file s: u and b
\* are the file and the flags when the sending direction has been reported.
ReportedTx(q, s, t, u, a, b) ==
  /\ u \in StreamFile
  /\ b \in AppFlags
  /\ u.tx_offset = t.tx_offset
  /\ u.rx_state = t.rx_state
  /\ u.rx_received = t.rx_received
  /\ b.established = a.established
  /\ b.rx_done = a.rx_done
  /\ b.failed = (a.failed \/ (t.tx_state = "FAILED" /\ s.tx_state = "ACTIVE"))
  /\ \/ u = t /\ b.tx_done = a.tx_done
     \/ /\ q.fill_done = TRUE /\ q.acked = q.send_pkt_num
        /\ t.tx_state = "ACTIVE" /\ u.tx_state = "DONE"
        /\ b.tx_done = TRUE

\* The larger of two numbers.
LEMMA Max2Fact ==
  ASSUME NEW m \in Nat, NEW n \in Nat
  PROVE  /\ Max2(m, n) \in Nat /\ m <= Max2(m, n) /\ n <= Max2(m, n)
         /\ Max2(m, n) = m \/ Max2(m, n) = n
  BY DEF Max2

\* An end that has pumped.
LEMMA PumpEnd ==
  ASSUME NEW e \in Ends, NEW p, NEW s, NEW a, NEW q, NEW t, NEW u, NEW b, NEW r,
         NEW out \in Nat, NEW acks \in Nat, NEW in \in Nat,
         EndInv(e, p, s, a, out, acks, in),
         p.state \in {"ESTABLISHED", "CLOSING"},
         Filled(e, p, s, q, t), ReportedTx(q, s, t, u, a, b), Kept(q, r)
  PROVE  EndInv(e, r, u, b, Max2(out, q.send_pkt_num), acks, in)
  <1> USE EndsFacts
  <1>0. /\ p.send_pkt_num \in Nat /\ p.acked \in Nat /\ p.recv_pkt_num \in Nat
        /\ s.tx_offset \in Nat /\ q.send_pkt_num \in Nat /\ t.tx_offset \in Nat
    BY PeerFields, FileFields DEF EndInv, EndTypes, Filled
  <1>1. /\ p.send_pkt_num <= q.send_pkt_num
        /\ q.send_pkt_num <= t.tx_offset
        /\ t.tx_offset <= Frames(e)
        /\ q.acked = p.acked
    BY <1>0 DEF EndInv, SendCounters, Filled
  <1>2. EndTypes(q, u, b)
    BY DEF EndTypes, Filled, ReportedTx
  <1> DEFINE out2 == Max2(out, q.send_pkt_num)
  <1>3. out2 \in Nat /\ q.send_pkt_num <= out2 /\ out2 <= Frames(e)
    <2>1. out <= Frames(e)
      BY DEF EndInv, SendCounters
    <2>2. q.send_pkt_num <= Frames(e)
      BY <1>0, <1>1
    <2> QED BY <1>0, <2>1, <2>2, Max2Fact
  <1> HIDE DEF out2
  <1>4. SendCounters(e, q, u, out2, acks)
    <2>1. u.tx_offset = t.tx_offset
      BY DEF ReportedTx
    <2> QED BY <1>0, <1>1, <1>3, <2>1 DEF EndInv, SendCounters
  <1>5. ReceiveCounters(e, q, u, b, in)
    <2>1. /\ u.rx_received = s.rx_received /\ q.recv_pkt_num = p.recv_pkt_num
          /\ u.rx_state = "DATA" => s.rx_state = "DATA"
          /\ b.rx_done = a.rx_done
      BY DEF Filled, ReportedTx
    <2> QED BY <2>1 DEF EndInv, ReceiveCounters
  <1>6. Attached(e, q, u, b)
    <2>1. s.tx_state = "ACTIVE" => a.established
      BY NewPeerFields DEF EndInv, Attached
    <2>2. p.fill_fn = q.fill_fn /\ (p.fill_fn => a.established)
      BY DEF EndInv, Attached, Filled
    <2>3. q.fill_done => q.fill_fn
      BY DEF EndInv, Attached, Filled
    <2>4. t # NoFile => a.established
      BY <2>1, <2>2 DEF EndInv, Attached, Filled
    <2>5. u # NoFile => a.established
      BY <2>2, <2>3, <2>4 DEF ReportedTx
    <2>6. q.fill_done /\ t.tx_state = "ACTIVE" => t.tx_offset = Frames(e)
      BY DEF EndInv, Attached, Filled
    <2>7. q.fill_done /\ u.tx_state = "ACTIVE" => u.tx_offset = Frames(e)
      BY <2>6 DEF ReportedTx
    <2>8. b.tx_done \/ b.rx_done => a.established
      BY <2>2, <2>3 DEF EndInv, Attached, ReportedTx
    <2>9. /\ q.state = p.state /\ b.established = a.established
      BY DEF Filled, ReportedTx
    <2>10. p.state = "ESTABLISHED" => a.established
      BY DEF EndInv, Attached
    <2> QED BY <2>2, <2>3, <2>5, <2>7, <2>8, <2>9, <2>10 DEF Attached
  <1>7. EndInv(e, q, u, b, out2, acks, in)
    BY <1>2, <1>4, <1>5, <1>6 DEF EndInv
  <1> QED BY <1>7, KeptEnd DEF out2

\* The daemon when it has pumped.
LEMMA PumpClient ==
  ASSUME NEW p, NEW s, NEW a, NEW q, NEW t, NEW u, NEW b, NEW r,
         NEW out \in Nat, NEW acks \in Nat, NEW in \in Nat,
         EndInv("client", p, s, a, out, acks, in),
         p.state \in {"ESTABLISHED", "CLOSING"},
         Filled("client", p, s, q, t), ReportedTx(q, s, t, u, a, b), Kept(q, r),
         OneSession(p, s, a, out)
  PROVE  OneSession(r, u, b, Max2(out, q.send_pkt_num))
  <1> USE EndsFacts
  <1>0. /\ p.send_pkt_num \in Nat /\ q.send_pkt_num \in Nat
        /\ s.tx_state = "ACTIVE" => a.established /\ ~a.tx_done
        /\ s.rx_state \in {"WAIT", "DATA"} => ~a.rx_done
    BY PeerFields, NewPeerFields
       DEF EndInv, EndTypes, Filled, Attached, OneSession
  <1>1. /\ r.state = p.state \/ r.state = "CLOSING"
        /\ r.send_pkt_num = q.send_pkt_num
        /\ b.established = a.established /\ b.rx_done = a.rx_done
    BY DEF Kept, Filled, ReportedTx
  <1>2. a.established => Max2(out, q.send_pkt_num) = q.send_pkt_num
    <2>1. a.established => p.send_pkt_num = out
      BY DEF OneSession
    <2>2. p.send_pkt_num <= q.send_pkt_num
      BY <1>0 DEF Filled
    <2> QED BY <1>0, <2>1, <2>2 DEF Max2
  <1>3. ~a.established => Max2(out, q.send_pkt_num) = 0
    <2>1. ~a.established => q = p /\ out = 0
      BY <1>0 DEF Filled, EndInv, Attached, OneSession
    <2>2. p.send_pkt_num <= out
      BY DEF EndInv, SendCounters
    <2> QED BY <1>0, <2>1, <2>2 DEF Max2
  <1>4. /\ t.tx_state = "ACTIVE" => s.tx_state = "ACTIVE"
        /\ t.rx_state \in {"WAIT", "DATA"} => s.rx_state \in {"WAIT", "DATA"}
        /\ t.tx_state = "FAILED" /\ s.tx_state = "ACTIVE" => u = t
        /\ s.tx_state # "ACTIVE" => t.tx_state = s.tx_state
    BY DEF Filled, ReportedTx
  <1>5. /\ u.tx_state = "ACTIVE" => ~b.tx_done
        /\ u.rx_state \in {"WAIT", "DATA"} => ~b.rx_done
    BY <1>0, <1>1, <1>4 DEF ReportedTx
  <1>6. b.failed => b.established
    BY <1>0, <1>1 DEF ReportedTx, OneSession
  <1>7. b.failed => OneIsLost(u, b)
    <2>1. CASE ~a.tx_done /\ s.tx_state # "ACTIVE"
      BY <2>1, <1>4 DEF OneIsLost, ReportedTx
    <2>2. CASE ~a.rx_done /\ s.rx_state \notin {"WAIT", "DATA"}
      BY <2>2, <1>1, <1>4 DEF OneIsLost, ReportedTx
    <2>3. CASE t.tx_state = "FAILED" /\ s.tx_state = "ACTIVE"
      BY <2>3, <1>0, <1>4 DEF OneIsLost, ReportedTx
    <2> QED BY <2>1, <2>2, <2>3, <1>1, <1>6 DEF ReportedTx, OneSession, OneIsLost
  <1> QED BY <1>1, <1>2, <1>3, <1>5, <1>6, <1>7 DEF OneSession

\* on_stream_closed changes one flag.
LEMMA ClosedFields ==
  ASSUME NEW b \in AppFlags
  PROVE  /\ ClosedFlags(b) \in AppFlags
         /\ ClosedFlags(b).established = b.established
         /\ ClosedFlags(b).tx_done = b.tx_done
         /\ ClosedFlags(b).rx_done = b.rx_done
         /\ ClosedFlags(b).failed =
              (b.failed \/ (b.established /\ ~(b.tx_done /\ b.rx_done)))
  BY DEF ClosedFlags, AppFlags

\* A session that ends with a verdict keeps it.
LEMMA ClosedClient ==
  ASSUME NEW r, NEW u, NEW b \in AppFlags, NEW out,
         OneSession(r, u, b, out)
  PROVE  /\ b.failed => ClosedFlags(b).failed
         /\ Retries("client", b) => ~ClosedFlags(b).failed
         /\ OneSession(NewPeer("NONE"), NoFile, ClosedFlags(b), out)
  <1>1. /\ ClosedFlags(b) \in AppFlags
        /\ ClosedFlags(b).established = b.established
        /\ ClosedFlags(b).tx_done = b.tx_done
        /\ ClosedFlags(b).rx_done = b.rx_done
        /\ ClosedFlags(b).failed =
             (b.failed \/ (b.established /\ ~(b.tx_done /\ b.rx_done)))
    BY ClosedFields
  <1>2. /\ NewPeer("NONE").state = "NONE"
        /\ NoFile.tx_state = "IDLE" /\ NoFile.rx_state = "NONE"
    BY NewPeerFields
  <1>3. ~b.established => out = 0
    BY DEF OneSession
  <1>4. b.failed /\ b.established => OneIsLost(NoFile, ClosedFlags(b))
    BY <1>1, <1>2 DEF OneSession, OneIsLost
  <1>5. ~(b.tx_done /\ b.rx_done) => OneIsLost(NoFile, ClosedFlags(b))
    BY <1>1, <1>2 DEF OneIsLost
  <1>6. OneSession(NewPeer("NONE"), NoFile, ClosedFlags(b), out)
    BY <1>1, <1>2, <1>3, <1>4, <1>5 DEF OneSession
  <1> QED BY <1>1, <1>6 DEF Retries

-----------------------------------------------------------------------------
(***************************************************************************)
(* What the two long handlers do to the state, field by field.             *)
(***************************************************************************)

\* The daemon's close sends FIN, so does the answer of a drained peer.
FinsSent(e, q, r, b) ==
  /\ net \subseteq net'
  /\ net' \subseteq net \cup {Fin(Other(e))}
  /\ Fin(Other(e)) \in net' =>
       \/ Fin(Other(e)) \in net
       \/ e = "client" /\ Done(b) /\ r.state = "CLOSING"
       \/ q.pending_fin /\ q.fill_done

\* A pump: q and t are the peer and the file after the fill callback, r, u
\* and b the peer, the file and the flags at the end.
PumpResult(e, q, t, r, u, b) ==
  /\ Filled(e, peer[e], sf[e], q, t)
  /\ ReportedTx(q, sf[e], t, u, app[e], b)
  /\ Kept(q, r)
  /\ r.pending_fin => q.pending_fin
  /\ \/ r.state = q.state
     \/ e = "client" /\ Done(b) /\ b.established
  /\ sent' = [sent EXCEPT ![e] = Max2(@, q.send_pkt_num)]
  /\ \/ packed' = packed
     \/ packed' = [packed EXCEPT ![Other(e)] = Max2(@, q.recv_pkt_num)]
  /\ FinsSent(e, q, r, b)
  /\ \/ /\ r.state = "CLOSING"
        /\ peer' = [peer EXCEPT ![e] = NewPeer("NONE")]
        /\ sf' = [sf EXCEPT ![e] = NoFile]
        /\ app' = [app EXCEPT ![e] = ClosedFlags(b)]
        /\ starting' = (starting \/ Retries(e, b))
        /\ close_queued' = [close_queued EXCEPT ![e] =
                              IF @ = "queued" THEN "dangling" ELSE @]
        /\ removing' = (removing \/ e = "client")
     \/ /\ peer' = [peer EXCEPT ![e] = r]
        /\ sf' = [sf EXCEPT ![e] = u]
        /\ app' = [app EXCEPT ![e] = b]
        /\ UNCHANGED <<starting, close_queued, removing>>
  /\ UNCHANGED stream_attempts

\* That is what fp_on_tick does for an established or closing peer.
LEMMA PumpDoes ==
  ASSUME NEW e \in Ends, NEW fill \in {"ok", "skip", "error"},
         NEW due \in BOOLEAN, NEW expired \in BOOLEAN,
         StateTypes, EndOK(e), Pump(e, fill, due, expired)
  PROVE  \E q, t, r, u, b : PumpResult(e, q, t, r, u, b)
  <1> DEFINE p0 == peer[e]
             s0 == sf[e]
             a0 == app[e]
             s1 == FilledFile(e, p0, s0, fill)
             p1 == FilledPeer(e, p0, s0, fill)
             notify == TxDrained(p1) /\ ~p1.tx_notified
             ok == notify /\ s1.tx_state = "ACTIVE"
             s2 == IF ok THEN [s1 EXCEPT !.tx_state = "DONE"] ELSE s1
             a2 == [a0 EXCEPT
                      !.tx_done = @ \/ ok,
                      !.failed = @ \/ (s1.tx_state = "FAILED"
                                       /\ s0.tx_state = "ACTIVE")]
             closes == ok /\ ClosesOnDone(e, a2)
             c1 == IF closes THEN Closing(p1) ELSE p1
             p2 == [c1 EXCEPT !.tx_notified = @ \/ notify]
             reply == p2.pending_fin /\ TxDrained(p2)
             p3 == [p2 EXCEPT !.unpacked = @ /\ ~due,
                              !.pending_fin = @ /\ ~reply]
             final == p3.state = "CLOSING" /\ (CloseDrained(p3) \/ expired)
  <1>1. /\ p0.state \in {"ESTABLISHED", "CLOSING"}
        /\ fill = "error" => e \in Faulty /\ s0.tx_state = "ACTIVE"
        /\ sent' = [sent EXCEPT ![e] = Max2(@, p1.send_pkt_num)]
        /\ packed' = IF p2.unpacked /\ due
                     THEN [packed EXCEPT ![Other(e)] = Max2(@, p2.recv_pkt_num)]
                     ELSE packed
        /\ net' = net \cup ((IF closes THEN CloseFin(p1, e) ELSE {})
                            \cup (IF reply THEN {Msg("FIN", Other(e))} ELSE {}))
        /\ IF final
           THEN /\ peer' = [peer EXCEPT ![e] = NewPeer("NONE")]
                /\ sf' = [sf EXCEPT ![e] = NoFile]
                /\ app' = [app EXCEPT ![e] = ClosedFlags(a2)]
                /\ starting' = (starting \/ Retries(e, a2))
                /\ close_queued' = [close_queued EXCEPT ![e] =
                                      IF @ = "queued" THEN "dangling" ELSE @]
                /\ removing' = (removing \/ e = "client")
           ELSE /\ peer' = [peer EXCEPT ![e] = p3]
                /\ sf' = [sf EXCEPT ![e] = s2]
                /\ app' = [app EXCEPT ![e] = a2]
                /\ UNCHANGED <<starting, close_queued, removing>>
        /\ UNCHANGED stream_attempts
    BY DEF Pump, Send
  <1>2. /\ p0 \in FillpPeer /\ s0 \in StreamFile /\ a0 \in AppFlags
        /\ s0.tx_offset <= Frames(e)
    BY DEF StateTypes, EndOK, EndInv, SendCounters
  <1>3. Filled(e, p0, s0, p1, s1)
    BY <1>1, <1>2, FillFills
  <1>4. p1 \in FillpPeer /\ s1 \in StreamFile
    BY <1>3 DEF Filled
  <1> HIDE DEF p0, s0, a0, p1, s1
  <1>5. notify \in BOOLEAN /\ ok \in BOOLEAN
    BY <1>4 DEF TxDrained
  <1>6. ok => p1.fill_done /\ p1.acked = p1.send_pkt_num /\ s1.tx_state = "ACTIVE"
    BY DEF TxDrained
  <1> HIDE DEF notify, ok
  <1>7. /\ s2 \in StreamFile
        /\ s2.tx_offset = s1.tx_offset /\ s2.rx_state = s1.rx_state
        /\ s2.rx_received = s1.rx_received
        /\ ok => s2.tx_state = "DONE"
        /\ ~ok => s2 = s1
    BY <1>4, <1>5 DEF StreamFile
  <1> DEFINE lost == s1.tx_state = "FAILED" /\ s0.tx_state = "ACTIVE"
  <1>8. /\ a2 \in AppFlags
        /\ a2.established = a0.established /\ a2.rx_done = a0.rx_done
        /\ a2.tx_done = (a0.tx_done \/ ok)
        /\ a2.failed = (a0.failed \/ lost)
    <2>1. lost \in BOOLEAN
      OBVIOUS
    <2>2. a2 = [a0 EXCEPT !.tx_done = a0.tx_done \/ ok, !.failed = a0.failed \/ lost]
      BY <1>2
    <2> HIDE DEF lost, a2
    <2> QED BY <1>2, <1>5, <2>1, <2>2 DEF AppFlags
  <1> HIDE DEF s2, a2
  <1>9. closes => e = "client" /\ Done(a2) /\ ok
    BY DEF ClosesOnDone, Done
  <1>10. closes \in BOOLEAN
    BY <1>5 DEF ClosesOnDone
  <1> HIDE DEF closes
  <1> p1.state \in {"ESTABLISHED", "CLOSING"}
    BY <1>1, <1>3 DEF Filled
  <1>11. /\ Kept(p1, c1)
         /\ c1.pending_fin = p1.pending_fin
         /\ ~closes => c1.state = p1.state
         /\ closes => c1.state = "CLOSING"
    <2>1. CASE closes
      BY <1>4, <2>1, ClosingKeeps DEF Closing, FillpPeer
    <2>2. CASE ~closes
      BY <1>4, <2>2 DEF Kept
    <2> QED BY <1>10, <2>1, <2>2
  <1>12. c1 \in FillpPeer
    BY <1>11 DEF Kept
  <1> HIDE DEF c1
  <1>13. /\ p2 \in FillpPeer /\ p2.state = c1.state
         /\ p2.fill_fn = c1.fill_fn /\ p2.fill_done = c1.fill_done
         /\ p2.send_pkt_num = c1.send_pkt_num /\ p2.acked = c1.acked
         /\ p2.recv_pkt_num = c1.recv_pkt_num
         /\ p2.pending_fin = c1.pending_fin
    <2>1. p2 = [c1 EXCEPT !.tx_notified = c1.tx_notified \/ notify]
      BY <1>12
    <2>2. c1.tx_notified \/ notify \in BOOLEAN
      BY <1>12, <1>5, PeerFields
    <2> QED BY <1>12, <2>1, <2>2 DEF FillpPeer
  <1> HIDE DEF p2
  <1>14. reply \in BOOLEAN /\ (reply => p2.pending_fin /\ p2.fill_done)
    BY <1>13, PeerFields DEF TxDrained
  <1> HIDE DEF reply
  <1>15. /\ p3 \in FillpPeer /\ p3.state = p2.state
         /\ p3.fill_fn = p2.fill_fn /\ p3.fill_done = p2.fill_done
         /\ p3.send_pkt_num = p2.send_pkt_num /\ p3.acked = p2.acked
         /\ p3.recv_pkt_num = p2.recv_pkt_num
         /\ p3.pending_fin => p2.pending_fin
    <2> DEFINE x == p2.unpacked /\ ~due
               y == p2.pending_fin /\ ~reply
    <2>1. x \in BOOLEAN /\ y \in BOOLEAN /\ (y => p2.pending_fin)
      BY <1>13, <1>14, PeerFields
    <2>2. p3 = [p2 EXCEPT !.unpacked = x, !.pending_fin = y]
      BY <1>13
    <2> HIDE DEF x, y, p3
    <2>3. p3.pending_fin = y
      BY <1>13, <2>2 DEF FillpPeer
    <2> QED BY <1>13, <2>1, <2>2, <2>3 DEF FillpPeer
  <1>16. final => p3.state = "CLOSING"
    OBVIOUS
  <1>17. final \in BOOLEAN
    BY Zenon
  <1> HIDE DEF p3, final
  <1>18. ReportedTx(p1, s0, s1, s2, a0, a2)
    <2>1. lost = (s1.tx_state = "FAILED" /\ s0.tx_state = "ACTIVE")
      OBVIOUS
    <2> HIDE DEF lost
    <2>2. CASE ok
      BY <1>4, <1>6, <1>7, <1>8, <2>1, <2>2, PeerFields DEF ReportedTx
    <2>3. CASE ~ok
      <3>1. a2.tx_done = a0.tx_done
        BY <1>2, <1>8, <2>3 DEF AppFlags
      <3> QED BY <1>7, <1>8, <2>1, <2>3, <3>1 DEF ReportedTx
    <2> QED BY <2>2, <2>3
  <1>19. Kept(p1, p3)
    BY <1>11, <1>13, <1>15 DEF Kept
  <1>20. p3.pending_fin => p1.pending_fin
    BY <1>11, <1>13, <1>15
  <1>21. p3.state = p1.state \/ (e = "client" /\ Done(a2) /\ a2.established)
    <2>1. closes => a2.established
      <3>1. ok => p0.fill_fn
        BY <1>2, <1>3, <1>6 DEF p0, s0, a0, Filled, EndOK, EndInv, Attached
      <3>2. p0.fill_fn => a0.established
        BY DEF p0, s0, a0, EndOK, EndInv, Attached
      <3> QED BY <1>8, <1>9, <3>1, <3>2
    <2> QED BY <1>9, <1>11, <1>13, <1>15, <2>1
  <1>22. FinsSent(e, p1, p3, a2)
    <2>1. CloseFin(p1, e) \subseteq {Fin(Other(e))}
      BY DEF CloseFin, Fin
    <2>2. reply => p1.pending_fin /\ p1.fill_done
      BY <1>11, <1>13, <1>14 DEF Kept
    <2>3. net' = net \cup ((IF closes THEN CloseFin(p1, e) ELSE {})
                          \cup (IF reply THEN {Fin(Other(e))} ELSE {}))
      BY <1>1 DEF Fin
    <2>4. net \subseteq net' /\ net' \subseteq net \cup {Fin(Other(e))}
      BY <2>1, <2>3
    <2>5. Fin(Other(e)) \in net' => Fin(Other(e)) \in net \/ closes \/ reply
      BY <2>3
    <2>6. closes => p3.state = "CLOSING"
      BY <1>11, <1>13, <1>15
    <2> QED BY <1>9, <2>2, <2>4, <2>5, <2>6 DEF FinsSent
  <1>23. p2.recv_pkt_num = p1.recv_pkt_num
    BY <1>11, <1>13 DEF Kept
  <1>24. \/ packed' = packed
         \/ packed' = [packed EXCEPT ![Other(e)] = Max2(@, p1.recv_pkt_num)]
    BY <1>1, <1>23
  <1>25. PumpResult(e, p1, s1, p3, s2, a2)
    BY <1>1, <1>3, <1>16, <1>17, <1>18, <1>19, <1>20, <1>21, <1>22, <1>24
       DEF PumpResult, p0, s0, a0
  <1> QED BY <1>25

\* A packet: q is the peer that has counted it, t the file and b the flags
\* after it, r the peer at the end.
DataResult(e, q, r, t, b) ==
  /\ peer[e].state \in {"ESTABLISHED", "CLOSING"}
  /\ peer[e].recv_pkt_num < sent[Other(e)]
  /\ Counted(peer[e], q)
  /\ Processed(e, sf[e], t)
  /\ ReportedRx(sf[e], t, app[e], b)
  /\ Kept(q, r)
  /\ r.pending_fin = q.pending_fin
  /\ \/ r.state = q.state
     \/ e = "client" /\ Done(b) /\ b.established
  /\ \/ packed' = packed
     \/ packed' = [packed EXCEPT ![Other(e)] = Max2(@, q.recv_pkt_num)]
  /\ FinsSent(e, q, r, b)
  /\ peer' = [peer EXCEPT ![e] = r]
  /\ sf' = [sf EXCEPT ![e] = t]
  /\ app' = [app EXCEPT ![e] = b]
  /\ UNCHANGED <<mainVars, sent, close_queued, removing>>

\* That is what fp_on_data does for the next packet in order.
LEMMA DataDoes ==
  ASSUME NEW e \in Ends, NEW outcome \in {"ok", "error", "mismatch"},
         NEW flush \in BOOLEAN,
         StateTypes, EndOK(e), fp_on_data(e, outcome, flush)
  PROVE  \E q, r, t, b : DataResult(e, q, r, t, b)
  <1> DEFINE p == peer[e]
             s == sf[e]
             a == app[e]
             s1 == Received(e, s, outcome)
             finished == s1.rx_state = "DONE" /\ s.rx_state # "DONE"
             bad == \/ s1.rx_state = "FAILED" /\ s.rx_state # "FAILED"
                    \/ finished /\ outcome = "mismatch"
             a1 == [a EXCEPT !.rx_done = @ \/ (finished /\ ~bad),
                             !.failed = @ \/ bad]
             closes == finished /\ ~bad /\ ClosesOnDone(e, a1)
             p1 == [p EXCEPT !.recv_pkt_num = @ + 1, !.unpacked = ~flush]
             r == IF closes THEN Closing(p1) ELSE p1
  <1>1. /\ p.state \in {"ESTABLISHED", "CLOSING"}
        /\ p.recv_pkt_num < sent[Other(e)]
        /\ sf' = [sf EXCEPT ![e] = s1]
        /\ app' = [app EXCEPT ![e] = a1]
        /\ peer' = [peer EXCEPT ![e] = r]
        /\ net' = net \cup (IF closes THEN CloseFin(p1, e) ELSE {})
        /\ packed' = IF flush
                     THEN [packed EXCEPT ![Other(e)] = Max2(@, p1.recv_pkt_num)]
                     ELSE packed
        /\ UNCHANGED <<mainVars, sent, close_queued, removing>>
    BY DEF fp_on_data, Send
  <1>2. p \in FillpPeer /\ s \in StreamFile /\ a \in AppFlags
    BY DEF StateTypes
  <1>3. Processed(e, s, s1)
    BY <1>2, ReceivedProcesses
  <1> HIDE DEF p, s, a, s1
  <1>4. finished \in BOOLEAN /\ bad \in BOOLEAN
    BY Zenon
  <1>5. finished => s1.rx_state = "DONE" /\ s.rx_state = "DATA"
    BY <1>3 DEF Processed
  <1>6. bad => s.rx_state \in {"WAIT", "DATA"} /\ s1.rx_state \in {"FAILED", "DONE"}
    BY <1>3, <1>5 DEF Processed
  <1> HIDE DEF finished, bad
  <1>7. /\ a1 \in AppFlags
        /\ a1.established = a.established /\ a1.tx_done = a.tx_done
        /\ a1.rx_done = (a.rx_done \/ (finished /\ ~bad))
        /\ a1.failed = (a.failed \/ bad)
    <2> DEFINE x == a.rx_done \/ (finished /\ ~bad)
               y == a.failed \/ bad
    <2>1. a1 = [a EXCEPT !.rx_done = x, !.failed = y]
      BY <1>2
    <2>2. x \in BOOLEAN /\ y \in BOOLEAN
      BY <1>2, <1>4 DEF AppFlags
    <2> HIDE DEF x, y, a1
    <2>3. /\ a1 \in AppFlags
          /\ a1.established = a.established /\ a1.tx_done = a.tx_done
          /\ a1.rx_done = x /\ a1.failed = y
      BY <1>2, <2>1, <2>2 DEF AppFlags
    <2> QED BY <2>3 DEF x, y
  <1> HIDE DEF a1
  <1>8. ReportedRx(s, s1, a, a1)
    <2>1. a1.rx_done => a.rx_done \/ (s1.rx_state = "DONE" /\ s.rx_state = "DATA")
      BY <1>5, <1>7
    <2>2. (a.rx_done => a1.rx_done) /\ (a.failed => a1.failed)
      BY <1>7
    <2>3. a1.failed => \/ a.failed
                       \/ /\ s.rx_state \in {"WAIT", "DATA"}
                          /\ s1.rx_state \in {"FAILED", "DONE"}
                          /\ a1.rx_done => a.rx_done
      BY <1>6, <1>7
    <2> QED BY <1>7, <2>1, <2>2, <2>3 DEF ReportedRx
  <1>9. closes => e = "client" /\ Done(a1) /\ finished
    BY DEF ClosesOnDone, Done
  <1>10. closes \in BOOLEAN
    BY <1>4 DEF ClosesOnDone
  <1> HIDE DEF closes
  <1>11. Counted(p, p1)
    <2>1. p1 = [p EXCEPT !.recv_pkt_num = p.recv_pkt_num + 1, !.unpacked = ~flush]
      BY <1>2
    <2>2. p.recv_pkt_num + 1 \in Nat /\ (~flush) \in BOOLEAN
      BY <1>2, PeerFields
    <2> QED BY <1>2, <2>1, <2>2 DEF Counted, FillpPeer
  <1>12. p1 \in FillpPeer
    BY <1>11 DEF Counted
  <1> HIDE DEF p1
  <1> p1.state \in {"ESTABLISHED", "CLOSING"}
    BY <1>1, <1>11 DEF Counted
  <1>13. /\ Kept(p1, r) /\ r.pending_fin = p1.pending_fin
         /\ ~closes => r.state = p1.state
         /\ closes => r.state = "CLOSING"
    <2>1. CASE closes
      BY <1>12, <2>1, ClosingKeeps DEF Closing, FillpPeer
    <2>2. CASE ~closes
      BY <1>12, <2>2 DEF Kept
    <2> QED BY <1>10, <2>1, <2>2
  <1> HIDE DEF r
  <1>14. r.state = p1.state \/ (e = "client" /\ Done(a1) /\ a1.established)
    <2>1. finished => a.established
      BY <1>5, NewPeerFields DEF p, s, a, EndOK, EndInv, Attached
    <2> QED BY <1>7, <1>9, <1>10, <1>13, <2>1
  <1>15. FinsSent(e, p1, r, a1)
    <2>1. CloseFin(p1, e) \subseteq {Fin(Other(e))}
      BY DEF CloseFin, Fin
    <2>2. net \subseteq net' /\ net' \subseteq net \cup {Fin(Other(e))}
      BY <1>1, <2>1
    <2>3. Fin(Other(e)) \in net' => Fin(Other(e)) \in net \/ closes
      BY <1>1
    <2> QED BY <1>9, <1>13, <2>2, <2>3 DEF FinsSent
  <1>16. DataResult(e, p1, r, s1, a1)
    BY <1>1, <1>3, <1>8, <1>11, <1>13, <1>14, <1>15 DEF DataResult, p, s, a
  <1> QED BY <1>16

-----------------------------------------------------------------------------
(***************************************************************************)
(* SessionInv is inductive.                                                *)
(***************************************************************************)

\* Every message of the protocol is one.
LEMMA Messages ==
  ASSUME NEW e \in Ends,
         NEW ty \in {"CONN_REQ", "CONN_CONFIRM", "CONN_REQ_ACK",
                     "CONN_CONFIRM_ACK", "FIN"}
  PROVE  Msg(ty, e) \in Message
  BY DEF Msg, Message

\* Initially.
LEMMA SessionInit == Init => SessionInv
  <1> SUFFICES ASSUME Init PROVE SessionInv
    OBVIOUS
  <1> USE EndsFacts, NewPeerFields
  <1> DEFINE a0 == [established |-> FALSE, tx_done |-> FALSE,
                    rx_done |-> FALSE, failed |-> FALSE]
  <1>1. /\ peer = [e \in Ends |-> NewPeer("NONE")]
        /\ sf = [e \in Ends |-> NoFile]
        /\ app = [e \in Ends |-> a0]
        /\ net = {} /\ sent = [e \in Ends |-> 0] /\ packed = [e \in Ends |-> 0]
        /\ close_queued = [e \in Ends |-> "no"]
        /\ removing = FALSE /\ starting = TRUE /\ stream_attempts = 0
    BY DEF Init
  <1>2. a0 \in AppFlags /\ ~a0.established /\ ~a0.tx_done /\ ~a0.rx_done /\ ~a0.failed
    BY DEF AppFlags
  <1> HIDE DEF a0
  <1>3. NewPeer("NONE") \in FillpPeer /\ NoFile \in StreamFile
    OBVIOUS
  <1>4. StateTypes
    BY <1>1, <1>2, <1>3 DEF StateTypes
  <1>5. ASSUME NEW e \in Ends PROVE EndOK(e)
    <2>1. EndTypes(NewPeer("NONE"), NoFile, a0)
      BY <1>2, <1>3 DEF EndTypes
    <2>2. SendCounters(e, NewPeer("NONE"), NoFile, 0, 0)
      BY DEF SendCounters
    <2>3. ReceiveCounters(e, NewPeer("NONE"), NoFile, a0, 0)
      BY <1>2 DEF ReceiveCounters
    <2>4. Attached(e, NewPeer("NONE"), NoFile, a0)
      BY <1>2 DEF Attached
    <2>5. /\ peer[e] = NewPeer("NONE") /\ sf[e] = NoFile /\ app[e] = a0
          /\ sent[e] = 0 /\ packed[e] = 0 /\ sent[Other(e)] = 0
      BY <1>1
    <2> QED BY <2>1, <2>2, <2>3, <2>4, <2>5 DEF EndOK, EndInv
  <1>6. ClientOK
    <2>1. /\ peer["client"] = NewPeer("NONE") /\ sf["client"] = NoFile
          /\ app["client"] = a0 /\ sent["client"] = 0
      BY <1>1
    <2>2. OneSession(NewPeer("NONE"), NoFile, a0, 0)
      BY <1>2 DEF OneSession
    <2>3. MainInv(NewPeer("NONE"), a0, TRUE, FALSE, 0)
      <3>1. STREAM_CONNECT_MAX \in Nat
        BY SessionAssumption
      <3>2. 0 \in Nat /\ 0 <= STREAM_CONNECT_MAX + 1 /\ 0 # STREAM_CONNECT_MAX + 1
        BY <3>1
      <3>3. NewPeer("NONE").state = "NONE"
        OBVIOUS
      <3> QED BY <1>2, <3>2, <3>3, Zenon DEF MainInv
    <2> QED BY <1>1, <2>1, <2>2, <2>3 DEF ClientOK
  <1> QED BY <1>4, <1>5, <1>6 DEF SessionInv

\* A step of one end reaches the other end only through the packets sent and
\* acknowledged.
LEMMA BothEnds ==
  ASSUME SessionInv, StateTypes', NEW e \in Ends,
         EndInv(e, peer'[e], sf'[e], app'[e], sent'[e], packed'[e],
                sent'[Other(e)]),
         peer'[Other(e)] = peer[Other(e)], sf'[Other(e)] = sf[Other(e)],
         app'[Other(e)] = app[Other(e)], sent'[Other(e)] = sent[Other(e)],
         sent[e] <= sent'[e], packed[Other(e)] <= packed'[Other(e)],
         packed'[Other(e)] <= Frames(Other(e))
  PROVE  \A d \in Ends : EndOK(d)'
  <1> USE EndsFacts
  <1>1. EndOK(e)'
    BY DEF EndOK
  <1> DEFINE o == Other(e)
  <1>2. o \in Ends /\ Other(o) = e
    OBVIOUS
  <1>3. EndInv(o, peer[o], sf[o], app[o], sent[o], packed[o], sent[e])
    BY <1>2 DEF SessionInv, EndOK
  <1>4. /\ sent[o] \in Nat /\ packed[o] \in Nat /\ sent[e] \in Nat
        /\ packed'[o] \in Nat /\ sent'[e] \in Nat
    BY <1>2 DEF SessionInv, StateTypes
  <1>5. EndInv(o, peer[o], sf[o], app[o], sent[o], packed'[o], sent'[e])
    BY <1>2, <1>3, <1>4, MoreTraffic
  <1>6. EndOK(o)'
    BY <1>2, <1>5 DEF EndOK
  <1> QED BY <1>1, <1>6 DEF Ends, Other

\* A step that changes only messages and queued callbacks.
LEMMA SameStep ==
  ASSUME SessionInv, net' \subseteq Message,
         close_queued' \in [Ends -> {"no", "queued", "dangling"}],
         UNCHANGED <<peer, fileVars, mainVars, sent, packed, removing>>
  PROVE  SessionInv'
  <1>1. /\ peer' = peer /\ sf' = sf /\ app' = app /\ sent' = sent
        /\ packed' = packed /\ removing' = removing /\ starting' = starting
        /\ stream_attempts' = stream_attempts
    BY DEF fileVars, mainVars
  <1>2. StateTypes'
    BY <1>1 DEF SessionInv, StateTypes
  <1>3. ASSUME NEW e \in Ends PROVE EndOK(e)'
    BY <1>1 DEF SessionInv, EndOK
  <1>4. ClientOK'
    BY <1>1 DEF SessionInv, ClientOK
  <1> QED BY <1>2, <1>3, <1>4 DEF SessionInv

\* A step of one end that keeps the counters of its peer.
LEMMA KeptStep ==
  ASSUME SessionInv, NEW e \in Ends, NEW q, Kept(peer[e], q), EngineFree(e),
         peer' = [peer EXCEPT ![e] = q], net' \subseteq Message,
         close_queued' \in [Ends -> {"no", "queued", "dangling"}],
         UNCHANGED <<fileVars, mainVars, sent, packed, removing>>
  PROVE  SessionInv'
  <1> USE EndsFacts
  <1>1. /\ sf' = sf /\ app' = app /\ sent' = sent
        /\ packed' = packed /\ removing' = removing /\ starting' = starting
        /\ stream_attempts' = stream_attempts
    BY DEF fileVars, mainVars
  <1>2. /\ peer' \in [Ends -> FillpPeer] /\ peer'[e] = q
        /\ peer'[Other(e)] = peer[Other(e)]
    BY DEF SessionInv, StateTypes, Kept
  <1>3. StateTypes'
    BY <1>1, <1>2 DEF SessionInv, StateTypes
  <1>4. EndOK(e)
    BY DEF SessionInv
  <1>5. EndInv(e, q, sf[e], app[e], sent[e], packed[e], sent[Other(e)])
    BY <1>4, KeptEnd DEF EndOK
  <1>6. \A d \in Ends : EndOK(d)'
    <2>1. packed[Other(e)] <= Frames(Other(e))
      BY DEF SessionInv, EndOK, EndInv, SendCounters
    <2>2. sent[e] <= sent[e] /\ packed[Other(e)] <= packed[Other(e)]
      BY DEF SessionInv, StateTypes
    <2> QED BY <1>1, <1>2, <1>3, <1>5, <2>1, <2>2, BothEnds
  <1>7. ClientOK'
    <2>1. CASE e = "client"
      <3>1. OneSession(q, sf["client"], app["client"], sent["client"])
        BY <2>1, <1>4, KeptClient DEF SessionInv, ClientOK, EndOK
      <3>2. ~removing
        BY <2>1 DEF EngineFree
      <3>3. peer["client"].state = "NONE" => q.state = "NONE"
        BY <2>1 DEF Kept
      <3>4. MainInv(q, app["client"], starting, removing, stream_attempts)
        BY <3>2, <3>3 DEF SessionInv, ClientOK, MainInv
      <3> QED BY <1>1, <1>2, <2>1, <3>1, <3>4 DEF ClientOK
    <2>2. CASE e = "server"
      BY <1>1, <1>2, <2>2 DEF SessionInv, ClientOK
    <2> QED BY <2>1, <2>2 DEF Ends
  <1> QED BY <1>3, <1>6, <1>7 DEF SessionInv

\* A step in which an end has a new peer, or its peer goes.
LEMMA FreshStep ==
  ASSUME SessionInv, NEW e \in Ends, NEW st \in {"NONE", "PENDING"},
         sf[e] = NoFile,
         peer' = [peer EXCEPT ![e] = NewPeer(st)], net' \subseteq Message,
         close_queued' \in [Ends -> {"no", "queued", "dangling"}],
         removing' \in BOOLEAN, starting' \in BOOLEAN,
         UNCHANGED <<fileVars, sent, packed>>
  PROVE  /\ StateTypes' /\ \A d \in Ends : EndOK(d)'
         /\ peer'[e] = NewPeer(st) /\ peer'[Other(e)] = peer[Other(e)]
  <1> USE EndsFacts, NewPeerFields
  <1>1. /\ sf' = sf /\ app' = app /\ sent' = sent /\ packed' = packed
    BY DEF fileVars
  <1>2. /\ peer' \in [Ends -> FillpPeer] /\ peer'[e] = NewPeer(st)
        /\ peer'[Other(e)] = peer[Other(e)]
    BY DEF SessionInv, StateTypes
  <1>3. StateTypes'
    BY <1>1, <1>2 DEF SessionInv, StateTypes
  <1>4. EndOK(e)
    BY DEF SessionInv
  <1>5. /\ app[e] \in AppFlags /\ sent[e] \in Nat /\ packed[e] \in Nat
        /\ sent[Other(e)] \in Nat
    BY DEF SessionInv, StateTypes
  <1>6. EndInv(e, NewPeer(st), NoFile, app[e], sent[e], packed[e], sent[Other(e)])
    BY <1>4, <1>5, FreshEnd DEF EndOK
  <1>7. \A d \in Ends : EndOK(d)'
    <2>1. packed[Other(e)] <= Frames(Other(e))
      BY DEF SessionInv, EndOK, EndInv, SendCounters
    <2>2. sent[e] <= sent[e] /\ packed[Other(e)] <= packed[Other(e)]
      BY DEF SessionInv, StateTypes
    <2> QED BY <1>1, <1>2, <1>3, <1>6, <2>1, <2>2, BothEnds
  <1> QED BY <1>2, <1>3, <1>7

\* GiveUp ends the phase; there is no peer then.
LEMMA GiveUpSession ==
  ASSUME SessionInv, GiveUp
  PROVE  SessionInv'
  <1> USE EndsFacts
  <1> DEFINE a == app["client"]
             b == [a EXCEPT !.failed = TRUE]
  <1>1. /\ starting /\ ~a.failed /\ stream_attempts >= STREAM_CONNECT_MAX
        /\ app' = [app EXCEPT !["client"] = b]
        /\ starting' = FALSE /\ stream_attempts' = stream_attempts + 1
        /\ peer' = peer /\ sf' = sf /\ net' = net /\ sent' = sent
        /\ packed' = packed /\ close_queued' = close_queued
        /\ removing' = removing
    BY DEF GiveUp, engineVars, SessionInv, StateTypes
  <1>2. a \in AppFlags
    BY DEF SessionInv, StateTypes
  <1>3. /\ b \in AppFlags /\ b.failed /\ b.established = a.established
        /\ b.tx_done = a.tx_done /\ b.rx_done = a.rx_done
    BY <1>2 DEF AppFlags
  <1> HIDE DEF b
  <1>4. /\ app' \in [Ends -> AppFlags] /\ app'["client"] = b
        /\ app'["server"] = app["server"]
    BY <1>1, <1>3 DEF SessionInv, StateTypes
  <1>5. StateTypes'
    BY <1>1, <1>4 DEF SessionInv, StateTypes
  <1>6. /\ peer["client"].state = "NONE" /\ ~a.established
    BY <1>1 DEF SessionInv, ClientOK, MainInv
  <1>7. \A d \in Ends : EndOK(d)'
    <2>1. EndOK("client")
      BY DEF SessionInv
    <2>2. EndInv("client", peer["client"], sf["client"], b, sent["client"],
                 packed["client"], sent["server"])
      <3>1. EndInv("client", peer["client"], sf["client"], a, sent["client"],
                   packed["client"], sent["server"])
        BY <2>1 DEF EndOK
      <3> HIDE DEF a
      <3>2. ReceiveCounters("client", peer["client"], sf["client"], b, sent["server"])
        BY <1>3, <3>1 DEF EndInv, ReceiveCounters
      <3>3. Attached("client", peer["client"], sf["client"], b)
        BY <1>3, <3>1, Zenon DEF EndInv, Attached
      <3> QED BY <1>3, <3>1, <3>2, <3>3 DEF EndInv, EndTypes
    <2>3. /\ packed["server"] <= Frames("server")
      BY DEF SessionInv, EndOK, EndInv, SendCounters
    <2>4. sent["client"] <= sent["client"] /\ packed["server"] <= packed["server"]
      BY DEF SessionInv, StateTypes
    <2> QED BY <1>1, <1>4, <1>5, <2>2, <2>3, <2>4, BothEnds
  <1>8. ClientOK'
    <2>1. OneSession(peer["client"], sf["client"], b, sent["client"])
      BY <1>3, <1>6 DEF SessionInv, ClientOK, OneSession
    <2>2. STREAM_CONNECT_MAX \in Nat
      BY SessionAssumption
    <2>3. /\ stream_attempts \in Nat
          /\ stream_attempts <= STREAM_CONNECT_MAX + 1
          /\ stream_attempts # STREAM_CONNECT_MAX + 1
      BY <1>1 DEF SessionInv, ClientOK, MainInv
    <2>4. /\ stream_attempts + 1 \in Nat
          /\ stream_attempts + 1 <= STREAM_CONNECT_MAX + 1
      BY <2>2, <2>3
    <2>5. MainInv(peer["client"], b, FALSE, removing, stream_attempts + 1)
      BY <1>3, <2>4 DEF SessionInv, ClientOK, MainInv
    <2> QED BY <1>1, <1>4, <2>1, <2>5 DEF ClientOK
  <1> QED BY <1>5, <1>7, <1>8 DEF SessionInv

\* A connect attempt makes a peer where there is none.
LEMMA ConnectSession ==
  ASSUME SessionInv, NEW result \in ConnectResults, stream_connect(result)
  PROVE  SessionInv'
  <1> USE EndsFacts
  <1>1. /\ starting /\ ~app["client"].failed
        /\ stream_attempts < STREAM_CONNECT_MAX
        /\ stream_attempts' = stream_attempts + 1
        /\ starting' = (result = "no peer")
        /\ sf' = sf /\ app' = app /\ sent' = sent /\ packed' = packed
        /\ removing' = removing
    BY DEF stream_connect, fileVars
  <1>2. /\ peer["client"].state = "NONE" /\ ~app["client"].established
        /\ sf["client"] = NoFile
    BY <1>1 DEF SessionInv, ClientOK, MainInv, EndOK, EndInv, Attached
  <1>3. /\ stream_attempts + 1 \in Nat
        /\ stream_attempts + 1 <= STREAM_CONNECT_MAX + 1
        /\ stream_attempts + 1 # STREAM_CONNECT_MAX + 1
    <2>1. STREAM_CONNECT_MAX \in Nat
      BY SessionAssumption
    <2>2. stream_attempts \in Nat
      BY DEF SessionInv, ClientOK, MainInv
    <2>3. stream_attempts < STREAM_CONNECT_MAX
      BY <1>1
    <2> QED BY <2>1, <2>2, <2>3
  <1>4. CASE result = "no peer"
    <2>1. peer' = peer /\ net' = net /\ close_queued' = close_queued
      BY <1>4 DEF stream_connect
    <2>2. StateTypes'
      BY <1>1, <1>4, <2>1 DEF SessionInv, StateTypes
    <2>3. ASSUME NEW e \in Ends PROVE EndOK(e)'
      BY <1>1, <2>1 DEF SessionInv, EndOK
    <2>4. MainInv(peer["client"], app["client"], TRUE, removing, stream_attempts + 1)
      BY <1>1, <1>2, <1>3, Zenon DEF SessionInv, ClientOK, MainInv
    <2>5. ClientOK'
      BY <1>1, <1>4, <2>1, <2>4 DEF SessionInv, ClientOK
    <2> QED BY <2>2, <2>3, <2>5 DEF SessionInv
  <1>5. CASE result # "no peer"
    <2> DEFINE q == NewPeer("PENDING")
    <2>1. /\ peer' = [peer EXCEPT !["client"] = q]
          /\ net' = net \cup (IF result = "sent" THEN {Msg("CONN_REQ", "server")} ELSE {})
          /\ close_queued' = IF result = "sent" THEN close_queued
                             ELSE [close_queued EXCEPT !["client"] = "queued"]
      BY <1>5 DEF stream_connect, Send
    <2>2. net' \subseteq Message
      BY <2>1, Messages DEF SessionInv, StateTypes
    <2>3. close_queued' \in [Ends -> {"no", "queued", "dangling"}]
      BY <2>1 DEF SessionInv, StateTypes
    <2>4. /\ removing' \in BOOLEAN /\ starting' \in BOOLEAN
      BY <1>1 DEF SessionInv, StateTypes
    <2>5. /\ StateTypes' /\ \A d \in Ends : EndOK(d)'
          /\ peer'["client"] = q /\ peer'[Other("client")] = peer[Other("client")]
      BY <1>1, <1>2, <2>1, <2>2, <2>3, <2>4, FreshStep DEF fileVars
    <2>6. q.state = "PENDING" /\ q.send_pkt_num = 0
      BY NewPeerFields
    <2> HIDE DEF q
    <2>7. OneSession(q, sf["client"], app["client"], sent["client"])
      BY <1>1, <1>2, <2>6 DEF SessionInv, ClientOK, OneSession
    <2>8. MainInv(q, app["client"], FALSE, removing, stream_attempts + 1)
      BY <1>3, <2>6, Zenon DEF MainInv
    <2>9. starting' = FALSE
      BY <1>1, <1>5
    <2>10. ClientOK'
      BY <1>1, <2>5, <2>7, <2>8, <2>9 DEF ClientOK
    <2> QED BY <2>5, <2>10 DEF SessionInv
  <1> QED BY <1>4, <1>5

\* The removal of the key takes away a peer without a file.
LEMMA RemoveSession ==
  ASSUME SessionInv, FinalizeRemoves
  PROVE  SessionInv'
  <1> USE EndsFacts
  <1> DEFINE q == NewPeer("NONE")
  <1>1. /\ removing /\ removing' = FALSE
        /\ peer' = [peer EXCEPT !["client"] = q]
        /\ net' = net /\ sent' = sent /\ packed' = packed
        /\ close_queued' = close_queued /\ sf' = sf /\ app' = app
        /\ starting' = starting /\ stream_attempts' = stream_attempts
    BY DEF FinalizeRemoves, fileVars, mainVars
  <1>2. /\ peer["client"].state \in {"NONE", "PENDING"}
        /\ sf["client"] = NoFile
    BY <1>1 DEF SessionInv, ClientOK, MainInv, EndOK, EndInv, Attached
  <1>3. /\ net' \subseteq Message /\ removing' \in BOOLEAN /\ starting' \in BOOLEAN
        /\ close_queued' \in [Ends -> {"no", "queued", "dangling"}]
    BY <1>1 DEF SessionInv, StateTypes
  <1>4. /\ StateTypes' /\ \A d \in Ends : EndOK(d)'
        /\ peer'["client"] = q
    BY <1>1, <1>2, <1>3, FreshStep DEF fileVars
  <1>5. q.state = "NONE"
    BY NewPeerFields
  <1> HIDE DEF q
  <1>6. OneSession(q, sf["client"], app["client"], sent["client"])
    BY <1>2, <1>5 DEF SessionInv, ClientOK, OneSession
  <1>7. MainInv(q, app["client"], starting, FALSE, stream_attempts)
    BY <1>5, Zenon DEF SessionInv, ClientOK, MainInv
  <1>8. ClientOK'
    BY <1>1, <1>4, <1>6, <1>7 DEF ClientOK
  <1> QED BY <1>4, <1>8 DEF SessionInv

\* A CONN_REQ makes a peer of the phone, or leaves it.
LEMMA ConnReqSession ==
  ASSUME SessionInv, fp_handle_conn_req
  PROVE  SessionInv'
  <1> USE EndsFacts
  <1>1. /\ sf' = sf /\ app' = app /\ sent' = sent /\ packed' = packed
        /\ removing' = removing /\ close_queued' = close_queued
        /\ starting' = starting /\ stream_attempts' = stream_attempts
    BY DEF fp_handle_conn_req, fileVars, mainVars
  <1>2. net' \subseteq net \cup {Msg("CONN_REQ_ACK", "client")}
    BY DEF fp_handle_conn_req, Reply, Send
  <1>3. net' \subseteq Message
    BY <1>2, Messages DEF SessionInv, StateTypes
  <1>4. /\ close_queued' \in [Ends -> {"no", "queued", "dangling"}]
        /\ removing' \in BOOLEAN /\ starting' \in BOOLEAN
    BY <1>1 DEF SessionInv, StateTypes
  <1>5. CASE peer["server"].state = "NONE"
    <2>1. peer' = [peer EXCEPT !["server"] = NewPeer("PENDING")]
      BY <1>5 DEF fp_handle_conn_req
    <2>2. sf["server"] = NoFile
      BY <1>5 DEF SessionInv, EndOK, EndInv, Attached
    <2>3. /\ StateTypes' /\ \A d \in Ends : EndOK(d)'
          /\ peer'[Other("server")] = peer[Other("server")]
      BY <1>1, <1>3, <1>4, <2>1, <2>2, FreshStep DEF fileVars
    <2>4. ClientOK'
      BY <1>1, <2>3 DEF SessionInv, ClientOK
    <2> QED BY <2>3, <2>4 DEF SessionInv
  <1>6. CASE peer["server"].state # "NONE"
    <2>1. peer' = peer
      BY <1>6 DEF fp_handle_conn_req
    <2> QED BY <1>1, <1>3, <1>4, <2>1, SameStep DEF fileVars, mainVars
  <1> QED BY <1>5, <1>6

\* A handshake that completes at one end.
LEMMA EstablishedSession ==
  ASSUME SessionInv, NEW e \in Ends, NEW opens \in BOOLEAN,
         peer[e].state = "PENDING", EngineFree(e), Established(e, opens),
         net' \subseteq Message,
         UNCHANGED <<mainVars, sent, packed, close_queued, removing>>
  PROVE  SessionInv'
  <1> USE EndsFacts
  <1> DEFINE sends == e \in Senders /\ opens
             lost == e \in Senders /\ ~opens
  <1>1. /\ sent' = sent /\ packed' = packed
        /\ removing' = removing /\ close_queued' = close_queued
        /\ starting' = starting /\ stream_attempts' = stream_attempts
    BY DEF mainVars
  <1>2. StateTypes
    BY DEF SessionInv
  <1>3. /\ Opened(peer[e], app[e], peer'[e], sf'[e], app'[e], sends)
        /\ app'[e].failed = (app[e].failed \/ lost)
        /\ peer' \in [Ends -> FillpPeer]
        /\ sf' \in [Ends -> StreamFile]
        /\ app' \in [Ends -> AppFlags]
        /\ peer'[Other(e)] = peer[Other(e)]
        /\ sf'[Other(e)] = sf[Other(e)]
        /\ app'[Other(e)] = app[Other(e)]
    BY <1>2, EstablishedOpens
  <1>4. StateTypes'
    BY <1>1, <1>2, <1>3 DEF StateTypes
  <1>5. EndOK(e)
    BY DEF SessionInv
  <1>6. /\ sent[e] \in Nat /\ packed[e] \in Nat /\ sent[Other(e)] \in Nat
    BY <1>2 DEF StateTypes
  <1>7. sends \in BOOLEAN /\ lost \in BOOLEAN /\ (lost => ~sends)
    BY Zenon
  <1> HIDE DEF sends, lost
  <1>8. EndInv(e, peer'[e], sf'[e], app'[e], sent[e], packed[e], sent[Other(e)])
    BY <1>3, <1>5, <1>6, <1>7, OpenedEnd DEF EndOK
  <1>9. \A d \in Ends : EndOK(d)'
    <2>1. packed[Other(e)] <= Frames(Other(e))
      BY DEF SessionInv, EndOK, EndInv, SendCounters
    <2>2. sent[e] <= sent[e] /\ packed[Other(e)] <= packed[Other(e)]
      BY DEF SessionInv, StateTypes
    <2> QED BY <1>1, <1>3, <1>4, <1>8, <2>1, <2>2, BothEnds
  <1>10. ClientOK'
    <2>1. CASE e = "client"
      <3>1. OneSession(peer'["client"], sf'["client"], app'["client"], sent["client"])
        BY <1>3, <1>5, <1>6, <1>7, <2>1, OpenedClient
           DEF SessionInv, ClientOK, EndOK
      <3>2. ~starting /\ ~removing
        BY <2>1 DEF EngineFree, SessionInv, ClientOK, MainInv
      <3>3. app["client"].failed => app'["client"].failed
        BY <1>3, <2>1
      <3>4. MainInv(peer'["client"], app'["client"], starting, removing,
                    stream_attempts)
        BY <3>2, <3>3 DEF SessionInv, ClientOK, MainInv
      <3> QED BY <1>1, <3>1, <3>4 DEF ClientOK
    <2>2. CASE e = "server"
      BY <1>1, <1>3, <2>2 DEF SessionInv, ClientOK
    <2> QED BY <2>1, <2>2 DEF Ends
  <1> QED BY <1>4, <1>9, <1>10 DEF SessionInv

\* The handlers of CONN_CONFIRM and CONN_CONFIRM_ACK.
LEMMA ConfirmSession ==
  ASSUME SessionInv, NEW opens \in BOOLEAN,
         fp_handle_conn_confirm(opens) \/ fp_handle_conn_confirm_ack(opens)
  PROVE  SessionInv'
  <1> USE EndsFacts
  <1>1. UNCHANGED <<mainVars, sent, packed, close_queued, removing>>
    BY DEF fp_handle_conn_confirm, fp_handle_conn_confirm_ack
  <1>2. net' \subseteq net \cup {Msg("CONN_CONFIRM_ACK", "client")}
    BY DEF fp_handle_conn_confirm, fp_handle_conn_confirm_ack, Reply, Send
  <1>3. net' \subseteq Message
    BY <1>2, Messages DEF SessionInv, StateTypes
  <1>4. close_queued' \in [Ends -> {"no", "queued", "dangling"}]
    BY <1>1 DEF SessionInv, StateTypes
  <1>5. \/ UNCHANGED <<peer, sf, app>>
        \/ \E e \in Ends : /\ peer[e].state = "PENDING" /\ EngineFree(e)
                           /\ Established(e, opens)
    <2>1. CASE fp_handle_conn_confirm(opens)
      <3>1. \/ UNCHANGED <<peer, sf, app>>
            \/ peer["server"].state = "PENDING" /\ Established("server", opens)
        BY <2>1, Zenon DEF fp_handle_conn_confirm
      <3>2. EngineFree("server")
        BY DEF EngineFree
      <3> QED BY <3>1, <3>2
    <2>2. CASE fp_handle_conn_confirm_ack(opens)
      <3>1. /\ EngineFree("client")
            /\ \/ UNCHANGED <<peer, sf, app>>
               \/ peer["client"].state = "PENDING" /\ Established("client", opens)
        BY <2>2, Zenon DEF fp_handle_conn_confirm_ack
      <3> QED BY <3>1
    <2> QED BY <2>1, <2>2
  <1>6. CASE UNCHANGED <<peer, sf, app>>
    BY <1>1, <1>3, <1>4, <1>6, SameStep DEF fileVars, mainVars
  <1>7. CASE \E e \in Ends : /\ peer[e].state = "PENDING" /\ EngineFree(e)
                             /\ Established(e, opens)
    BY <1>1, <1>3, <1>7, EstablishedSession
  <1> QED BY <1>5, <1>6, <1>7

\* The steps that keep the counters: cookie, retransmission, handshake
\* timeout, FIN, and the close calls.
LEMMA QuietSession ==
  ASSUME SessionInv,
         \/ fp_handle_conn_req_ack
         \/ Retransmit
         \/ \E e \in Ends : HandshakeTimeout(e)
         \/ \E e \in Ends : OnFin(e)
         \/ PhoneClose
         \/ \E e \in Ends : fp_peer_close_cb(e)
  PROVE  SessionInv'
  <1> USE EndsFacts
  <1>0. /\ net \subseteq Message
        /\ peer \in [Ends -> FillpPeer]
        /\ close_queued \in [Ends -> {"no", "queued", "dangling"}]
    BY DEF SessionInv, StateTypes
  <1>1. ASSUME NEW e \in Ends
        PROVE  CloseFin(peer[e], e) \subseteq Message
    BY Messages DEF CloseFin
  <1>2. CASE fp_handle_conn_req_ack
    <2>1. /\ EngineFree("client") /\ close_queued' = close_queued
          /\ UNCHANGED <<fileVars, mainVars, sent, packed, removing>>
          /\ net' \subseteq net \cup {Msg("CONN_CONFIRM", "server")}
          /\ \/ peer' = peer
             \/ peer' = [peer EXCEPT !["client"] =
                           [peer["client"] EXCEPT !.hs_confirm_sent = TRUE]]
      BY <1>0, <1>2 DEF fp_handle_conn_req_ack, Reply, Send
    <2>2. net' \subseteq Message
      BY <1>0, <2>1, Messages
    <2>3. Kept(peer["client"], [peer["client"] EXCEPT !.hs_confirm_sent = TRUE])
      BY <1>0, FlagsKeep
    <2>4. CASE peer' = peer
      BY <1>0, <2>1, <2>2, <2>4, SameStep
    <2>5. CASE peer' = [peer EXCEPT !["client"] =
                          [peer["client"] EXCEPT !.hs_confirm_sent = TRUE]]
      BY <1>0, <2>1, <2>2, <2>3, <2>5, KeptStep
    <2> QED BY <2>1, <2>4, <2>5
  <1>3. CASE Retransmit
    <2>1. /\ close_queued' = close_queued
          /\ UNCHANGED <<peer, fileVars, mainVars, sent, packed, removing>>
          /\ net' \subseteq net \cup {Msg("CONN_CONFIRM", "server"),
                                      Msg("CONN_REQ", "server")}
      BY <1>3 DEF Retransmit, Send
    <2>2. net' \subseteq Message
      BY <1>0, <2>1, Messages
    <2> QED BY <1>0, <2>1, <2>2, SameStep
  <1>4. ASSUME NEW e \in Ends, HandshakeTimeout(e)
        PROVE  SessionInv'
    <2>1. /\ EngineFree(e) /\ close_queued' = close_queued
          /\ UNCHANGED <<fileVars, mainVars, sent, packed, removing>>
          /\ net' = net \cup CloseFin(peer[e], e)
          /\ peer' = [peer EXCEPT ![e] = Closing(peer[e])]
      BY <1>0, <1>4 DEF HandshakeTimeout, Send
    <2>2. net' \subseteq Message
      BY <1>0, <1>1, <2>1
    <2>3. Kept(peer[e], Closing(peer[e]))
      BY <1>0, ClosingKeeps
    <2> QED BY <1>0, <2>1, <2>2, <2>3, KeptStep
  <1>5. ASSUME NEW e \in Ends, OnFin(e)
        PROVE  SessionInv'
    <2> DEFINE q == [Closing(peer[e]) EXCEPT !.peer_fin = TRUE, !.pending_fin = TRUE]
    <2>1. /\ EngineFree(e) /\ close_queued' = close_queued
          /\ UNCHANGED <<fileVars, mainVars, sent, packed, removing>>
          /\ net' = net
          /\ \/ peer' = peer
             \/ peer[e].state # "NONE" /\ peer' = [peer EXCEPT ![e] = q]
      BY <1>0, <1>5 DEF OnFin, Reply, Send
    <2>2. peer[e].state # "NONE" => Kept(peer[e], q)
      BY <1>0, FlagsKeep
    <2> HIDE DEF q
    <2>3. CASE peer' = peer
      BY <1>0, <2>1, <2>3, SameStep
    <2>4. CASE peer[e].state # "NONE" /\ peer' = [peer EXCEPT ![e] = q]
      BY <1>0, <2>1, <2>2, <2>4, KeptStep
    <2> QED BY <2>1, <2>3, <2>4
  <1>6. CASE PhoneClose
    <2>1. /\ close_queued' = [close_queued EXCEPT !["server"] = "queued"]
          /\ UNCHANGED <<peer, fileVars, mainVars, sent, packed, removing>>
          /\ net' = net
      BY <1>6 DEF PhoneClose
    <2>2. close_queued' \in [Ends -> {"no", "queued", "dangling"}]
      BY <1>0, <2>1
    <2> QED BY <1>0, <2>1, <2>2, SameStep
  <1>7. ASSUME NEW e \in Ends, fp_peer_close_cb(e)
        PROVE  SessionInv'
    <2>1. /\ EngineFree(e)
          /\ close_queued' = [close_queued EXCEPT ![e] = "no"]
          /\ UNCHANGED <<fileVars, mainVars, sent, packed, removing>>
          /\ \/ net' = net /\ peer' = peer
             \/ /\ net' = net \cup CloseFin(peer[e], e)
                /\ peer' = [peer EXCEPT ![e] = Closing(peer[e])]
      BY <1>0, <1>7 DEF fp_peer_close_cb, Send
    <2>2. net' \subseteq Message
      BY <1>0, <1>1, <2>1
    <2>3. Kept(peer[e], Closing(peer[e]))
      BY <1>0, ClosingKeeps
    <2>4. close_queued' \in [Ends -> {"no", "queued", "dangling"}]
      BY <1>0, <2>1
    <2>5. CASE peer' = peer
      BY <2>1, <2>2, <2>4, <2>5, SameStep
    <2>6. CASE peer' = [peer EXCEPT ![e] = Closing(peer[e])]
      BY <2>1, <2>2, <2>3, <2>4, <2>6, KeptStep
    <2> QED BY <2>1, <2>5, <2>6
  <1> QED BY <1>2, <1>3, <1>4, <1>5, <1>6, <1>7

\* An acknowledgement of packets that were sent.
LEMMA PackedGrows ==
  ASSUME SessionInv, NEW e \in Ends, NEW n \in Nat, n <= sent[Other(e)],
         \/ packed' = packed
         \/ packed' = [packed EXCEPT ![Other(e)] = Max2(@, n)]
  PROVE  /\ packed' \in [Ends -> Nat]
         /\ packed'[e] = packed[e]
         /\ packed[Other(e)] <= packed'[Other(e)]
         /\ packed'[Other(e)] <= Frames(Other(e))
  <1> USE EndsFacts
  <1> DEFINE o == Other(e)
  <1>1. /\ packed \in [Ends -> Nat] /\ sent[o] \in Nat
        /\ packed[o] <= Frames(o) /\ sent[o] <= Frames(o)
    BY DEF SessionInv, StateTypes, EndOK, EndInv, SendCounters
  <1>2. /\ Max2(packed[o], n) \in Nat /\ packed[o] <= Max2(packed[o], n)
        /\ Max2(packed[o], n) <= Frames(o)
    <2>1. n <= Frames(o) /\ packed[o] \in Nat
      BY <1>1
    <2> QED BY <1>1, <2>1, Max2Fact
  <1>3. CASE packed' = packed
    BY <1>1, <1>3
  <1>4. CASE packed' = [packed EXCEPT ![o] = Max2(@, n)]
    <2>1. packed' = [packed EXCEPT ![o] = Max2(packed[o], n)]
      BY <1>1, <1>4
    <2>2. packed'[o] = Max2(packed[o], n) /\ packed'[e] = packed[e]
      BY <1>1, <2>1
    <2>3. packed' \in [Ends -> Nat]
      BY <1>1, <1>2, <2>1
    <2> QED BY <1>2, <2>2, <2>3
  <1> QED BY <1>3, <1>4

\* An acknowledgement that arrives.
LEMMA PackSession ==
  ASSUME SessionInv, NEW e \in Ends, fp_on_pack(e)
  PROVE  SessionInv'
  <1> USE EndsFacts
  <1>1. PICK n \in 1 .. packed[e] :
          /\ peer[e].acked < n /\ n <= peer[e].send_pkt_num
          /\ peer' = [peer EXCEPT ![e].acked = n]
    BY DEF fp_on_pack
  <1>2. /\ sf' = sf /\ app' = app /\ sent' = sent /\ net' = net
        /\ packed' = packed /\ removing' = removing /\ starting' = starting
        /\ stream_attempts' = stream_attempts /\ close_queued' = close_queued
    BY DEF fp_on_pack, fileVars, mainVars
  <1> DEFINE p == peer[e]
             q == [p EXCEPT !.acked = n]
  <1>3. /\ p \in FillpPeer /\ packed[e] \in Nat
    BY DEF SessionInv, StateTypes
  <1>4. n \in Nat /\ n <= packed[e]
    BY <1>3
  <1>5. /\ q \in FillpPeer /\ q.acked = n /\ q.state = p.state
        /\ q.fill_fn = p.fill_fn /\ q.fill_done = p.fill_done
        /\ q.send_pkt_num = p.send_pkt_num /\ q.recv_pkt_num = p.recv_pkt_num
    BY <1>3, <1>4 DEF FillpPeer
  <1>6. peer' = [peer EXCEPT ![e] = q]
    BY <1>1
  <1> HIDE DEF q
  <1>7. /\ peer' \in [Ends -> FillpPeer] /\ peer'[e] = q
        /\ peer'[Other(e)] = peer[Other(e)]
    BY <1>5, <1>6 DEF SessionInv, StateTypes
  <1>8. StateTypes'
    BY <1>2, <1>7 DEF SessionInv, StateTypes
  <1>9. EndInv(e, p, sf[e], app[e], sent[e], packed[e], sent[Other(e)])
    BY DEF SessionInv, EndOK
  <1>10. n <= p.send_pkt_num
    BY <1>1
  <1> HIDE DEF p
  <1>11. EndInv(e, q, sf[e], app[e], sent[e], packed[e], sent[Other(e)])
    <2>1. EndTypes(q, sf[e], app[e])
      BY <1>5, <1>9 DEF EndInv, EndTypes
    <2>2. SendCounters(e, q, sf[e], sent[e], packed[e])
      BY <1>4, <1>5, <1>9, <1>10 DEF EndInv, SendCounters
    <2>3. ReceiveCounters(e, q, sf[e], app[e], sent[Other(e)])
      BY <1>5, <1>9 DEF EndInv, ReceiveCounters
    <2>4. Attached(e, q, sf[e], app[e])
      BY <1>5, <1>9, Zenon DEF EndInv, Attached
    <2> QED BY <2>1, <2>2, <2>3, <2>4 DEF EndInv
  <1>12. \A d \in Ends : EndOK(d)'
    <2>1. packed[Other(e)] <= Frames(Other(e))
      BY DEF SessionInv, EndOK, EndInv, SendCounters
    <2>2. sent[e] <= sent[e] /\ packed[Other(e)] <= packed[Other(e)]
      BY DEF SessionInv, StateTypes
    <2> QED BY <1>2, <1>7, <1>8, <1>11, <2>1, <2>2, BothEnds
  <1>13. ClientOK'
    <2>1. CASE e = "client"
      <3>1. /\ peer'["client"].state = peer["client"].state
            /\ peer'["client"].send_pkt_num = peer["client"].send_pkt_num
        BY <1>5, <1>7, <2>1 DEF p
      <3>2. OneSession(peer'["client"], sf["client"], app["client"], sent["client"])
        BY <3>1 DEF SessionInv, ClientOK, OneSession
      <3>3. MainInv(peer'["client"], app["client"], starting, removing, stream_attempts)
        BY <3>1 DEF SessionInv, ClientOK, MainInv
      <3> QED BY <1>2, <3>2, <3>3 DEF ClientOK
    <2>2. CASE e = "server"
      BY <1>2, <1>7, <2>2 DEF SessionInv, ClientOK
    <2> QED BY <2>1, <2>2 DEF Ends
  <1> QED BY <1>8, <1>12, <1>13 DEF SessionInv

\* Fins are messages.
LEMMA FinsAreMessages ==
  ASSUME SessionInv, NEW e \in Ends, NEW q, NEW r, NEW b,
         FinsSent(e, q, r, b)
  PROVE  net' \subseteq Message
  BY EndsFacts, Messages DEF FinsSent, Fin, SessionInv, StateTypes

\* A packet that arrives.
LEMMA DataSession ==
  ASSUME SessionInv, NEW e \in Ends, EngineFree(e),
         NEW q, NEW r, NEW t, NEW b, DataResult(e, q, r, t, b)
  PROVE  SessionInv'
  <1> USE EndsFacts
  <1> DEFINE p == peer[e]
             o == Other(e)
  <1>0. o \in Ends /\ o # e
    OBVIOUS
  <1>1. /\ sent' = sent /\ removing' = removing /\ starting' = starting
        /\ stream_attempts' = stream_attempts /\ close_queued' = close_queued
        /\ p.state \in {"ESTABLISHED", "CLOSING"} /\ p.recv_pkt_num < sent[o]
        /\ Counted(p, q) /\ Processed(e, sf[e], t) /\ ReportedRx(sf[e], t, app[e], b)
        /\ Kept(q, r) /\ FinsSent(e, q, r, b)
        /\ peer' = [peer EXCEPT ![e] = r] /\ sf' = [sf EXCEPT ![e] = t]
        /\ app' = [app EXCEPT ![e] = b]
    BY DEF DataResult, mainVars
  <1>2. r \in FillpPeer /\ t \in StreamFile /\ b \in AppFlags
    BY <1>1 DEF Kept, Processed, ReportedRx
  <1>3. /\ peer' \in [Ends -> FillpPeer] /\ sf' \in [Ends -> StreamFile]
        /\ app' \in [Ends -> AppFlags]
        /\ peer'[e] = r /\ sf'[e] = t /\ app'[e] = b
        /\ peer'[o] = peer[o] /\ sf'[o] = sf[o] /\ app'[o] = app[o]
    BY <1>0, <1>1, <1>2 DEF SessionInv, StateTypes
  <1>4. net' \subseteq Message
    BY <1>1, FinsAreMessages
  <1>5. EndInv(e, p, sf[e], app[e], sent[e], packed[e], sent[o])
    BY DEF SessionInv, EndOK
  <1>6. sent[e] \in Nat /\ packed[e] \in Nat /\ sent[o] \in Nat
    BY <1>0 DEF SessionInv, StateTypes
  <1>7. \/ packed' = packed
        \/ packed' = [packed EXCEPT ![o] = Max2(@, q.recv_pkt_num)]
    BY DEF DataResult
  <1> HIDE DEF p, o
  <1>8. EndInv(e, q, t, b, sent[e], packed[e], sent[o])
    BY <1>1, <1>5, <1>6, CountedEnd
  <1>9. EndInv(e, r, t, b, sent[e], packed[e], sent[o])
    BY <1>1, <1>8, KeptEnd
  <1>10. q.recv_pkt_num \in Nat /\ q.recv_pkt_num <= sent[o]
    BY <1>8, PeerFields DEF EndInv, EndTypes, ReceiveCounters
  <1>11. /\ packed' \in [Ends -> Nat] /\ packed'[e] = packed[e]
         /\ packed[o] <= packed'[o] /\ packed'[o] <= Frames(o)
    BY <1>7, <1>10, PackedGrows DEF o
  <1>12. StateTypes'
    BY <1>1, <1>3, <1>4, <1>11 DEF SessionInv, StateTypes
  <1>13. \A d \in Ends : EndOK(d)'
    <2>1. sent[e] <= sent[e]
      BY <1>6
    <2> QED BY <1>1, <1>3, <1>9, <1>11, <1>12, <2>1, BothEnds DEF o
  <1>14. ClientOK'
    <2>1. CASE e = "client"
      <3>1. OneSession(q, t, b, sent["client"])
        BY <1>1, <1>5, <1>6, <2>1, CountedClient DEF SessionInv, ClientOK, p
      <3>2. OneSession(r, t, b, sent["client"])
        BY <1>1, <1>8, <2>1, <3>1, KeptClient
      <3>3. ~starting /\ ~removing
        BY <1>1, <2>1 DEF EngineFree, SessionInv, ClientOK, MainInv, p
      <3>4. app["client"].failed => b.failed
        BY <1>1, <2>1 DEF ReportedRx
      <3>5. MainInv(r, b, starting, removing, stream_attempts)
        BY <3>3, <3>4 DEF SessionInv, ClientOK, MainInv
      <3> QED BY <1>1, <1>3, <2>1, <3>2, <3>5 DEF ClientOK
    <2>2. CASE e = "server"
      BY <1>1, <1>3, <2>2 DEF SessionInv, ClientOK, o
    <2> QED BY <2>1, <2>2 DEF Ends
  <1> QED BY <1>12, <1>13, <1>14 DEF SessionInv

\* A pump, after which the peer stays or is finalized.
LEMMA PumpSession ==
  ASSUME SessionInv, NEW e \in Ends, EngineFree(e),
         peer[e].state \in {"ESTABLISHED", "CLOSING"},
         NEW q, NEW t, NEW r, NEW u, NEW b, PumpResult(e, q, t, r, u, b)
  PROVE  SessionInv'
  <1> USE EndsFacts
  <1> DEFINE p == peer[e]
             o == Other(e)
             out == Max2(sent[e], q.send_pkt_num)
  <1>0. o \in Ends /\ o # e
    OBVIOUS
  <1>1. /\ Filled(e, p, sf[e], q, t) /\ ReportedTx(q, sf[e], t, u, app[e], b)
        /\ Kept(q, r) /\ FinsSent(e, q, r, b) /\ stream_attempts' = stream_attempts
        /\ p.state \in {"ESTABLISHED", "CLOSING"}
    BY DEF PumpResult
  <1>2. /\ sent \in [Ends -> Nat] /\ packed \in [Ends -> Nat]
        /\ sent[e] \in Nat /\ packed[e] \in Nat /\ sent[o] \in Nat
    BY <1>0 DEF SessionInv, StateTypes
  <1>3. /\ q \in FillpPeer /\ r \in FillpPeer /\ u \in StreamFile /\ b \in AppFlags
        /\ q.send_pkt_num \in Nat /\ q.recv_pkt_num \in Nat
    BY <1>1, PeerFields DEF Filled, Kept, ReportedTx
  <1>4. out \in Nat /\ sent[e] <= out
    BY <1>2, <1>3, Max2Fact
  <1>5. sent' = [sent EXCEPT ![e] = out]
    BY <1>2 DEF PumpResult
  <1> HIDE DEF out
  <1>6. sent' \in [Ends -> Nat] /\ sent'[e] = out /\ sent'[o] = sent[o]
    BY <1>0, <1>2, <1>4, <1>5
  <1>7. EndInv(e, p, sf[e], app[e], sent[e], packed[e], sent[o])
    BY DEF SessionInv, EndOK
  <1>8. \/ packed' = packed
        \/ packed' = [packed EXCEPT ![o] = Max2(@, q.recv_pkt_num)]
    BY DEF PumpResult
  <1>9. net' \subseteq Message
    BY <1>1, FinsAreMessages
  <1> HIDE DEF p, o
  <1>10. q.recv_pkt_num <= sent[o]
    BY <1>1, <1>7 DEF EndInv, ReceiveCounters, Filled
  <1>11. /\ packed' \in [Ends -> Nat] /\ packed'[e] = packed[e]
         /\ packed[o] <= packed'[o] /\ packed'[o] <= Frames(o)
    BY <1>3, <1>8, <1>10, PackedGrows DEF o
  <1>12. EndInv(e, r, u, b, out, packed[e], sent[o])
    BY <1>1, <1>2, <1>7, PumpEnd DEF out
  <1>13. e = "client" => OneSession(r, u, b, out)
    BY <1>1, <1>2, <1>7, PumpClient DEF out, p, SessionInv, ClientOK
  <1>14. e = "client" => ~starting /\ ~removing
    BY <1>1 DEF EngineFree, SessionInv, ClientOK, MainInv, p
  <1>15. e = "client" /\ app["client"].failed => b.failed
    BY <1>1 DEF ReportedTx
  <1>16. CASE /\ r.state = "CLOSING"
              /\ peer' = [peer EXCEPT ![e] = NewPeer("NONE")]
              /\ sf' = [sf EXCEPT ![e] = NoFile]
              /\ app' = [app EXCEPT ![e] = ClosedFlags(b)]
              /\ starting' = (starting \/ Retries(e, b))
              /\ close_queued' = [close_queued EXCEPT ![e] =
                                    IF @ = "queued" THEN "dangling" ELSE @]
              /\ removing' = (removing \/ e = "client")
    <2> DEFINE n == NewPeer("NONE")
               c == ClosedFlags(b)
    <2>1. /\ n \in FillpPeer /\ n.state = "NONE" /\ NoFile \in StreamFile
      BY NewPeerFields
    <2>2. /\ c \in AppFlags /\ c.established = b.established
          /\ c.tx_done = b.tx_done /\ c.rx_done = b.rx_done
      BY <1>3, ClosedFields
    <2>3. EndInv(e, n, NoFile, c, out, packed[e], sent[o])
      BY <1>2, <1>4, <1>12, <2>2, FreshEnd
    <2>4. e = "client" => /\ b.failed => c.failed
                          /\ Retries("client", b) => ~c.failed
                          /\ OneSession(n, NoFile, c, out)
      BY <1>3, <1>13, ClosedClient
    <2>5. Retries(e, b) => e = "client" /\ ~b.established
      BY DEF Retries
    <2>6. Retries(e, b) \in BOOLEAN
      BY DEF Retries
    <2> HIDE DEF n, c
    <2>7. /\ peer' \in [Ends -> FillpPeer] /\ sf' \in [Ends -> StreamFile]
          /\ app' \in [Ends -> AppFlags]
          /\ peer'[e] = n /\ sf'[e] = NoFile /\ app'[e] = c
          /\ peer'[o] = peer[o] /\ sf'[o] = sf[o] /\ app'[o] = app[o]
      BY <1>0, <1>16, <2>1, <2>2 DEF SessionInv, StateTypes, n, c
    <2>8. /\ close_queued' \in [Ends -> {"no", "queued", "dangling"}]
      BY <1>16 DEF SessionInv, StateTypes
    <2>9. removing' \in BOOLEAN /\ starting' \in BOOLEAN
      BY <1>16, <2>6 DEF SessionInv, StateTypes
    <2>10. StateTypes'
      BY <1>6, <1>9, <1>11, <2>7, <2>8, <2>9 DEF StateTypes
    <2>11. \A d \in Ends : EndOK(d)'
      BY <1>4, <1>6, <1>11, <2>3, <2>7, <2>10, BothEnds DEF o
    <2>12. ClientOK'
      <3>1. CASE e = "client"
        <4>1. starting' = Retries("client", b) /\ removing' = TRUE
          BY <1>14, <1>16, <3>1, <2>6
        <4>2. MainInv(n, c, starting', TRUE, stream_attempts)
          <5>1. starting' => n.state = "NONE" /\ ~c.established /\ ~c.failed
            BY <2>1, <2>2, <2>4, <2>5, <3>1, <4>1
          <5>2. /\ stream_attempts \in Nat
                /\ stream_attempts <= STREAM_CONNECT_MAX + 1
                /\ stream_attempts = STREAM_CONNECT_MAX + 1 => app["client"].failed
            BY DEF SessionInv, ClientOK, MainInv
          <5>3. app["client"].failed => c.failed
            BY <1>15, <2>4, <3>1
          <5> QED BY <2>1, <5>1, <5>2, <5>3, Zenon DEF MainInv
        <4> QED BY <1>1, <1>6, <2>4, <2>7, <3>1, <4>1, <4>2 DEF ClientOK
      <3>2. CASE e = "server"
        <4>1. starting' = starting /\ removing' = removing
          BY <1>16, <2>5, <2>6, <3>2 DEF SessionInv, StateTypes
        <4>2. o = "client"
          BY <3>2 DEF o
        <4> QED BY <1>1, <1>6, <2>7, <4>1, <4>2 DEF SessionInv, ClientOK
      <3> QED BY <3>1, <3>2 DEF Ends
    <2> QED BY <2>10, <2>11, <2>12 DEF SessionInv
  <1>17. CASE /\ peer' = [peer EXCEPT ![e] = r]
              /\ sf' = [sf EXCEPT ![e] = u]
              /\ app' = [app EXCEPT ![e] = b]
              /\ UNCHANGED <<starting, close_queued, removing>>
    <2>1. /\ peer' \in [Ends -> FillpPeer] /\ sf' \in [Ends -> StreamFile]
          /\ app' \in [Ends -> AppFlags]
          /\ peer'[e] = r /\ sf'[e] = u /\ app'[e] = b
          /\ peer'[o] = peer[o] /\ sf'[o] = sf[o] /\ app'[o] = app[o]
      BY <1>0, <1>3, <1>17 DEF SessionInv, StateTypes
    <2>2. StateTypes'
      BY <1>6, <1>9, <1>11, <1>17, <2>1 DEF SessionInv, StateTypes
    <2>3. \A d \in Ends : EndOK(d)'
      BY <1>4, <1>6, <1>11, <1>12, <2>1, <2>2, BothEnds DEF o
    <2>4. ClientOK'
      <3>1. CASE e = "client"
        <4>1. MainInv(r, b, starting, removing, stream_attempts)
          BY <1>14, <1>15, <3>1 DEF SessionInv, ClientOK, MainInv
        <4> QED BY <1>1, <1>6, <1>13, <1>17, <2>1, <3>1, <4>1 DEF ClientOK
      <3>2. CASE e = "server"
        <4>1. o = "client"
          BY <3>2 DEF o
        <4> QED BY <1>1, <1>6, <1>17, <2>1, <4>1 DEF SessionInv, ClientOK
      <3> QED BY <3>1, <3>2 DEF Ends
    <2> QED BY <2>2, <2>3, <2>4 DEF SessionInv
  <1> QED BY <1>16, <1>17 DEF PumpResult

\* Every step of the system.
LEMMA SessionNext ==
  ASSUME SessionInv, [Next]_vars
  PROVE  SessionInv'
  <1>1. CASE UNCHANGED vars
    <2>1. /\ UNCHANGED <<peer, fileVars, mainVars, sent, packed, removing>>
          /\ net' = net /\ close_queued' = close_queued
      BY <1>1 DEF vars, engineVars
    <2>2. /\ net' \subseteq Message
          /\ close_queued' \in [Ends -> {"no", "queued", "dangling"}]
      BY <2>1 DEF SessionInv, StateTypes
    <2> QED BY <2>1, <2>2, SameStep
  <1>2. CASE GiveUp
    BY <1>2, GiveUpSession
  <1>3. ASSUME NEW r \in ConnectResults, stream_connect(r) PROVE SessionInv'
    BY <1>3, ConnectSession
  <1>4. CASE fp_handle_conn_req
    BY <1>4, ConnReqSession
  <1>5. ASSUME NEW opens \in BOOLEAN,
               fp_handle_conn_confirm(opens) \/ fp_handle_conn_confirm_ack(opens)
        PROVE  SessionInv'
    BY <1>5, ConfirmSession
  <1>6. ASSUME \/ fp_handle_conn_req_ack
               \/ Retransmit
               \/ \E e \in Ends : HandshakeTimeout(e)
               \/ \E e \in Ends : OnFin(e)
               \/ PhoneClose
               \/ \E e \in Ends : fp_peer_close_cb(e)
        PROVE  SessionInv'
    BY <1>6, QuietSession
  <1>7. ASSUME NEW e \in Ends, NEW outcome \in {"ok", "error", "mismatch"},
               NEW flush \in BOOLEAN, fp_on_data(e, outcome, flush)
        PROVE  SessionInv'
    <2>1. EngineFree(e)
      BY <1>7 DEF fp_on_data
    <2>2. StateTypes /\ EndOK(e)
      BY DEF SessionInv
    <2> QED BY <1>7, <2>1, <2>2, DataDoes, DataSession
  <1>8. ASSUME NEW e \in Ends, fp_on_pack(e) PROVE SessionInv'
    BY <1>8, PackSession
  <1>9. ASSUME NEW e \in Ends, NEW fill \in {"ok", "skip", "error"},
               NEW due \in BOOLEAN, NEW expired \in BOOLEAN,
               Pump(e, fill, due, expired)
        PROVE  SessionInv'
    <2>1. EngineFree(e) /\ peer[e].state \in {"ESTABLISHED", "CLOSING"}
      BY <1>9 DEF Pump
    <2>2. StateTypes /\ EndOK(e)
      BY DEF SessionInv
    <2> QED BY <1>9, <2>1, <2>2, PumpDoes, PumpSession
  <1>10. CASE FinalizeRemoves
    BY <1>10, RemoveSession
  <1> QED BY <1>1, <1>2, <1>3, <1>4, <1>5, <1>6, <1>7, <1>8, <1>9, <1>10 DEF Next

\* The account of both ends and of the daemon's one session holds in every
\* reachable state, whatever the phone does and whichever sends fail.
THEOREM SessionInvariant == Spec => []SessionInv
  BY SessionInit, SessionNext, PTL DEF Spec

\* The state of the stream phase is well typed.
THEOREM StreamTypeCorrect == Spec => []TypeOK
  <1>1. SessionInv => TypeOK
    <2> SUFFICES ASSUME SessionInv PROVE TypeOK
      OBVIOUS
    <2> USE EndsFacts
    <2>1. stream_attempts \in 0 .. STREAM_CONNECT_MAX + 1
      <3>1. STREAM_CONNECT_MAX \in Nat
        BY SessionAssumption
      <3>2. stream_attempts \in Nat /\ stream_attempts <= STREAM_CONNECT_MAX + 1
        BY DEF SessionInv, ClientOK, MainInv
      <3> QED BY <3>1, <3>2
    <2>2. ASSUME NEW e \in Ends
          PROVE  /\ peer[e].send_pkt_num \in peer[e].acked .. Frames(e)
                 /\ {sent[e], packed[e], sf[e].tx_offset} \subseteq 0 .. Frames(e)
                 /\ sf[e].rx_received <= Chunks[Other(e)]
      <3>1. EndInv(e, peer[e], sf[e], app[e], sent[e], packed[e], sent[Other(e)])
        BY DEF SessionInv, EndOK
      <3>2. /\ peer[e].acked \in Nat /\ peer[e].send_pkt_num \in Nat
            /\ peer[e].recv_pkt_num \in Nat /\ sf[e].tx_offset \in Nat
            /\ sf[e].rx_received \in Nat /\ sent[e] \in Nat /\ packed[e] \in Nat
            /\ sent[Other(e)] \in Nat
        BY PeerFields, FileFields DEF SessionInv, StateTypes
      <3>3. sent[Other(e)] <= Frames(Other(e))
        BY DEF SessionInv, EndOK, EndInv, SendCounters
      <3>4. sf[e].rx_received <= Chunks[Other(e)]
        <4>1. /\ peer[e].recv_pkt_num <= sent[Other(e)]
              /\ sf[e].rx_received = 0 \/ sf[e].rx_received < peer[e].recv_pkt_num
          BY <3>1 DEF EndInv, ReceiveCounters
        <4>2. Frames(Other(e)) = Chunks[Other(e)] + 1 /\ Chunks[Other(e)] \in Nat
          OBVIOUS
        <4> QED BY <3>2, <3>3, <4>1, <4>2
      <3>5. /\ peer[e].acked <= peer[e].send_pkt_num
            /\ peer[e].send_pkt_num <= sf[e].tx_offset
            /\ sf[e].tx_offset <= Frames(e) /\ sent[e] <= Frames(e)
            /\ packed[e] <= Frames(e) /\ Frames(e) \in Nat
        BY <3>1 DEF EndInv, SendCounters
      <3> QED BY <3>2, <3>4, <3>5
    <2> QED BY <2>1, <2>2 DEF SessionInv, StateTypes, TypeOK
  <1> QED BY <1>1, SessionInvariant, PTL

\* The daemon reports one verdict on its stream phase: a direction that was
\* lost when the phase failed is never reported as done (on_stream_done,
\* on_stream_closed, stream_connect).
THEOREM OneVerdictHolds == Spec => []OneVerdict
  <1>1. SessionInv => OneVerdict
    <2> SUFFICES ASSUME SessionInv,
                        app["client"].failed, app["client"].tx_done,
                        app["client"].rx_done
                 PROVE  FALSE
      BY DEF OneVerdict
    <2>1. app["client"].established
      BY EndsFacts DEF SessionInv, EndOK, EndInv, Attached
    <2> QED BY <2>1 DEF SessionInv, ClientOK, OneSession, OneIsLost
  <1> QED BY <1>1, SessionInvariant, PTL

-----------------------------------------------------------------------------
(***************************************************************************)
(* Messages, packets, acknowledgements and flags are never taken back.     *)
(***************************************************************************)

FlagsGrow(a, b) ==
  /\ a.established => b.established
  /\ a.tx_done => b.tx_done
  /\ a.rx_done => b.rx_done

Grows ==
  /\ net \subseteq net'
  /\ \A e \in Ends : /\ FlagsGrow(app[e], app'[e])
                     /\ sent[e] <= sent'[e]
                     /\ packed[e] <= packed'[e]

\* A pump takes nothing back.
LEMMA PumpGrows ==
  ASSUME SessionInv, NEW e \in Ends,
         NEW q, NEW t, NEW r, NEW u, NEW b, PumpResult(e, q, t, r, u, b)
  PROVE  Grows
  <1> USE EndsFacts
  <1> DEFINE o == Other(e)
  <1>1. /\ q.send_pkt_num \in Nat /\ q.recv_pkt_num \in Nat /\ b \in AppFlags
        /\ FlagsGrow(app[e], b)
    <2>1. q \in FillpPeer /\ b \in AppFlags
      BY DEF PumpResult, Filled, ReportedTx
    <2>2. FlagsGrow(app[e], b)
      BY DEF PumpResult, ReportedTx, FlagsGrow
    <2> QED BY <2>1, <2>2, PeerFields
  <1>2. /\ app \in [Ends -> AppFlags] /\ sent \in [Ends -> Nat]
        /\ packed \in [Ends -> Nat]
    BY DEF SessionInv, StateTypes
  <1>3. app' = [app EXCEPT ![e] = ClosedFlags(b)] \/ app' = [app EXCEPT ![e] = b]
    BY DEF PumpResult
  <1>4. FlagsGrow(app[e], ClosedFlags(b))
    BY <1>1, ClosedFields DEF FlagsGrow
  <1>5. /\ FlagsGrow(app[e], app'[e])
        /\ app'[o] = app[o]
    BY <1>1, <1>2, <1>3, <1>4
  <1>6. FlagsGrow(app[o], app[o])
    BY DEF FlagsGrow
  <1>7. sent[e] <= sent'[e] /\ sent[o] <= sent'[o]
    <2>1. sent' = [sent EXCEPT ![e] = Max2(sent[e], q.send_pkt_num)]
      BY <1>2 DEF PumpResult
    <2>2. sent'[e] = Max2(sent[e], q.send_pkt_num) /\ sent'[o] = sent[o]
      BY <1>2, <2>1
    <2>3. sent[e] \in Nat /\ sent[o] \in Nat /\ q.send_pkt_num \in Nat
      BY <1>1, <1>2
    <2>4. sent[e] <= Max2(sent[e], q.send_pkt_num)
      BY <2>3, Max2Fact
    <2>5. sent[o] <= sent[o]
      BY <2>3
    <2> QED BY <2>2, <2>4, <2>5
  <1>8. packed[e] <= packed'[e] /\ packed[o] <= packed'[o]
    <2>1. \/ packed' = packed
          \/ packed' = [packed EXCEPT ![o] = Max2(packed[o], q.recv_pkt_num)]
      BY <1>2 DEF PumpResult
    <2>2. CASE packed' = packed
      BY <1>2, <2>2
    <2>3. CASE packed' = [packed EXCEPT ![o] = Max2(packed[o], q.recv_pkt_num)]
      <3>1. packed'[o] = Max2(packed[o], q.recv_pkt_num) /\ packed'[e] = packed[e]
        BY <1>2, <2>3
      <3>2. packed[o] \in Nat /\ packed[e] \in Nat /\ q.recv_pkt_num \in Nat
        BY <1>1, <1>2
      <3>3. packed[o] <= Max2(packed[o], q.recv_pkt_num)
        BY <3>2, Max2Fact
      <3>4. packed[e] <= packed[e]
        BY <3>2
      <3> QED BY <3>1, <3>3, <3>4
    <2> QED BY <2>1, <2>2, <2>3
  <1>9. net \subseteq net'
    BY DEF PumpResult, FinsSent
  <1>10. \A d \in Ends : d = e \/ d = o
    BY DEF Ends, Other
  <1> QED BY <1>5, <1>6, <1>7, <1>8, <1>9, <1>10 DEF Grows

\* Nor does a packet.
LEMMA DataGrows ==
  ASSUME SessionInv, NEW e \in Ends,
         NEW q, NEW r, NEW t, NEW b, DataResult(e, q, r, t, b)
  PROVE  Grows
  <1> USE EndsFacts
  <1> DEFINE o == Other(e)
  <1>1. q.recv_pkt_num \in Nat /\ FlagsGrow(app[e], b)
    <2>1. q \in FillpPeer
      BY DEF DataResult, Counted
    <2>2. FlagsGrow(app[e], b)
      BY DEF DataResult, ReportedRx, FlagsGrow
    <2> QED BY <2>1, <2>2, PeerFields
  <1>2. /\ app \in [Ends -> AppFlags] /\ sent \in [Ends -> Nat]
        /\ packed \in [Ends -> Nat]
    BY DEF SessionInv, StateTypes
  <1>3. app' = [app EXCEPT ![e] = b] /\ sent' = sent
    BY DEF DataResult
  <1>4. FlagsGrow(app[e], app'[e]) /\ app'[o] = app[o]
    BY <1>1, <1>2, <1>3
  <1>5. FlagsGrow(app[o], app[o])
    BY DEF FlagsGrow
  <1>6. sent[e] <= sent'[e] /\ sent[o] <= sent'[o]
    BY <1>2, <1>3
  <1>7. packed[e] <= packed'[e] /\ packed[o] <= packed'[o]
    <2>1. \/ packed' = packed
          \/ packed' = [packed EXCEPT ![o] = Max2(packed[o], q.recv_pkt_num)]
      BY <1>2 DEF DataResult
    <2>2. CASE packed' = packed
      BY <1>2, <2>2
    <2>3. CASE packed' = [packed EXCEPT ![o] = Max2(packed[o], q.recv_pkt_num)]
      <3>1. packed'[o] = Max2(packed[o], q.recv_pkt_num) /\ packed'[e] = packed[e]
        BY <1>2, <2>3
      <3>2. packed[o] \in Nat /\ packed[e] \in Nat /\ q.recv_pkt_num \in Nat
        BY <1>1, <1>2
      <3>3. packed[o] <= Max2(packed[o], q.recv_pkt_num)
        BY <3>2, Max2Fact
      <3>4. packed[e] <= packed[e]
        BY <3>2
      <3> QED BY <3>1, <3>3, <3>4
    <2> QED BY <2>1, <2>2, <2>3
  <1>8. net \subseteq net'
    BY DEF DataResult, FinsSent
  <1>9. \A d \in Ends : d = e \/ d = o
    BY DEF Ends, Other
  <1> QED BY <1>4, <1>5, <1>6, <1>7, <1>8, <1>9 DEF Grows

\* The two actions with an account of their own, as that account.
LongStep ==
  \E e \in Ends :
    \/ \E q, r, t, b : DataResult(e, q, r, t, b)
    \/ /\ peer[e].state \in {"ESTABLISHED", "CLOSING"}
       /\ \E q, t, r, u, b : PumpResult(e, q, t, r, u, b)

\* The others, in none of which a packet is sent or acknowledged.
ShortStep ==
  \/ GiveUp
  \/ \E r \in ConnectResults : stream_connect(r)
  \/ fp_handle_conn_req
  \/ fp_handle_conn_req_ack
  \/ \E opens \in BOOLEAN : fp_handle_conn_confirm(opens)
  \/ \E opens \in BOOLEAN : fp_handle_conn_confirm_ack(opens)
  \/ Retransmit
  \/ \E e \in Ends : HandshakeTimeout(e)
  \/ \E e \in Ends : fp_on_pack(e)
  \/ \E e \in Ends : OnFin(e)
  \/ FinalizeRemoves
  \/ PhoneClose
  \/ \E e \in Ends : fp_peer_close_cb(e)
  \/ UNCHANGED vars

\* Every step is one or the other.
LEMMA Steps ==
  ASSUME SessionInv, [Next]_vars
  PROVE  LongStep \/ ShortStep
  <1>1. ASSUME NEW e \in Ends, NEW outcome \in {"ok", "error", "mismatch"},
               NEW flush \in BOOLEAN, fp_on_data(e, outcome, flush)
        PROVE  LongStep
    <2>1. StateTypes /\ EndOK(e)
      BY DEF SessionInv
    <2>2. \E q, r, t, b : DataResult(e, q, r, t, b)
      BY <1>1, <2>1, DataDoes
    <2> QED BY <2>2, Zenon DEF LongStep
  <1>2. ASSUME NEW e \in Ends, NEW fill \in {"ok", "skip", "error"},
               NEW due \in BOOLEAN, NEW expired \in BOOLEAN,
               Pump(e, fill, due, expired)
        PROVE  LongStep
    <2>1. StateTypes /\ EndOK(e)
      BY DEF SessionInv
    <2>2. \E q, t, r, u, b : PumpResult(e, q, t, r, u, b)
      BY <1>2, <2>1, PumpDoes
    <2>3. peer[e].state \in {"ESTABLISHED", "CLOSING"}
      BY <1>2 DEF Pump
    <2> QED BY <2>2, <2>3, Zenon DEF LongStep
  <1> QED BY <1>1, <1>2 DEF Next, ShortStep

\* Short steps take nothing back either.
LEMMA ShortGrows ==
  ASSUME SessionInv, ShortStep
  PROVE  Grows
  <1> USE EndsFacts
  <1>1. net \subseteq net'
    BY DEF ShortStep, GiveUp, stream_connect, fp_handle_conn_req,
           fp_handle_conn_req_ack, fp_handle_conn_confirm,
           fp_handle_conn_confirm_ack, Retransmit, HandshakeTimeout,
           fp_on_pack, OnFin, FinalizeRemoves, PhoneClose, fp_peer_close_cb,
           Send, Reply, vars, engineVars
  <1>2. sent' = sent /\ packed' = packed
    BY DEF ShortStep, GiveUp, stream_connect, fp_handle_conn_req,
           fp_handle_conn_req_ack, fp_handle_conn_confirm,
           fp_handle_conn_confirm_ack, Retransmit, HandshakeTimeout,
           fp_on_pack, OnFin, FinalizeRemoves, PhoneClose, fp_peer_close_cb,
           vars, engineVars
  <1>3. \/ app' = app
        \/ GiveUp
        \/ \E e \in Ends, opens \in BOOLEAN : Established(e, opens)
    BY DEF ShortStep, stream_connect, fp_handle_conn_req,
           fp_handle_conn_req_ack, fp_handle_conn_confirm,
           fp_handle_conn_confirm_ack, Retransmit, HandshakeTimeout,
           fp_on_pack, OnFin, FinalizeRemoves, PhoneClose, fp_peer_close_cb,
           vars, fileVars
  <1>4. \A e \in Ends : sent[e] <= sent'[e] /\ packed[e] <= packed'[e]
    BY <1>2 DEF SessionInv, StateTypes
  <1>5. \A e \in Ends : FlagsGrow(app[e], app'[e])
    <2>1. CASE app' = app
      BY <2>1 DEF FlagsGrow
    <2>2. CASE GiveUp
      <3>1. app' = [app EXCEPT !["client"].failed = TRUE]
        BY <2>2 DEF GiveUp
      <3>2. app \in [Ends -> AppFlags]
        BY DEF SessionInv, StateTypes
      <3> QED BY <3>1, <3>2 DEF FlagsGrow, AppFlags
    <2>3. ASSUME NEW e \in Ends, NEW opens \in BOOLEAN, Established(e, opens)
          PROVE  \A d \in Ends : FlagsGrow(app[d], app'[d])
      <3>1. StateTypes
        BY DEF SessionInv
      <3>2. /\ Opened(peer[e], app[e], peer'[e], sf'[e], app'[e],
                      e \in Senders /\ opens)
            /\ \A o \in Ends : o # e => app'[o] = app[o]
        BY <2>3, <3>1, EstablishedOpens
      <3>3. FlagsGrow(app[e], app'[e])
        BY <3>2 DEF Opened, FlagsGrow
      <3> QED BY <3>2, <3>3 DEF FlagsGrow
    <2> QED BY <1>3, <2>1, <2>2, <2>3
  <1> QED BY <1>1, <1>4, <1>5 DEF Grows

\* No step takes anything back.
LEMMA NextGrows ==
  ASSUME SessionInv, [Next]_vars
  PROVE  Grows
  BY Steps, ShortGrows, DataGrows, PumpGrows DEF LongStep

-----------------------------------------------------------------------------
(***************************************************************************)
(* The handshake.  What a step may do to it:                               *)
(***************************************************************************)

HandshakeStep ==
  /\ peer["server"].state = "ESTABLISHED" =>
       \/ peer'["server"].state = "ESTABLISHED"
       \/ close_queued["server"] # "no"
       \/ Fin("server") \in net
  /\ Ack \in net' => Ack \in net \/ peer'["server"].state = "ESTABLISHED"
  /\ peer'["client"].state = "ESTABLISHED" =>
       peer["client"].state = "ESTABLISHED" \/ Ack \in net
  /\ Fin("server") \in net' =>
       \/ Fin("server") \in net
       \/ app'["client"].established /\ peer'["client"].state \in {"CLOSING", "NONE"}
  /\ app["client"].established /\ peer["client"].state \in {"CLOSING", "NONE"} =>
       peer'["client"].state \in {"CLOSING", "NONE"}
  /\ close_queued'["server"] # "no" =>
       close_queued["server"] # "no" \/ Done(app["server"])
  /\ peer'["client"].pending_fin => peer'["client"].state = "CLOSING"

\* Such a step keeps the invariant of the handshake.
LEMMA HandshakeKept ==
  ASSUME HandshakeInv, HandshakeStep, Grows
  PROVE  HandshakeInv'
  <1>1. /\ net \subseteq net'
        /\ FlagsGrow(app["client"], app'["client"])
        /\ FlagsGrow(app["server"], app'["server"])
    BY EndsFacts DEF Grows
  <1>2. /\ Done(app["server"]) => Done(app'["server"])
        /\ app["client"].established => app'["client"].established
    BY <1>1 DEF FlagsGrow, Done
  <1>3. (close_queued["server"] # "no" => Done(app["server"]))'
    BY <1>2 DEF HandshakeInv, HandshakeStep
  <1>4. (Ack \in net => \/ peer["server"].state = "ESTABLISHED"
                        \/ Done(app["server"])
                        \/ Fin("server") \in net)'
    BY <1>1, <1>2 DEF HandshakeInv, HandshakeStep
  <1>5. (peer["client"].state = "ESTABLISHED" => Ack \in net)'
    BY <1>1 DEF HandshakeInv, HandshakeStep
  <1>6. (Fin("server") \in net => /\ app["client"].established
                                  /\ peer["client"].state \in {"CLOSING", "NONE"})'
    BY <1>2 DEF HandshakeInv, HandshakeStep
  <1>7. (peer["client"].pending_fin => peer["client"].state = "CLOSING")'
    BY DEF HandshakeStep
  <1> QED BY <1>3, <1>4, <1>5, <1>6, <1>7 DEF HandshakeInv

\* Messages of different types or to different ends differ.
LEMMA DistinctMessages ==
  /\ Fin("server") # Fin("client")
  /\ \A e \in Ends : Fin(e) # Ack
  /\ \A e \in Ends : /\ Msg("CONN_REQ", e) \notin {Ack, Fin("client"), Fin("server")}
                     /\ Msg("CONN_REQ_ACK", e) \notin {Ack, Fin("client"), Fin("server")}
                     /\ Msg("CONN_CONFIRM", e) \notin {Ack, Fin("client"), Fin("server")}
  BY DEF Msg, Fin, Ack, Ends

\* A packet.
LEMMA DataHandshake ==
  ASSUME SessionInv, HandshakeInv, NEW e \in Ends,
         NEW q, NEW r, NEW t, NEW b, DataResult(e, q, r, t, b)
  PROVE  HandshakeStep
  <1> USE EndsFacts, DistinctMessages
  <1>1. /\ peer \in [Ends -> FillpPeer] /\ app \in [Ends -> AppFlags]
    BY DEF SessionInv, StateTypes
  <1>2. /\ peer' = [peer EXCEPT ![e] = r] /\ app' = [app EXCEPT ![e] = b]
        /\ close_queued' = close_queued
        /\ net' \subseteq net \cup {Fin(Other(e))}
        /\ peer[e].state \in {"ESTABLISHED", "CLOSING"}
        /\ Counted(peer[e], q) /\ Kept(q, r) /\ r.pending_fin = q.pending_fin
        /\ ReportedRx(sf[e], t, app[e], b)
    BY DEF DataResult, FinsSent
  <1>3. /\ peer'[e] = r /\ app'[e] = b
        /\ peer'[Other(e)] = peer[Other(e)] /\ app'[Other(e)] = app[Other(e)]
    BY <1>1, <1>2
  <1>4. /\ q.state = peer[e].state /\ q.pending_fin = peer[e].pending_fin
        /\ q.fill_done = peer[e].fill_done
        /\ r.state = q.state \/ r.state = "CLOSING"
        /\ b.established = app[e].established
    BY <1>2 DEF Counted, Kept, ReportedRx
  <1>5. CASE e = "server"
    <2>1. r.state = q.state
      BY <1>5 DEF DataResult
    <2> QED BY <1>2, <1>3, <1>4, <1>5, <2>1 DEF HandshakeStep, HandshakeInv
  <1>6. CASE e = "client"
    <2>1. /\ q.fill_done => app[e].established
          /\ peer[e].state = "ESTABLISHED" => app[e].established
      BY <1>4 DEF SessionInv, EndOK, EndInv, Attached
    <2>2. Done(b) => b.established
      BY <1>2, <1>4, NewPeerFields
         DEF SessionInv, EndOK, EndInv, Attached, Done, ReportedRx
    <2>3. q.pending_fin => r.state = "CLOSING"
      BY <1>4, <1>6 DEF HandshakeInv
    <2>4. Fin("server") \in net' =>
            Fin("server") \in net \/ (b.established /\ r.state = "CLOSING")
      BY <1>4, <1>6, <2>1, <2>2, <2>3 DEF DataResult, FinsSent
    <2>5. Ack \in net' => Ack \in net
      BY <1>2, <1>6
    <2>6. /\ r.state = "ESTABLISHED" => peer[e].state = "ESTABLISHED"
          /\ r.pending_fin => r.state = "CLOSING"
          /\ peer[e].state \in {"CLOSING", "NONE"} => r.state \in {"CLOSING", "NONE"}
      BY <1>2, <1>4, <2>3
    <2> QED BY <1>2, <1>3, <1>6, <2>4, <2>5, <2>6 DEF HandshakeStep
  <1> QED BY <1>5, <1>6 DEF Ends

\* A pump.
LEMMA PumpHandshake ==
  ASSUME SessionInv, HandshakeInv, NEW e \in Ends,
         peer[e].state \in {"ESTABLISHED", "CLOSING"},
         NEW q, NEW t, NEW r, NEW u, NEW b, PumpResult(e, q, t, r, u, b)
  PROVE  HandshakeStep
  <1> USE EndsFacts, DistinctMessages
  <1>1. /\ peer \in [Ends -> FillpPeer] /\ app \in [Ends -> AppFlags]
        /\ close_queued \in [Ends -> {"no", "queued", "dangling"}]
    BY DEF SessionInv, StateTypes
  <1>2. /\ net' \subseteq net \cup {Fin(Other(e))}
        /\ Filled(e, peer[e], sf[e], q, t) /\ Kept(q, r)
        /\ r.pending_fin => q.pending_fin
        /\ ReportedTx(q, sf[e], t, u, app[e], b)
    BY DEF PumpResult, FinsSent
  <1>3. /\ q.state = peer[e].state /\ q.pending_fin = peer[e].pending_fin
        /\ r.state = q.state \/ r.state = "CLOSING"
        /\ b.established = app[e].established
        /\ b \in AppFlags
    BY <1>2 DEF Filled, Kept, ReportedTx
  <1> DEFINE n == NewPeer("NONE")
             c == ClosedFlags(b)
  <1>4. n.state = "NONE" /\ n.pending_fin = FALSE /\ c.established = b.established
    BY <1>3, NewPeerFields, ClosedFields
  <1> HIDE DEF n, c
  <1>5. /\ peer' = [peer EXCEPT ![e] = n] \/ peer' = [peer EXCEPT ![e] = r]
        /\ app' = [app EXCEPT ![e] = c] \/ app' = [app EXCEPT ![e] = b]
        /\ peer' = [peer EXCEPT ![e] = n] => r.state = "CLOSING"
                                             \/ peer' = [peer EXCEPT ![e] = r]
        /\ close_queued'["server"] # "no" => close_queued["server"] # "no"
    BY <1>1 DEF PumpResult, n, c
  <1>6. /\ peer'[e] = r \/ (peer'[e] = n /\ r.state = "CLOSING")
        /\ peer'[Other(e)] = peer[Other(e)] /\ app'[Other(e)] = app[Other(e)]
        /\ app'[e].established = app[e].established
    BY <1>1, <1>3, <1>4, <1>5
  <1>7. CASE e = "server"
    <2>1. r.state = q.state
      BY <1>7 DEF PumpResult
    <2>2. peer[e].state = "ESTABLISHED" => peer'[e].state = "ESTABLISHED"
      BY <1>3, <1>6, <2>1
    <2>3. peer'["client"] = peer["client"] /\ app'["client"] = app["client"]
      BY <1>6, <1>7
    <2>4. /\ Ack \in net' => Ack \in net
          /\ Fin("server") \in net' => Fin("server") \in net
      BY <1>2, <1>7
    <2> QED BY <1>5, <1>7, <2>2, <2>3, <2>4 DEF HandshakeStep, HandshakeInv
  <1>8. CASE e = "client"
    <2>1. q.fill_done => app[e].established
      BY <1>2 DEF SessionInv, EndOK, EndInv, Attached, Filled
    <2>2. Done(b) => b.established
      BY <1>2, <1>3, <2>1
         DEF SessionInv, EndOK, EndInv, Attached, Done, ReportedTx
    <2>3. q.pending_fin => r.state = "CLOSING"
      BY <1>3, <1>8 DEF HandshakeInv
    <2>4. Fin("server") \in net' =>
            Fin("server") \in net \/ (b.established /\ r.state = "CLOSING")
      BY <1>3, <1>8, <2>1, <2>2, <2>3 DEF PumpResult, FinsSent
    <2>5. Ack \in net' => Ack \in net
      BY <1>2, <1>8
    <2>6. /\ peer'[e].state = "ESTABLISHED" => peer[e].state = "ESTABLISHED"
          /\ peer'[e].pending_fin => peer'[e].state = "CLOSING"
          /\ peer[e].state = "CLOSING" => peer'[e].state \in {"CLOSING", "NONE"}
          /\ r.state = "CLOSING" => peer'[e].state \in {"CLOSING", "NONE"}
      BY <1>2, <1>3, <1>4, <1>6, <2>3
    <2>7. /\ Fin("server") \in net' =>
               \/ Fin("server") \in net
               \/ app'[e].established /\ peer'[e].state \in {"CLOSING", "NONE"}
      BY <1>3, <1>6, <2>4, <2>6
    <2>8. peer'["server"] = peer["server"]
      BY <1>6, <1>8
    <2>9. /\ (peer["server"].state = "ESTABLISHED" =>
                \/ peer'["server"].state = "ESTABLISHED"
                \/ close_queued["server"] # "no"
                \/ Fin("server") \in net)
          /\ (Ack \in net' => Ack \in net \/ peer'["server"].state = "ESTABLISHED")
      BY <2>5, <2>8
    <2> QED BY <1>5, <1>8, <2>6, <2>7, <2>9 DEF HandshakeStep
  <1> QED BY <1>7, <1>8 DEF Ends

\* A step that changes at most the peer of one end, and there closes it or
\* sets its flags; ms is what it sends.
PeerStep(e, q, ms) ==
  /\ peer' = [peer EXCEPT ![e] = q]
  /\ app' = app
  /\ net' = net \cup ms
  /\ close_queued'["server"] # "no" => close_queued["server"] # "no"

\* Handlers of the daemon's engine that establish nothing.
LEMMA ClientPeerHandshake ==
  ASSUME SessionInv, HandshakeInv, NEW q, NEW ms, PeerStep("client", q, ms),
         Ack \notin ms,
         q.state = "ESTABLISHED" => peer["client"].state = "ESTABLISHED",
         q.pending_fin => q.state = "CLOSING",
         app["client"].established /\ peer["client"].state \in {"CLOSING", "NONE"}
           => q.state \in {"CLOSING", "NONE"},
         Fin("server") \in ms => app["client"].established /\ q.state = "CLOSING"
  PROVE  HandshakeStep
  <1>1. /\ peer'["client"] = q /\ peer'["server"] = peer["server"] /\ app' = app
        /\ Ack \in net' => Ack \in net
        /\ Fin("server") \in net' => Fin("server") \in net \/ Fin("server") \in ms
        /\ close_queued'["server"] # "no" => close_queued["server"] # "no"
    BY EndsFacts DEF PeerStep, SessionInv, StateTypes
  <1> QED BY <1>1 DEF HandshakeStep

\* Handlers of the phone's engine that establish nothing.
LEMMA ServerPeerHandshake ==
  ASSUME SessionInv, HandshakeInv, NEW q, NEW ms, PeerStep("server", q, ms),
         Ack \notin ms, Fin("server") \notin ms,
         peer["server"].state = "ESTABLISHED" =>
           \/ q.state = "ESTABLISHED"
           \/ close_queued["server"] # "no"
           \/ Fin("server") \in net
  PROVE  HandshakeStep
  <1>1. /\ peer'["server"] = q /\ peer'["client"] = peer["client"] /\ app' = app
        /\ Ack \in net' => Ack \in net
        /\ Fin("server") \in net' => Fin("server") \in net
        /\ close_queued'["server"] # "no" => close_queued["server"] # "no"
    BY EndsFacts DEF PeerStep, SessionInv, StateTypes
  <1> QED BY <1>1 DEF HandshakeStep, HandshakeInv

\* Steps that leave both peers.
LEMMA CalmHandshake ==
  ASSUME HandshakeInv, peer' = peer,
         Ack \in net' => Ack \in net, Fin("server") \in net' => Fin("server") \in net,
         close_queued'["server"] # "no" =>
           close_queued["server"] # "no" \/ Done(app["server"])
  PROVE  HandshakeStep
  BY DEF HandshakeStep, HandshakeInv

\* Messages and fields of a close.
LEMMA ClosingFields ==
  ASSUME NEW p \in FillpPeer, NEW e \in Ends
  PROVE  /\ Closing(p).state = IF p.state = "NONE" THEN "NONE" ELSE "CLOSING"
         /\ Closing(p).pending_fin = p.pending_fin
         /\ [Closing(p) EXCEPT !.peer_fin = TRUE, !.pending_fin = TRUE].state
              = Closing(p).state
         /\ [Closing(p) EXCEPT !.peer_fin = TRUE, !.pending_fin = TRUE].pending_fin
              = TRUE
         /\ CloseFin(p, e) = IF p.state = "ESTABLISHED" THEN {Fin(Other(e))} ELSE {}
  <1>1. p.state \in {"NONE", "PENDING", "ESTABLISHED", "CLOSING"}
    BY PeerFields
  <1>2. Closing(p).state = IF p.state = "NONE" THEN "NONE" ELSE "CLOSING"
    BY <1>1 DEF Closing, FillpPeer
  <1>3. Closing(p).pending_fin = p.pending_fin /\ Closing(p) \in FillpPeer
    BY <1>1 DEF Closing, FillpPeer
  <1>4. /\ [Closing(p) EXCEPT !.peer_fin = TRUE, !.pending_fin = TRUE].state
             = Closing(p).state
        /\ [Closing(p) EXCEPT !.peer_fin = TRUE, !.pending_fin = TRUE].pending_fin
             = TRUE
    BY <1>3 DEF FillpPeer
  <1>5. CloseFin(p, e) = IF p.state = "ESTABLISHED" THEN {Fin(Other(e))} ELSE {}
    BY DEF CloseFin, Fin
  <1> QED BY <1>2, <1>3, <1>4, <1>5

\* The steps of the handshake.
LEMMA ShortHandshake ==
  ASSUME PhoneStays, SessionInv, HandshakeInv, ShortStep
  PROVE  HandshakeStep
  <1> USE EndsFacts, DistinctMessages
  <1>0. /\ peer \in [Ends -> FillpPeer] /\ app \in [Ends -> AppFlags]
        /\ peer["client"] \in FillpPeer /\ peer["server"] \in FillpPeer
        /\ close_queued \in [Ends -> {"no", "queued", "dangling"}]
    BY DEF SessionInv, StateTypes
  <1>1. peer["client"].state = "PENDING" => ~app["client"].established
    BY DEF SessionInv, ClientOK, OneSession
  <1>2. CASE GiveUp \/ Retransmit \/ UNCHANGED vars
    <2>1. /\ peer' = peer /\ close_queued' = close_queued
          /\ net' \subseteq net \cup {Msg("CONN_CONFIRM", "server"),
                                      Msg("CONN_REQ", "server")}
      BY <1>2 DEF GiveUp, Retransmit, Send, vars, engineVars
    <2> QED BY <2>1, CalmHandshake
  <1>3. ASSUME NEW result \in ConnectResults, stream_connect(result)
        PROVE  HandshakeStep
    <2>1. /\ starting /\ app' = app
          /\ net' \subseteq net \cup {Msg("CONN_REQ", "server")}
          /\ peer' = peer \/ peer' = [peer EXCEPT !["client"] = NewPeer("PENDING")]
          /\ close_queued'["server"] = close_queued["server"]
      BY <1>0, <1>3 DEF stream_connect, Send, fileVars
    <2>2. ~app["client"].established
      BY <2>1 DEF SessionInv, ClientOK, MainInv
    <2>3. /\ NewPeer("PENDING").state = "PENDING"
          /\ NewPeer("PENDING").pending_fin = FALSE
      BY NewPeerFields
    <2>4. CASE peer' = peer
      BY <2>1, <2>4, CalmHandshake
    <2>5. CASE peer' = [peer EXCEPT !["client"] = NewPeer("PENDING")]
      <3>1. /\ peer'["client"] = NewPeer("PENDING") /\ peer'["server"] = peer["server"]
        BY <1>0, <2>5
      <3>2. /\ Ack \in net' => Ack \in net
            /\ Fin("server") \in net' => Fin("server") \in net
        BY <2>1
      <3> QED BY <2>1, <2>2, <2>3, <3>1, <3>2 DEF HandshakeStep
    <2> QED BY <2>1, <2>4, <2>5
  <1>4. CASE fp_handle_conn_req
    <2>1. /\ app' = app /\ close_queued' = close_queued
          /\ net' \subseteq net \cup {Msg("CONN_REQ_ACK", "client")}
          /\ \/ peer' = peer
             \/ /\ peer["server"].state = "NONE"
                /\ peer' = [peer EXCEPT !["server"] = NewPeer("PENDING")]
      BY <1>4 DEF fp_handle_conn_req, Reply, Send, fileVars
    <2>2. CASE peer' = peer
      BY <2>1, <2>2, CalmHandshake
    <2>3. CASE /\ peer["server"].state = "NONE"
               /\ peer' = [peer EXCEPT !["server"] = NewPeer("PENDING")]
      <3>1. peer'["client"] = peer["client"]
        BY <1>0, <2>3
      <3>2. /\ Ack \in net' => Ack \in net
            /\ Fin("server") \in net' => Fin("server") \in net
        BY <2>1
      <3> QED BY <2>1, <2>3, <3>1, <3>2 DEF HandshakeStep, HandshakeInv
    <2> QED BY <2>1, <2>2, <2>3
  <1>5. CASE fp_handle_conn_req_ack
    <2> DEFINE q == [peer["client"] EXCEPT !.hs_confirm_sent = TRUE]
    <2>1. /\ app' = app /\ close_queued' = close_queued
          /\ net' \subseteq net \cup {Msg("CONN_CONFIRM", "server")}
          /\ peer' = peer \/ peer' = [peer EXCEPT !["client"] = q]
      BY <1>0, <1>5 DEF fp_handle_conn_req_ack, Reply, Send, fileVars
    <2>2. /\ q.state = peer["client"].state
          /\ q.pending_fin = peer["client"].pending_fin
      BY <1>0 DEF FillpPeer
    <2> HIDE DEF q
    <2>3. CASE peer' = peer
      BY <2>1, <2>3, CalmHandshake
    <2>4. CASE peer' = [peer EXCEPT !["client"] = q]
      <3>1. peer'["client"] = q /\ peer'["server"] = peer["server"]
        BY <1>0, <2>4
      <3>2. /\ Ack \in net' => Ack \in net
            /\ Fin("server") \in net' => Fin("server") \in net
        BY <2>1
      <3> QED BY <2>1, <2>2, <3>1, <3>2 DEF HandshakeStep, HandshakeInv
    <2> QED BY <2>1, <2>3, <2>4
  <1>6. ASSUME NEW opens \in BOOLEAN, fp_handle_conn_confirm(opens)
        PROVE  HandshakeStep
    <2>1. /\ close_queued' = close_queued
          /\ net' \subseteq net \cup {Ack}
          /\ peer["server"].state \notin {"PENDING", "ESTABLISHED"} => net' = net
      BY <1>6 DEF fp_handle_conn_confirm, Reply, Send, Ack
    <2>2. CASE peer["server"].state = "PENDING"
      <3>1. Established("server", opens)
        BY <1>6, <2>2 DEF fp_handle_conn_confirm
      <3>2. StateTypes
        BY DEF SessionInv
      <3>3. /\ peer'["server"].state = "ESTABLISHED"
            /\ peer'["client"] = peer["client"] /\ app'["client"] = app["client"]
        <4>1. /\ Opened(peer["server"], app["server"], peer'["server"], sf'["server"],
                        app'["server"], "server" \in Senders /\ opens)
              /\ \A o \in Ends : o # "server" => /\ peer'[o] = peer[o]
                                             /\ sf'[o] = sf[o]
                                             /\ app'[o] = app[o]
          BY <3>1, <3>2, EstablishedOpens
        <4>2. "client" # "server"
          OBVIOUS
        <4> QED BY <4>1, <4>2 DEF Opened
      <3>4. Fin("server") \in net' => Fin("server") \in net
        BY <2>1
      <3> QED BY <2>1, <3>3, <3>4 DEF HandshakeStep, HandshakeInv
    <2>3. CASE peer["server"].state # "PENDING"
      <3>1. peer' = peer /\ app' = app
        BY <1>6, <2>3 DEF fp_handle_conn_confirm
      <3>2. Fin("server") \in net' => Fin("server") \in net
        BY <2>1
      <3>3. Ack \in net' => Ack \in net \/ peer["server"].state = "ESTABLISHED"
        BY <2>1, <2>3
      <3> QED BY <2>1, <3>1, <3>2, <3>3 DEF HandshakeStep, HandshakeInv
    <2> QED BY <2>2, <2>3
  <1>7. ASSUME NEW opens \in BOOLEAN, fp_handle_conn_confirm_ack(opens)
        PROVE  HandshakeStep
    <2>1. /\ close_queued' = close_queued /\ net' = net /\ Ack \in net
      BY <1>7 DEF fp_handle_conn_confirm_ack, Reply, Send, Ack
    <2>2. CASE peer["client"].state = "PENDING"
      <3>1. Established("client", opens)
        BY <1>7, <2>2 DEF fp_handle_conn_confirm_ack
      <3>2. StateTypes
        BY DEF SessionInv
      <3>3. /\ peer'["client"].pending_fin = peer["client"].pending_fin
            /\ peer'["server"] = peer["server"]
        <4>1. /\ Opened(peer["client"], app["client"], peer'["client"], sf'["client"],
                        app'["client"], "client" \in Senders /\ opens)
              /\ \A o \in Ends : o # "client" => /\ peer'[o] = peer[o]
                                             /\ sf'[o] = sf[o]
                                             /\ app'[o] = app[o]
          BY <3>1, <3>2, EstablishedOpens
        <4>2. "client" # "server"
          OBVIOUS
        <4> QED BY <4>1, <4>2 DEF Opened
      <3>4. ~peer["client"].pending_fin
        BY <2>2 DEF HandshakeInv
      <3> QED BY <1>1, <2>1, <2>2, <3>3, <3>4 DEF HandshakeStep
    <2>3. CASE peer["client"].state # "PENDING"
      <3>1. peer' = peer
        BY <1>7, <2>3 DEF fp_handle_conn_confirm_ack
      <3> QED BY <2>1, <3>1, CalmHandshake
    <2> QED BY <2>2, <2>3
  <1>8. ASSUME NEW e \in Ends, HandshakeTimeout(e)
        PROVE  HandshakeStep
    <2> DEFINE q == Closing(peer[e])
    <2>1. /\ peer' = [peer EXCEPT ![e] = q] /\ app' = app
          /\ close_queued' = close_queued
          /\ net' = net \cup CloseFin(peer[e], e) /\ peer[e].state = "PENDING"
      BY <1>0, <1>8 DEF HandshakeTimeout, Send, fileVars
    <2>2. CloseFin(peer[e], e) = {} /\ q.state = "CLOSING"
      BY <1>0, <2>1, ClosingFields
    <2> HIDE DEF q
    <2>3. PeerStep(e, q, {})
      BY <2>1, <2>2 DEF PeerStep
    <2>4. CASE e = "client"
      BY <2>2, <2>3, <2>4, ClientPeerHandshake
    <2>5. CASE e = "server"
      BY <2>1, <2>2, <2>3, <2>5, ServerPeerHandshake
    <2> QED BY <2>4, <2>5 DEF Ends
  <1>9. ASSUME NEW e \in Ends, fp_on_pack(e)
        PROVE  HandshakeStep
    <2>1. PICK n \in 1 .. packed[e] : peer' = [peer EXCEPT ![e].acked = n]
      BY <1>9 DEF fp_on_pack
    <2>2. app' = app /\ close_queued' = close_queued /\ net' = net
      BY <1>9 DEF fp_on_pack, fileVars
    <2>3. \A d \in Ends : /\ peer'[d].state = peer[d].state
                          /\ peer'[d].pending_fin = peer[d].pending_fin
      BY <1>0, <2>1 DEF FillpPeer
    <2> QED BY <2>2, <2>3 DEF HandshakeStep, HandshakeInv
  <1>10. ASSUME NEW e \in Ends, OnFin(e)
         PROVE  HandshakeStep
    <2> DEFINE q == [Closing(peer[e]) EXCEPT !.peer_fin = TRUE, !.pending_fin = TRUE]
    <2>1. /\ app' = app /\ close_queued' = close_queued /\ net' = net
          /\ Fin(e) \in net
          /\ \/ peer' = peer
             \/ peer[e].state # "NONE" /\ peer' = [peer EXCEPT ![e] = q]
      BY <1>0, <1>10 DEF OnFin, Reply, Send, fileVars, Fin
    <2>2. peer[e].state # "NONE" => q.state = "CLOSING"
      BY <1>0, ClosingFields
    <2> HIDE DEF q
    <2>3. CASE peer' = peer
      BY <2>1, <2>3, CalmHandshake
    <2>4. CASE peer[e].state # "NONE" /\ peer' = [peer EXCEPT ![e] = q]
      <3>1. PeerStep(e, q, {})
        BY <2>1, <2>4 DEF PeerStep
      <3>2. CASE e = "client"
        BY <2>2, <2>4, <3>1, <3>2, ClientPeerHandshake
      <3>3. CASE e = "server"
        BY <2>1, <3>1, <3>3, ServerPeerHandshake
      <3> QED BY <3>2, <3>3 DEF Ends
    <2> QED BY <2>1, <2>3, <2>4
  <1>11. CASE FinalizeRemoves
    <2>1. /\ PeerStep("client", NewPeer("NONE"), {})
      BY <1>11 DEF FinalizeRemoves, PeerStep, fileVars
    <2>2. /\ NewPeer("NONE").state = "NONE"
          /\ NewPeer("NONE").pending_fin = FALSE
      BY NewPeerFields
    <2> QED BY <2>1, <2>2, ClientPeerHandshake
  <1>12. CASE PhoneClose
    <2>1. /\ peer' = peer /\ net' = net
          /\ PhoneMayLeave \/ (app["server"].tx_done /\ app["server"].rx_done)
      BY <1>12 DEF PhoneClose
    <2>2. Done(app["server"])
      BY <2>1 DEF PhoneStays, Done
    <2> QED BY <2>1, <2>2, CalmHandshake
  <1>13. ASSUME NEW e \in Ends, fp_peer_close_cb(e)
         PROVE  HandshakeStep
    <2> DEFINE q == Closing(peer[e])
               ms == CloseFin(peer[e], e)
    <2>1. /\ app' = app /\ close_queued[e] # "no"
          /\ close_queued' = [close_queued EXCEPT ![e] = "no"]
          /\ \/ net' = net /\ peer' = peer
             \/ net' = net \cup ms /\ peer' = [peer EXCEPT ![e] = q]
      BY <1>0, <1>13 DEF fp_peer_close_cb, Send, fileVars
    <2>2. close_queued'["server"] # "no" => close_queued["server"] # "no"
      BY <1>0, <2>1
    <2>3. /\ q.state = IF peer[e].state = "NONE" THEN "NONE" ELSE "CLOSING"
          /\ q.pending_fin = peer[e].pending_fin
          /\ ms = IF peer[e].state = "ESTABLISHED" THEN {Fin(Other(e))} ELSE {}
      BY <1>0, ClosingFields
    <2> HIDE DEF q, ms
    <2>4. CASE net' = net /\ peer' = peer
      BY <2>2, <2>4, CalmHandshake
    <2>5. CASE net' = net \cup ms /\ peer' = [peer EXCEPT ![e] = q]
      <3>1. PeerStep(e, q, ms)
        BY <2>1, <2>2, <2>5 DEF PeerStep
      <3>2. Ack \notin ms
        BY <2>3
      <3>3. CASE e = "client"
        <4>1. Fin("server") \in ms => app["client"].established /\ q.state = "CLOSING"
          BY <2>3, <3>3 DEF SessionInv, EndOK, EndInv, Attached
        <4>2. q.pending_fin => q.state = "CLOSING"
          BY <2>3, <3>3 DEF HandshakeInv
        <4>3. q.state \in {"CLOSING", "NONE"}
          BY <2>3
        <4> QED BY <3>1, <3>2, <3>3, <4>1, <4>2, <4>3, ClientPeerHandshake
      <3>4. CASE e = "server"
        <4>1. Fin("server") \notin ms
          BY <2>3, <3>4
        <4> QED BY <2>1, <3>1, <3>2, <3>4, <4>1, ServerPeerHandshake
      <3> QED BY <3>3, <3>4 DEF Ends
    <2> QED BY <2>1, <2>4, <2>5
  <1> QED BY <1>2, <1>3, <1>4, <1>5, <1>6, <1>7, <1>8, <1>9, <1>10, <1>11, <1>12,
             <1>13 DEF ShortStep

\* The handshake's invariant holds when the phone stays until it is through.
LEMMA HandshakeInvariant ==
  ASSUME PhoneStays
  PROVE  Spec => [](SessionInv /\ HandshakeInv)
  <1>1. Init => SessionInv /\ HandshakeInv
    <2>1. Init => HandshakeInv
      BY EndsFacts, NewPeerFields DEF Init, HandshakeInv
    <2> QED BY <2>1, SessionInit
  <1>2. SessionInv /\ HandshakeInv /\ [Next]_vars => SessionInv' /\ HandshakeInv'
    <2> SUFFICES ASSUME SessionInv, HandshakeInv, [Next]_vars
                 PROVE  SessionInv' /\ HandshakeInv'
      OBVIOUS
    <2>1. SessionInv'
      BY SessionNext
    <2>2. Grows
      BY NextGrows
    <2>3. HandshakeStep
      BY Steps, ShortHandshake, DataHandshake, PumpHandshake DEF LongStep
    <2> QED BY <2>1, <2>2, <2>3, HandshakeKept
  <1> QED BY <1>1, <1>2, PTL DEF Spec

\* While the daemon is established the phone is, or is through with both
\* files, for a phone that closes only then: the CONFIRM_ACK that established
\* the daemon came from an established server, which leaves that state only
\* for a FIN of a daemon that is closing.
THEOREM NoHalfOpenDaemonHolds ==
  ASSUME PhoneStays
  PROVE  Spec => []NoHalfOpenDaemon
  <1>1. HandshakeInv => NoHalfOpenDaemon
    BY DEF HandshakeInv, NoHalfOpenDaemon, Done
  <1> QED BY <1>1, HandshakeInvariant, PTL

-----------------------------------------------------------------------------
(***************************************************************************)
(* FIN.  What a step may do to what it says:                               *)
(***************************************************************************)

SomeDone == Done(app["client"]) \/ Done(app["server"])

FinStep ==
  /\ close_queued'["client"] = "no"
  /\ \A e \in Ends : peer'[e].pending_fin => peer[e].pending_fin \/ Fin(e) \in net
  /\ \A e \in Ends : Fin(e) \in net' =>
       Fin(e) \in net \/ Fin(Other(e)) \in net \/ SomeDone'
  /\ app'["client"].tx_done =>
       app["client"].tx_done \/ packed["client"] >= Frames("client")
  /\ app'["server"].tx_done => app["server"].tx_done \/ Through("server")
  /\ \A e \in Ends : sf'[e].tx_state = "ACTIVE" =>
       /\ sf'[e].tx_offset = peer'[e].send_pkt_num \/ Through(e)
       /\ peer'[e].state = "CLOSING" => Through(e) \/ SomeDone'

\* An end that is through has received all, and all it sent has arrived.
LEMMA DoneThrough ==
  ASSUME FinInv, SomeDone
  PROVE  \A e \in Ends : Through(e)
  <1>1. Through("client") /\ Through("server")
    BY EndsFacts DEF FinInv, SomeDone, Done, Through
  <1> QED BY <1>1 DEF Ends

\* What is through stays so.
LEMMA ThroughStays ==
  ASSUME SessionInv, SessionInv', Grows, NEW e \in Ends
  PROVE  /\ Through(e) => Through(e)'
         /\ packed[e] >= Frames(e) => packed'[e] >= Frames(e)
  <1> USE EndsFacts
  <1>1. packed[e] \in Nat /\ packed'[e] \in Nat
    BY DEF SessionInv, StateTypes
  <1>2. packed[e] <= packed'[e]
    BY DEF Grows
  <1>3. packed[e] >= Frames(e) => packed'[e] >= Frames(e)
    BY <1>1, <1>2
  <1>4. app[Other(e)].rx_done => app'[Other(e)].rx_done
    BY DEF Grows, FlagsGrow
  <1> QED BY <1>3, <1>4 DEF Through

\* Such a step keeps the invariant.
LEMMA FinKept ==
  ASSUME SessionInv, SessionInv', FinInv, FinStep, Grows
  PROVE  FinInv'
  <1> USE EndsFacts
  <1>1. /\ net \subseteq net'
        /\ \A e \in Ends : FlagsGrow(app[e], app'[e])
    BY DEF Grows
  <1>2. SomeDone => SomeDone'
    BY <1>1 DEF SomeDone, Done, FlagsGrow
  <1>3. \A e \in Ends : Fin(e) \in net => SomeDone
    BY DEF FinInv, SomeDone
  <1>4. \A e \in Ends : Fin(e) \in net' => SomeDone'
    BY <1>2, <1>3 DEF FinStep
  <1>5. \A e \in Ends : peer'[e].pending_fin => Fin(e) \in net'
    BY <1>1 DEF FinInv, FinStep
  <1>6. app'["client"].tx_done => packed'["client"] >= Frames("client")
    <2>1. app'["client"].tx_done => packed["client"] >= Frames("client")
      BY DEF FinInv, FinStep
    <2> QED BY <2>1, ThroughStays
  <1>7. app'["server"].tx_done => Through("server")'
    <2>1. app'["server"].tx_done => Through("server")
      BY DEF FinInv, FinStep
    <2> QED BY <2>1, ThroughStays
  <1>8. SomeDone' => \A e \in Ends : Through(e)'
    <2>1. SomeDone' => Through("client")' /\ Through("server")'
      BY <1>6, <1>7 DEF SomeDone, Done, Through
    <2> QED BY <2>1 DEF Ends
  <1>9. ASSUME NEW e \in Ends, sf'[e].tx_state = "ACTIVE"
        PROVE  /\ sf'[e].tx_offset = peer'[e].send_pkt_num \/ Through(e)'
               /\ peer'[e].state = "CLOSING" => Through(e)'
    <2>1. Through(e) => Through(e)'
      BY ThroughStays
    <2> QED BY <1>8, <1>9, <2>1 DEF FinStep
  <1>10. close_queued'["client"] = "no"
    BY DEF FinStep
  <1> QED BY <1>4, <1>5, <1>6, <1>7, <1>9, <1>10 DEF FinInv, SomeDone

\* What an end that still sends has offered after the fill callback, and what
\* the completion of its stream says.
LEMMA PumpSends ==
  ASSUME SessionInv, FinInv, NEW e \in Ends,
         peer[e].state \in {"ESTABLISHED", "CLOSING"},
         NEW q, NEW t, NEW r, NEW u, NEW b, PumpResult(e, q, t, r, u, b)
  PROVE  /\ u.tx_state = "ACTIVE" =>
              /\ sf[e].tx_state = "ACTIVE"
              /\ u.tx_offset = q.send_pkt_num \/ Through(e)
         /\ b.tx_done => app[e].tx_done \/ Through(e)
         /\ e = "client" /\ b.tx_done =>
              app[e].tx_done \/ packed[e] >= Frames(e)
  <1> USE EndsFacts
  <1>1. /\ Filled(e, peer[e], sf[e], q, t)
        /\ ReportedTx(q, sf[e], t, u, app[e], b)
    BY DEF PumpResult
  <1> DEFINE p == peer[e]
             s == sf[e]
             o == Other(e)
  <1>2. EndInv(e, p, s, app[e], sent[e], packed[e], sent[o])
    BY DEF SessionInv, EndOK
  <1>3. s.tx_state = "ACTIVE" =>
          /\ s.tx_offset = p.send_pkt_num \/ Through(e)
          /\ p.state = "CLOSING" => Through(e)
    BY DEF FinInv
  <1>4. /\ Filled(e, p, s, q, t) /\ p.state \in {"ESTABLISHED", "CLOSING"}
        /\ ReportedTx(q, s, t, u, app[e], b)
    BY <1>1
  <1>5. /\ p.send_pkt_num \in Nat /\ q.send_pkt_num \in Nat /\ p.acked \in Nat
        /\ s.tx_offset \in Nat /\ t.tx_offset \in Nat
        /\ sent[e] \in Nat /\ packed[e] \in Nat
    BY <1>2, <1>4, PeerFields, FileFields
       DEF EndInv, EndTypes, Filled, SessionInv, StateTypes
  <1> HIDE DEF p, s, o
  <1>6. t.tx_state = "ACTIVE" => s.tx_state = "ACTIVE"
    BY <1>4 DEF Filled
  <1>7. t.tx_state = "ACTIVE" => t.tx_offset = q.send_pkt_num \/ Through(e)
    BY <1>3, <1>4, <1>5, <1>6 DEF Filled
  <1>8. u.tx_state = "ACTIVE" => t.tx_state = "ACTIVE" /\ u.tx_offset = t.tx_offset
    BY <1>4 DEF ReportedTx
  <1>9. b.tx_done /\ ~app[e].tx_done =>
          /\ q.fill_done /\ q.acked = q.send_pkt_num /\ t.tx_state = "ACTIVE"
    BY <1>4 DEF ReportedTx
  <1>10. q.fill_done /\ t.tx_state = "ACTIVE" => t.tx_offset = Frames(e)
    BY <1>2, <1>4 DEF EndInv, Attached, Filled
  <1>11. q.acked <= packed[e]
    BY <1>2, <1>4 DEF EndInv, SendCounters, Filled
  <1>12. b.tx_done /\ ~app[e].tx_done => packed[e] >= Frames(e) \/ Through(e)
    BY <1>5, <1>7, <1>9, <1>10, <1>11
  <1>13. ASSUME e = "client", b.tx_done, ~app[e].tx_done, Through(e)
         PROVE  packed[e] >= Frames(e)
    <2>1. CASE app[Other(e)].rx_done
      <3>1. sent[e] >= Frames(e)
        BY <1>5, <2>1 DEF SessionInv, EndOK, EndInv, ReceiveCounters
      <3>2. app[e].established
        BY <1>2, <1>6, <1>9, <1>13, NewPeerFields DEF EndInv, Attached
      <3>3. p.send_pkt_num = sent[e]
        BY <1>4, <1>13, <3>2 DEF SessionInv, ClientOK, OneSession, p
      <3>4. p.send_pkt_num <= q.send_pkt_num
        BY <1>4, <1>5 DEF Filled
      <3>5. q.acked = q.send_pkt_num
        BY <1>9, <1>13
      <3> QED BY <1>5, <1>11, <3>1, <3>3, <3>4, <3>5
    <2> QED BY <1>13, <2>1 DEF Through
  <1>14. b.tx_done /\ ~app[e].tx_done => Through(e)
    BY <1>12 DEF Through
  <1> QED BY <1>6, <1>7, <1>8, <1>13, <1>14 DEF s

\* A pump.
LEMMA PumpFin ==
  ASSUME SessionInv, FinInv, NEW e \in Ends,
         peer[e].state \in {"ESTABLISHED", "CLOSING"},
         NEW q, NEW t, NEW r, NEW u, NEW b, PumpResult(e, q, t, r, u, b)
  PROVE  FinStep
  <1> USE EndsFacts
  <1> DEFINE o == Other(e)
  <1>1. /\ peer \in [Ends -> FillpPeer] /\ app \in [Ends -> AppFlags]
        /\ sf \in [Ends -> StreamFile]
        /\ close_queued \in [Ends -> {"no", "queued", "dangling"}]
    BY DEF SessionInv, StateTypes
  <1>2. /\ Filled(e, peer[e], sf[e], q, t) /\ Kept(q, r)
        /\ r.pending_fin => q.pending_fin
        /\ ReportedTx(q, sf[e], t, u, app[e], b)
        /\ net' \subseteq net \cup {Fin(o)}
    BY DEF PumpResult, FinsSent
  <1>3. /\ q.state = peer[e].state /\ q.pending_fin = peer[e].pending_fin
        /\ r.send_pkt_num = q.send_pkt_num
        /\ b \in AppFlags
    BY <1>2 DEF Filled, Kept, ReportedTx
  <1> DEFINE n == NewPeer("NONE")
             c == ClosedFlags(b)
  <1>4. /\ n.state = "NONE" /\ n.pending_fin = FALSE /\ NoFile.tx_state = "IDLE"
        /\ c.tx_done = b.tx_done /\ c.rx_done = b.rx_done
    BY <1>3, NewPeerFields, ClosedFields
  <1> HIDE DEF n, c
  <1>5. /\ \/ /\ peer' = [peer EXCEPT ![e] = n] /\ sf' = [sf EXCEPT ![e] = NoFile]
              /\ app' = [app EXCEPT ![e] = c]
           \/ /\ peer' = [peer EXCEPT ![e] = r] /\ sf' = [sf EXCEPT ![e] = u]
              /\ app' = [app EXCEPT ![e] = b]
        /\ \/ close_queued' = close_queued
           \/ close_queued' = [close_queued EXCEPT ![e] =
                                 IF @ = "queued" THEN "dangling" ELSE @]
    BY DEF PumpResult, n, c
  <1>6. close_queued'["client"] = "no"
    <2>1. close_queued["client"] = "no"
      BY DEF FinInv
    <2> QED BY <1>1, <1>5, <2>1
  <1>7. /\ \/ peer'[e] = n /\ sf'[e] = NoFile /\ app'[e] = c
           \/ peer'[e] = r /\ sf'[e] = u /\ app'[e] = b
        /\ peer'[o] = peer[o] /\ sf'[o] = sf[o] /\ app'[o] = app[o]
    BY <1>1, <1>5
  <1>8. app'[e].tx_done = b.tx_done /\ app'[e].rx_done = b.rx_done
    BY <1>4, <1>7
  <1>9. /\ u.tx_state = "ACTIVE" =>
             /\ sf[e].tx_state = "ACTIVE"
             /\ u.tx_offset = q.send_pkt_num \/ Through(e)
        /\ b.tx_done => app[e].tx_done \/ Through(e)
        /\ e = "client" /\ b.tx_done => app[e].tx_done \/ packed[e] >= Frames(e)
    BY PumpSends
  <1>10. Done(b) => SomeDone'
    BY <1>8 DEF SomeDone, Done, Ends
  <1>11. \A d \in Ends : peer'[d].pending_fin => peer[d].pending_fin \/ Fin(d) \in net
    <2>1. peer'[e].pending_fin => peer[e].pending_fin
      BY <1>2, <1>3, <1>4, <1>7
    <2>2. peer'[o].pending_fin => peer[o].pending_fin
      BY <1>7
    <2> QED BY <2>1, <2>2 DEF Ends, Other
  <1>12. Fin(o) \in net' => Fin(o) \in net \/ Fin(e) \in net \/ SomeDone'
    <2>1. q.pending_fin => Fin(e) \in net
      BY <1>3 DEF FinInv
    <2> QED BY <1>10, <2>1 DEF PumpResult, FinsSent
  <1>13. \A d \in Ends : Fin(d) \in net' =>
           Fin(d) \in net \/ Fin(Other(d)) \in net \/ SomeDone'
    <2>1. ASSUME NEW d \in Ends, Fin(d) \in net', Fin(d) \notin net
          PROVE  Fin(Other(d)) \in net \/ SomeDone'
      <3>1. Fin(d) = Fin(o)
        BY <1>2, <2>1
      <3>2. d = o
        BY <3>1 DEF Fin, Msg
      <3>3. Other(o) = e
        OBVIOUS
      <3> QED BY <1>12, <2>1, <3>2, <3>3
    <2> QED BY <2>1
  <1>14. \A d \in Ends : sf'[d].tx_state = "ACTIVE" =>
           /\ sf'[d].tx_offset = peer'[d].send_pkt_num \/ Through(d)
           /\ peer'[d].state = "CLOSING" => Through(d) \/ SomeDone'
    <2>1. sf'[o].tx_state = "ACTIVE" =>
           /\ sf'[o].tx_offset = peer'[o].send_pkt_num \/ Through(o)
           /\ peer'[o].state = "CLOSING" => Through(o)
      BY <1>7 DEF FinInv
    <2>2. ASSUME sf'[e].tx_state = "ACTIVE"
          PROVE  /\ sf'[e].tx_offset = peer'[e].send_pkt_num \/ Through(e)
                 /\ peer'[e].state = "CLOSING" => Through(e) \/ SomeDone'
      <3>1. peer'[e] = r /\ sf'[e] = u
        BY <1>4, <1>7, <2>2
      <3>2. u.tx_offset = r.send_pkt_num \/ Through(e)
        BY <1>3, <1>9, <2>2, <3>1
      <3>3. r.state = q.state \/ Done(b)
        BY DEF PumpResult
      <3>4. peer[e].state = "CLOSING" => Through(e)
        BY <1>9, <2>2, <3>1 DEF FinInv
      <3> QED BY <1>3, <1>10, <3>1, <3>2, <3>3, <3>4
    <2> QED BY <2>1, <2>2 DEF Ends, Other
  <1>15. /\ app'["client"].tx_done =>
              app["client"].tx_done \/ packed["client"] >= Frames("client")
         /\ app'["server"].tx_done => app["server"].tx_done \/ Through("server")
    <2>1. CASE e = "client"
      BY <1>7, <1>8, <1>9, <2>1
    <2>2. CASE e = "server"
      BY <1>7, <1>8, <1>9, <2>2
    <2> QED BY <2>1, <2>2 DEF Ends
  <1> QED BY <1>6, <1>11, <1>13, <1>14, <1>15 DEF FinStep

\* A packet.
LEMMA DataFin ==
  ASSUME SessionInv, FinInv, NEW e \in Ends,
         NEW q, NEW r, NEW t, NEW b, DataResult(e, q, r, t, b)
  PROVE  FinStep
  <1> USE EndsFacts
  <1> DEFINE o == Other(e)
  <1>1. /\ peer \in [Ends -> FillpPeer] /\ app \in [Ends -> AppFlags]
        /\ sf \in [Ends -> StreamFile]
    BY DEF SessionInv, StateTypes
  <1>2. /\ Counted(peer[e], q) /\ Kept(q, r) /\ r.pending_fin = q.pending_fin
        /\ Processed(e, sf[e], t) /\ ReportedRx(sf[e], t, app[e], b)
        /\ net' \subseteq net \cup {Fin(o)}
        /\ peer' = [peer EXCEPT ![e] = r] /\ sf' = [sf EXCEPT ![e] = t]
        /\ app' = [app EXCEPT ![e] = b] /\ close_queued' = close_queued
        /\ r.state = q.state \/ Done(b)
    BY DEF DataResult, FinsSent
  <1>3. /\ q.state = peer[e].state /\ q.pending_fin = peer[e].pending_fin
        /\ r.send_pkt_num = peer[e].send_pkt_num
        /\ b.tx_done = app[e].tx_done
    BY <1>2 DEF Counted, Kept, ReportedRx
  <1>4. /\ t.tx_offset = sf[e].tx_offset
        /\ t.tx_state = "ACTIVE" => sf[e].tx_state = "ACTIVE"
    BY <1>2 DEF Processed
  <1>5. /\ peer'[e] = r /\ sf'[e] = t /\ app'[e] = b
        /\ peer'[o] = peer[o] /\ sf'[o] = sf[o] /\ app'[o] = app[o]
    BY <1>1, <1>2
  <1>6. Done(b) => SomeDone'
    BY <1>5 DEF SomeDone, Ends
  <1>7. close_queued'["client"] = "no"
    BY <1>2 DEF FinInv
  <1>8. \A d \in Ends : peer'[d].pending_fin => peer[d].pending_fin \/ Fin(d) \in net
    <2>1. peer'[e].pending_fin => peer[e].pending_fin
      BY <1>2, <1>3, <1>5
    <2>2. peer'[o].pending_fin => peer[o].pending_fin
      BY <1>5
    <2> QED BY <2>1, <2>2 DEF Ends, Other
  <1>9. Fin(o) \in net' => Fin(o) \in net \/ Fin(e) \in net \/ SomeDone'
    <2>1. q.pending_fin => Fin(e) \in net
      BY <1>3 DEF FinInv
    <2> QED BY <1>6, <2>1 DEF DataResult, FinsSent
  <1>10. \A d \in Ends : Fin(d) \in net' =>
           Fin(d) \in net \/ Fin(Other(d)) \in net \/ SomeDone'
    <2>1. ASSUME NEW d \in Ends, Fin(d) \in net', Fin(d) \notin net
          PROVE  Fin(Other(d)) \in net \/ SomeDone'
      <3>1. Fin(d) = Fin(o)
        BY <1>2, <2>1
      <3>2. d = o
        BY <3>1 DEF Fin, Msg
      <3>3. Other(o) = e
        OBVIOUS
      <3> QED BY <1>9, <2>1, <3>2, <3>3
    <2> QED BY <2>1
  <1>11. \A d \in Ends : app'[d].tx_done = app[d].tx_done
    <2>1. app'[e].tx_done = app[e].tx_done /\ app'[o].tx_done = app[o].tx_done
      BY <1>3, <1>5
    <2> QED BY <2>1 DEF Ends, Other
  <1>12. \A d \in Ends : sf'[d].tx_state = "ACTIVE" =>
           /\ sf'[d].tx_offset = peer'[d].send_pkt_num \/ Through(d)
           /\ peer'[d].state = "CLOSING" => Through(d) \/ SomeDone'
    <2>1. sf'[o].tx_state = "ACTIVE" =>
           /\ sf'[o].tx_offset = peer'[o].send_pkt_num \/ Through(o)
           /\ peer'[o].state = "CLOSING" => Through(o)
      BY <1>5 DEF FinInv
    <2>2. sf[e].tx_state = "ACTIVE" =>
           /\ sf[e].tx_offset = peer[e].send_pkt_num \/ Through(e)
           /\ peer[e].state = "CLOSING" => Through(e)
      BY DEF FinInv
    <2>3. sf'[e].tx_state = "ACTIVE" =>
           /\ sf'[e].tx_offset = peer'[e].send_pkt_num \/ Through(e)
           /\ peer'[e].state = "CLOSING" => Through(e) \/ SomeDone'
      BY <1>2, <1>3, <1>4, <1>5, <1>6, <2>2
    <2> QED BY <2>1, <2>3 DEF Ends, Other
  <1> QED BY <1>7, <1>8, <1>10, <1>11, <1>12 DEF FinStep

\* A handler that changes one peer and neither fills a packet nor
\* closes while its file is being sent, unless an end is through.
LEMMA PeerFin ==
  ASSUME SessionInv, FinInv, NEW e \in Ends, NEW q,
         peer' = [peer EXCEPT ![e] = q], sf' = sf,
         close_queued'["client"] = "no",
         \A d \in Ends : /\ app'[d].tx_done = app[d].tx_done
                         /\ app'[d].rx_done = app[d].rx_done,
         q.pending_fin => peer[e].pending_fin \/ Fin(e) \in net,
         sf[e].tx_state = "ACTIVE" => q.send_pkt_num = peer[e].send_pkt_num,
         sf[e].tx_state = "ACTIVE" /\ q.state = "CLOSING" =>
           peer[e].state = "CLOSING" \/ SomeDone,
         \A d \in Ends : Fin(d) \in net' => Fin(d) \in net \/ SomeDone
  PROVE  FinStep
  <1> USE EndsFacts
  <1>1. peer \in [Ends -> FillpPeer]
    BY DEF SessionInv, StateTypes
  <1>2. SomeDone => SomeDone'
    BY DEF SomeDone, Done
  <1>3. peer'[e] = q /\ \A d \in Ends : d # e => peer'[d] = peer[d]
    BY <1>1
  <1>4. \A d \in Ends : peer'[d].pending_fin => peer[d].pending_fin \/ Fin(d) \in net
    BY <1>3
  <1>5. \A d \in Ends : Fin(d) \in net' => Fin(d) \in net \/ SomeDone'
    BY <1>2
  <1>6. ASSUME NEW d \in Ends, sf'[d].tx_state = "ACTIVE"
        PROVE  /\ sf'[d].tx_offset = peer'[d].send_pkt_num \/ Through(d)
               /\ peer'[d].state = "CLOSING" => Through(d) \/ SomeDone'
    <2>1. /\ sf[d].tx_offset = peer[d].send_pkt_num \/ Through(d)
          /\ peer[d].state = "CLOSING" => Through(d)
      BY <1>6 DEF FinInv
    <2>2. CASE d = e
      BY <1>2, <1>3, <1>6, <2>1, <2>2
    <2>3. CASE d # e
      BY <1>3, <2>1, <2>3
    <2> QED BY <2>2, <2>3
  <1> QED BY <1>4, <1>5, <1>6 DEF FinStep

\* A handler that changes no peer and no file.
LEMMA CalmFin ==
  ASSUME SessionInv, FinInv, peer' = peer, sf' = sf,
         close_queued'["client"] = "no",
         \A d \in Ends : /\ app'[d].tx_done = app[d].tx_done
                         /\ app'[d].rx_done = app[d].rx_done,
         \A d \in Ends : Fin(d) \in net' => Fin(d) \in net
  PROVE  FinStep
  BY EndsFacts DEF FinInv, FinStep

\* A session that is established has sent nothing yet.
LEMMA EstablishedFin ==
  ASSUME SessionInv, SessionInv', FinInv, NEW e \in Ends, NEW opens \in BOOLEAN,
         Established(e, opens), net' \subseteq net \cup {Ack},
         close_queued' = close_queued
  PROVE  FinStep
  <1> USE EndsFacts, DistinctMessages
  <1> DEFINE o == Other(e)
             sends == e \in Senders /\ opens
  <1>1. StateTypes
    BY DEF SessionInv
  <1>2. /\ Opened(peer[e], app[e], peer'[e], sf'[e], app'[e], sends)
        /\ \A d \in Ends : d # e => /\ peer'[d] = peer[d]
                                    /\ sf'[d] = sf[d]
                                    /\ app'[d] = app[d]
    BY <1>1, EstablishedOpens
  <1>3. sends \in BOOLEAN
    BY Zenon
  <1> HIDE DEF sends
  <1>4. peer'[o] = peer[o] /\ sf'[o] = sf[o] /\ app'[o] = app[o]
    BY <1>2
  <1>5. /\ peer'[e].pending_fin = peer[e].pending_fin
        /\ peer'[e].state = "ESTABLISHED" /\ sf'[e].tx_offset = 0
        /\ app'[e].tx_done = app[e].tx_done
    BY <1>2, <1>3, NewFileFields DEF Opened
  <1>6. peer'[e].send_pkt_num = 0
    <2>1. peer'[e].send_pkt_num <= sf'[e].tx_offset /\ peer'[e] \in FillpPeer
      BY DEF SessionInv, EndOK, EndInv, EndTypes, SendCounters
    <2>2. peer'[e].send_pkt_num \in Nat
      BY <2>1, PeerFields
    <2> QED BY <1>5, <2>1, <2>2
  <1>7. \A d \in Ends : d = e \/ d = o
    BY DEF Ends, Other
  <1>8. close_queued'["client"] = "no"
    BY DEF FinInv
  <1>9. \A d \in Ends : Fin(d) \in net' => Fin(d) \in net
    OBVIOUS
  <1>10. \A d \in Ends : /\ peer'[d].pending_fin => peer[d].pending_fin
                         /\ app'[d].tx_done = app[d].tx_done
    BY <1>4, <1>5, <1>7
  <1>11. sf'[e].tx_offset = peer'[e].send_pkt_num /\ peer'[e].state # "CLOSING"
    BY <1>5, <1>6
  <1>12. sf'[o].tx_state = "ACTIVE" =>
           /\ sf'[o].tx_offset = peer'[o].send_pkt_num \/ Through(o)
           /\ peer'[o].state = "CLOSING" => Through(o)
    BY <1>4 DEF FinInv
  <1>13. \A d \in Ends : sf'[d].tx_state = "ACTIVE" =>
           /\ sf'[d].tx_offset = peer'[d].send_pkt_num \/ Through(d)
           /\ peer'[d].state = "CLOSING" => Through(d) \/ SomeDone'
    BY <1>7, <1>11, <1>12
  <1> QED BY <1>8, <1>9, <1>10, <1>13 DEF FinStep

\* The steps of the handshake, of the main loop and of the closes.
LEMMA ShortFin ==
  ASSUME ConnectsSend, SessionInv, SessionInv', HandshakeInv, FinInv, ShortStep
  PROVE  FinStep
  <1> USE EndsFacts, DistinctMessages
  <1> DEFINE NoFin == \A d \in Ends : Fin(d) \in net' => Fin(d) \in net
             SameFlags == \A d \in Ends : /\ app'[d].tx_done = app[d].tx_done
                                          /\ app'[d].rx_done = app[d].rx_done
  <1>0. /\ peer \in [Ends -> FillpPeer] /\ app \in [Ends -> AppFlags]
        /\ peer["client"] \in FillpPeer /\ peer["server"] \in FillpPeer
        /\ close_queued \in [Ends -> {"no", "queued", "dangling"}]
    BY DEF SessionInv, StateTypes
  <1>1. /\ close_queued["client"] = "no"
        /\ \A e \in Ends : Fin(e) \in net => SomeDone
    BY DEF FinInv, SomeDone
  <1>2. \A e \in Ends :
          peer[e].state \in {"NONE", "PENDING"} => sf[e].tx_state # "ACTIVE"
    BY NewPeerFields DEF SessionInv, EndOK, EndInv, Attached
  <1>3. CASE GiveUp
    <2>1. /\ peer' = peer /\ net' = net /\ sf' = sf /\ close_queued' = close_queued
          /\ app' = [app EXCEPT !["client"].failed = TRUE]
      BY <1>3 DEF GiveUp, engineVars
    <2>2. SameFlags
      BY <1>0, <2>1 DEF AppFlags
    <2>3. NoFin
      BY <2>1
    <2> QED BY <1>1, <2>1, <2>2, <2>3, CalmFin
  <1>4. CASE Retransmit \/ PhoneClose \/ UNCHANGED vars
    <2>1. /\ peer' = peer /\ sf' = sf /\ app' = app
          /\ net' \subseteq net \cup {Msg("CONN_CONFIRM", "server"),
                                      Msg("CONN_REQ", "server")}
      BY <1>4 DEF Retransmit, PhoneClose, Send, vars, engineVars, fileVars
    <2>2. close_queued'["client"] = "no"
      BY <1>0, <1>1, <1>4 DEF Retransmit, PhoneClose, vars, engineVars
    <2>3. NoFin
      BY <2>1 DEF Ends
    <2>4. SameFlags
      BY <2>1
    <2> QED BY <2>1, <2>2, <2>3, <2>4, CalmFin
  <1>5. ASSUME NEW result \in ConnectResults, stream_connect(result)
        PROVE  FinStep
    <2>1. /\ starting /\ app' = app /\ sf' = sf
          /\ net' \subseteq net \cup {Msg("CONN_REQ", "server")}
          /\ peer' = peer \/ peer' = [peer EXCEPT !["client"] = NewPeer("PENDING")]
      BY <1>5 DEF stream_connect, Send, fileVars
    <2>2. close_queued'["client"] = "no"
      BY <1>1, <1>5, SessionAssumption DEF stream_connect, ConnectsSend
    <2>3. sf["client"].tx_state # "ACTIVE"
      BY <1>2, <2>1 DEF SessionInv, ClientOK, MainInv
    <2>4. NewPeer("PENDING").pending_fin = FALSE
      BY NewPeerFields
    <2>5. NoFin
      BY <2>1 DEF Ends
    <2>6. SameFlags
      BY <2>1
    <2>7. CASE peer' = peer
      BY <2>1, <2>2, <2>5, <2>6, <2>7, CalmFin
    <2>8. CASE peer' = [peer EXCEPT !["client"] = NewPeer("PENDING")]
      BY <2>1, <2>2, <2>3, <2>4, <2>5, <2>6, <2>8, PeerFin
    <2> QED BY <2>1, <2>7, <2>8
  <1>6. CASE fp_handle_conn_req
    <2>1. /\ app' = app /\ sf' = sf /\ close_queued' = close_queued
          /\ net' \subseteq net \cup {Msg("CONN_REQ_ACK", "client")}
          /\ \/ peer' = peer
             \/ /\ peer["server"].state = "NONE"
                /\ peer' = [peer EXCEPT !["server"] = NewPeer("PENDING")]
      BY <1>6 DEF fp_handle_conn_req, Reply, Send, fileVars
    <2>2. NoFin
      BY <2>1 DEF Ends
    <2>3. SameFlags /\ close_queued'["client"] = "no"
      BY <1>1, <2>1
    <2>4. CASE peer' = peer
      BY <2>1, <2>2, <2>3, <2>4, CalmFin
    <2>5. CASE /\ peer["server"].state = "NONE"
               /\ peer' = [peer EXCEPT !["server"] = NewPeer("PENDING")]
      <3>1. NewPeer("PENDING").pending_fin = FALSE
        BY NewPeerFields
      <3>2. sf["server"].tx_state # "ACTIVE"
        BY <1>2, <2>5
      <3> QED BY <2>1, <2>2, <2>3, <2>5, <3>1, <3>2, PeerFin
    <2> QED BY <2>1, <2>4, <2>5
  <1>7. CASE fp_handle_conn_req_ack
    <2> DEFINE q == [peer["client"] EXCEPT !.hs_confirm_sent = TRUE]
    <2>1. /\ app' = app /\ sf' = sf /\ close_queued' = close_queued
          /\ net' \subseteq net \cup {Msg("CONN_CONFIRM", "server")}
          /\ peer' = peer \/ peer' = [peer EXCEPT !["client"] = q]
      BY <1>0, <1>7 DEF fp_handle_conn_req_ack, Reply, Send, fileVars
    <2>2. /\ q.state = peer["client"].state
          /\ q.send_pkt_num = peer["client"].send_pkt_num
          /\ q.pending_fin = peer["client"].pending_fin
      BY <1>0 DEF FillpPeer
    <2> HIDE DEF q
    <2>3. NoFin
      BY <2>1 DEF Ends
    <2>4. SameFlags /\ close_queued'["client"] = "no"
      BY <1>1, <2>1
    <2>5. CASE peer' = peer
      BY <2>1, <2>3, <2>4, <2>5, CalmFin
    <2>6. CASE peer' = [peer EXCEPT !["client"] = q]
      BY <2>1, <2>2, <2>3, <2>4, <2>6, PeerFin
    <2> QED BY <2>1, <2>5, <2>6
  <1>8. ASSUME NEW opens \in BOOLEAN,
               fp_handle_conn_confirm(opens) \/ fp_handle_conn_confirm_ack(opens)
        PROVE  FinStep
    <2>1. /\ close_queued' = close_queued /\ net' \subseteq net \cup {Ack}
          /\ \/ Established("server", opens)
             \/ Established("client", opens)
             \/ UNCHANGED <<peer, sf, app>>
      BY <1>8 DEF fp_handle_conn_confirm, fp_handle_conn_confirm_ack, Reply, Send, Ack
    <2>2. CASE UNCHANGED <<peer, sf, app>>
      <3>1. NoFin
        BY <2>1
      <3>2. SameFlags /\ close_queued'["client"] = "no"
        BY <1>1, <2>1, <2>2
      <3> QED BY <2>2, <3>1, <3>2, CalmFin
    <2> QED BY <2>1, <2>2, EstablishedFin
  <1>9. ASSUME NEW e \in Ends, HandshakeTimeout(e)
        PROVE  FinStep
    <2> DEFINE q == Closing(peer[e])
    <2>1. /\ peer' = [peer EXCEPT ![e] = q] /\ app' = app /\ sf' = sf
          /\ close_queued' = close_queued
          /\ net' = net \cup CloseFin(peer[e], e) /\ peer[e].state = "PENDING"
      BY <1>0, <1>9 DEF HandshakeTimeout, Send, fileVars
    <2>2. CloseFin(peer[e], e) = {} /\ q.pending_fin = peer[e].pending_fin
      BY <1>0, <2>1, ClosingFields
    <2> HIDE DEF q
    <2>3. sf[e].tx_state # "ACTIVE"
      BY <1>2, <2>1
    <2>4. NoFin
      BY <2>1, <2>2
    <2>5. SameFlags /\ close_queued'["client"] = "no"
      BY <1>1, <2>1
    <2> QED BY <2>1, <2>2, <2>3, <2>4, <2>5, PeerFin
  <1>10. ASSUME NEW e \in Ends, fp_on_pack(e)
         PROVE  FinStep
    <2>1. PICK n \in 1 .. packed[e] : peer' = [peer EXCEPT ![e].acked = n]
      BY <1>10 DEF fp_on_pack
    <2> DEFINE q == [peer[e] EXCEPT !.acked = n]
    <2>2. /\ app' = app /\ sf' = sf /\ close_queued' = close_queued /\ net' = net
          /\ peer' = [peer EXCEPT ![e] = q]
      BY <1>0, <1>10, <2>1 DEF fp_on_pack, fileVars
    <2>3. /\ q.state = peer[e].state /\ q.pending_fin = peer[e].pending_fin
          /\ q.send_pkt_num = peer[e].send_pkt_num
      BY <1>0 DEF FillpPeer
    <2> HIDE DEF q
    <2>4. NoFin /\ SameFlags /\ close_queued'["client"] = "no"
      BY <1>1, <2>2
    <2> QED BY <2>2, <2>3, <2>4, PeerFin
  <1>11. ASSUME NEW e \in Ends, OnFin(e)
         PROVE  FinStep
    <2> DEFINE q == [Closing(peer[e]) EXCEPT !.peer_fin = TRUE, !.pending_fin = TRUE]
    <2>1. /\ app' = app /\ sf' = sf /\ close_queued' = close_queued /\ net' = net
          /\ Fin(e) \in net
          /\ \/ peer' = peer
             \/ peer[e].state # "NONE" /\ peer' = [peer EXCEPT ![e] = q]
      BY <1>0, <1>11 DEF OnFin, Reply, Send, fileVars, Fin
    <2>2. peer[e].state # "NONE" => q.send_pkt_num = peer[e].send_pkt_num
      BY <1>0, FlagsKeep DEF Kept
    <2>3. SomeDone
      BY <1>1, <2>1
    <2> HIDE DEF q
    <2>4. NoFin /\ SameFlags /\ close_queued'["client"] = "no"
      BY <1>1, <2>1
    <2>5. CASE peer' = peer
      BY <2>1, <2>4, <2>5, CalmFin
    <2>6. CASE peer[e].state # "NONE" /\ peer' = [peer EXCEPT ![e] = q]
      BY <2>1, <2>2, <2>3, <2>4, <2>6, PeerFin
    <2> QED BY <2>1, <2>5, <2>6
  <1>12. CASE FinalizeRemoves
    <2>1. /\ removing /\ app' = app /\ sf' = sf /\ close_queued' = close_queued
          /\ net' = net
          /\ peer' = [peer EXCEPT !["client"] = NewPeer("NONE")]
      BY <1>12 DEF FinalizeRemoves, fileVars
    <2>2. NewPeer("NONE").pending_fin = FALSE
      BY NewPeerFields
    <2>3. sf["client"].tx_state # "ACTIVE"
      BY <1>2, <2>1 DEF SessionInv, ClientOK, MainInv
    <2>4. NoFin /\ SameFlags /\ close_queued'["client"] = "no"
      BY <1>1, <2>1
    <2> QED BY <2>1, <2>2, <2>3, <2>4, PeerFin
  <1>13. ASSUME NEW e \in Ends, fp_peer_close_cb(e)
         PROVE  FinStep
    <2> DEFINE q == Closing(peer[e])
    <2>1. /\ app' = app /\ sf' = sf /\ close_queued[e] # "no"
          /\ close_queued' = [close_queued EXCEPT ![e] = "no"]
          /\ \/ net' = net /\ peer' = peer
             \/ peer' = [peer EXCEPT ![e] = q]
      BY <1>0, <1>13 DEF fp_peer_close_cb, Send, fileVars
    <2>2. e = "server" /\ SomeDone
      BY <1>1, <2>1 DEF HandshakeInv, SomeDone, Ends
    <2>3. SameFlags /\ close_queued'["client"] = "no"
      BY <1>0, <1>1, <2>1
    <2>4. q.pending_fin = peer[e].pending_fin
      BY <1>0, ClosingFields
    <2>5. q.send_pkt_num = peer[e].send_pkt_num
      BY <1>0, ClosingKeeps DEF Kept
    <2> HIDE DEF q
    <2>6. CASE net' = net /\ peer' = peer
      BY <2>1, <2>3, <2>6, CalmFin
    <2>7. CASE peer' = [peer EXCEPT ![e] = q]
      BY <2>1, <2>2, <2>3, <2>4, <2>5, <2>7, PeerFin
    <2> QED BY <2>1, <2>6, <2>7
  <1> QED BY <1>3, <1>4, <1>5, <1>6, <1>7, <1>8, <1>9, <1>10, <1>11, <1>12, <1>13
          DEF ShortStep

\* What a FIN says holds when the phone stays until it is through and every
\* connect that returns a peer has sent its request.
LEMMA FinInvariant ==
  ASSUME PhoneStays, ConnectsSend
  PROVE  Spec => [](SessionInv /\ FinInv)
  <1>1. Init => FinInv
    <2> SUFFICES ASSUME Init PROVE FinInv
      OBVIOUS
    <2>1. close_queued["client"] = "no" /\ net = {}
      BY EndsFacts DEF Init
    <2>2. \A e \in Ends : /\ peer[e].pending_fin = FALSE
                          /\ sf[e].tx_state = "IDLE"
                          /\ app[e].tx_done = FALSE
      BY NewPeerFields DEF Init
    <2> QED BY <2>1, <2>2, EndsFacts DEF FinInv
  <1>2. /\ SessionInv /\ HandshakeInv /\ FinInv
        /\ SessionInv' /\ [Next]_vars
        => FinInv'
    <2> SUFFICES ASSUME SessionInv, HandshakeInv, FinInv, SessionInv', [Next]_vars
                 PROVE  FinInv'
      OBVIOUS
    <2>1. Grows
      BY NextGrows
    <2>2. FinStep
      BY Steps, ShortFin, DataFin, PumpFin DEF LongStep
    <2> QED BY <2>1, <2>2, FinKept
  <1>3. Spec => [](SessionInv /\ HandshakeInv)
    BY HandshakeInvariant
  <1> QED BY <1>1, <1>2, <1>3, PTL DEF Spec

\* stream_file.h: ok "always means all bytes sent and acked".  The daemon
\* reports its file as sent only when the phone has acknowledged every frame
\* of it: while its file is being sent, every frame the fill callback has
\* counted was accepted by the engine, because a peer that still sends closes
\* only when the other end has everything.
THEOREM TxOkMeansAckedHolds ==
  ASSUME PhoneStays, ConnectsSend
  PROVE  Spec => []TxOkMeansAcked
  <1>1. FinInv => TxOkMeansAcked
    BY DEF FinInv, TxOkMeansAcked
  <1> QED BY <1>1, FinInvariant, PTL

\* A FIN on the network says that both files are through, whatever is lost,
\* repeated or overtaken: the first one comes from an end that has reported
\* both of its directions done, the second one answers the first.
THEOREM FinMeansDeliveredHolds ==
  ASSUME PhoneStays, ConnectsSend
  PROVE  Spec => []FinMeansDelivered
  <1>1. FinInv => FinMeansDelivered
    <2> SUFFICES ASSUME FinInv, NEW d \in Ends, Fin(d) \in net
                 PROVE  \A e \in Ends : packed[e] >= Frames(e) \/ app[Other(e)].rx_done
      BY DEF FinMeansDelivered, Fin
    <2>1. SomeDone
      BY DEF FinInv, SomeDone
    <2> QED BY <2>1, DoneThrough DEF Through
  <1> QED BY <1>1, FinInvariant, PTL
============================================================================
