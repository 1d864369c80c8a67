--------------------------- MODULE ControlSession ---------------------------
(***************************************************************************)
(* The control session the daemon keeps with a phone over one TCP          *)
(* connection: the authentication FSM (src/src/proto/softbus_auth.c), run  *)
(* by both ends, then the DMSDP client (src/src/proto/dmsdp.c) and the     *)
(* glue that drives them (src/src/main.c, on_session_data and below).      *)
(* What the phone does once it is authenticated is external.               *)
(*                                                                         *)
(* The daemon is the active end.  Its handlers run on the pump thread of   *)
(* the session.  dmsdp_cl is one for all of them and has no lock: a        *)
(* handler is cut into steps that call it once each, and those of several  *)
(* pumps mix.  What two threads inside one call make of the client is left *)
(* out.  A signature and a session key are the tuple of what they are      *)
(* computed from.  The 12 input events are one message.                    *)
(***************************************************************************)
EXTENDS Naturals, Sequences, FiniteSets

CONSTANTS
  Sessions,            \* connections the phone opens (bound)
  Environments,        \* what the owners and the phone may do
  SOFTBUS_AUTH_RETRIES

Ends == {"daemon", "phone"}

\* retries: ends whose owner calls softbus_auth_retry_due; closes: the phone
\* may close a connection; extras: unsolicited DMSDP messages per session
\* (bound); streams: a stream port was given.
ASSUME ControlAssumption ==
  /\ IsFiniteSet(Sessions)
  /\ Environments \subseteq
       [retries : SUBSET Ends, closes : BOOLEAN, extras : Nat, streams : BOOLEAN]
  /\ SOFTBUS_AUTH_RETRIES \in Nat

VARIABLES
  env,     \* the environment of this behaviour
  auth,    \* [Sessions -> [Ends -> SoftbusAuth]]
  link,    \* [Sessions -> state of the connection]
  ch,      \* [Sessions -> [Ends -> frames on their way to that end]]
  client,  \* dmsdp_cl: one for the whole daemon
  dmsdp_ready, dmsdp_failed,
  pump,    \* [Sessions -> what its handler is about to do, and the frame it took]
  server   \* [Sessions -> the phone's side of the control session]

vars == <<env, auth, link, ch, client, dmsdp_ready, dmsdp_failed, pump, server>>

Other(e) == IF e = "daemon" THEN "phone" ELSE "daemon"

AuthStates == {"IDLE", "SYNC_NEGOTIATION", "SYNC_DEVICE_ID", "DEVICE_AUTH",
               "SYNC_DEVICE_INFO", "DONE", "FAILED"}
AuthKinds == {"SYNC_NEGOTIATION", "SYNC_DEVICE_ID", "DEVICE_AUTH", "SYNC_DEVICE_INFO"}
DmsdpKinds == {"SETUP", "PLAY", "RESPONSE", "TEARDOWN"}

\* What the two ends may disagree on: the provisioned secret, and the
\* protocol version.
Psks == {"psk", "other psk"}
Versions == {"v1", "v2"}

NoMessage == [kind |-> "none"]
Idle == [at |-> "idle", m |-> NoMessage]
NoKeys == <<>>

(***************************************************************************)
(* Messages.                                                               *)
(***************************************************************************)

\* The header all authentication messages carry is kind and auth_id.
Negotiation(a) ==
  [kind |-> "SYNC_NEGOTIATION", auth_id |-> a.auth_id, version |-> a.version]
DeviceId(e, a) == [kind |-> "SYNC_DEVICE_ID", auth_id |-> a.auth_id, deviceId |-> e]
AuthRequest(e, a) ==
  [kind |-> "DEVICE_AUTH", auth_id |-> a.auth_id, nonce |-> a.nonce, deviceId |-> e]
AuthResponse(a, sig) ==
  [kind |-> "DEVICE_AUTH", auth_id |-> a.auth_id, nonce |-> a.nonce, sig |-> sig]
DeviceInfo(a) == [kind |-> "SYNC_DEVICE_INFO", auth_id |-> a.auth_id]
Dmsdp(type, cseq) == [kind |-> type, cseq |-> cseq]
Ping == [kind |-> "PING"]
Input == [kind |-> "INPUT"]

\* _compute_sig: an HMAC under the secret of the end that computes it.
compute_sig(psk, nonce_a, nonce_p, id_a, id_p) == <<psk, nonce_a, nonce_p, id_a, id_p>>

\* softbus_hkdf_session_keys sorts the two ids: both ends get the same keys.
derive_keys(psk, id1, id2) == <<psk, {id1, id2}>>

-----------------------------------------------------------------------------
\* softbus_auth_new.  The random auth_id and nonce are named after the end
\* and the session they are drawn for.
NewAuth(s, e, psk, version) ==
  [state |-> "IDLE", is_active |-> FALSE, awaiting_reply |-> FALSE,
   auth_id |-> <<e, s>>, nonce |-> <<e, s>>, retry_count |-> 0,
   peer_device_id |-> "none", keys |-> NoKeys,
   psk |-> psk, version |-> version, last |-> NoMessage]

\* dmsdp_cl before the first authentication completes.
NoClient == [state |-> "NONE", pending_cseq |-> 0]

Init ==
  /\ env \in Environments
  /\ \E psk \in [Sessions -> Psks], version \in [Sessions -> Versions] :
       auth = [s \in Sessions |->
                [e \in Ends |-> IF e = "daemon" THEN NewAuth(s, e, "psk", "v1")
                                ELSE NewAuth(s, e, psk[s], version[s])]]
  /\ link = [s \in Sessions |-> "none"]
  /\ ch = [s \in Sessions |-> [e \in Ends |-> <<>>]]
  /\ client = NoClient
  /\ dmsdp_ready = FALSE /\ dmsdp_failed = FALSE
  /\ pump = [s \in Sessions |-> Idle]
  /\ server = [s \in Sessions |->
                [state |-> "INIT", inputs |-> 0, echoes |-> 0, extras |-> 0]]

-----------------------------------------------------------------------------
(***************************************************************************)
(* The authentication FSM.  A result is the new context, what to send, and *)
(* whether the exchange is complete.                                       *)
(***************************************************************************)
Noop(a) == [auth |-> a, out |-> <<>>, complete |-> FALSE]

fail(a) == [a EXCEPT !.state = "FAILED", !.awaiting_reply = FALSE]

Failed(a) == [auth |-> fail(a), out |-> <<>>, complete |-> FALSE]

enter_state(a, state) == [a EXCEPT !.state = state, !.retry_count = 0]

\* The FSM moves on and sends a message that expects an answer.
Sends(a, state, m) ==
  [auth |-> [enter_state(a, state) EXCEPT !.awaiting_reply = TRUE, !.last = m],
   out |-> <<m>>, complete |-> FALSE]

begin_active(a) ==
  IF a.state # "IDLE" THEN Noop(a)
  ELSE Sends([a EXCEPT !.is_active = TRUE], "SYNC_NEGOTIATION", Negotiation(a))

\* Passive, first message: the version must match.
OnNegotiation(e, a, m) ==
  IF m.version # a.version THEN Failed(a)
  ELSE Sends(a, "SYNC_DEVICE_ID", DeviceId(e, a))

\* Active: learn the peer's id, ask it to authenticate.
OnDeviceId(e, a, m) ==
  LET b == [a EXCEPT !.peer_device_id = m.deviceId]
  IN Sends(b, "DEVICE_AUTH", AuthRequest(e, b))

\* Mutant: the passive end signs its own id first.
OnAuthRequestSwapped(e, a, m) ==
  LET b == [a EXCEPT !.peer_device_id = m.deviceId,
                     !.keys = derive_keys(a.psk, e, m.deviceId)]
  IN Sends(b, "SYNC_DEVICE_INFO",
           AuthResponse(b, compute_sig(b.psk, m.nonce, b.nonce, e, m.deviceId)))

\* Passive: sign both nonces, derive the keys.
OnAuthRequest(e, a, m) ==
  LET b == [a EXCEPT !.peer_device_id = m.deviceId,
                     !.keys = derive_keys(a.psk, e, m.deviceId)]
  IN Sends(b, "SYNC_DEVICE_INFO",
           AuthResponse(b, compute_sig(b.psk, m.nonce, b.nonce, m.deviceId, e)))

\* Mutant: the signature is not looked at.
OnAuthResponseUnverified(e, a, m) ==
  LET b == [a EXCEPT !.keys = derive_keys(a.psk, e, a.peer_device_id),
                     !.awaiting_reply = FALSE, !.state = "DONE"]
  IN [auth |-> b, out |-> <<DeviceInfo(b)>>, complete |-> TRUE]

\* Active: verify the signature, derive the keys, complete.
OnAuthResponse(e, a, m) ==
  IF m.sig # compute_sig(a.psk, a.nonce, m.nonce, e, a.peer_device_id)
  THEN Failed(a)
  ELSE LET b == [a EXCEPT !.keys = derive_keys(a.psk, e, a.peer_device_id),
                          !.awaiting_reply = FALSE, !.state = "DONE"]
       IN [auth |-> b, out |-> <<DeviceInfo(b)>>, complete |-> TRUE]

\* Passive: the peer has accepted our signature.
OnDeviceInfo(a) ==
  IF a.keys = NoKeys THEN Failed(a)
  ELSE [auth |-> [enter_state(a, "DONE") EXCEPT !.awaiting_reply = FALSE],
        out |-> <<>>, complete |-> TRUE]

\* The message a state waits for; the states of the other role wait for none.
Expected(a) ==
  CASE ~a.is_active /\ a.state = "IDLE" -> "SYNC_NEGOTIATION"
    [] a.is_active /\ a.state = "SYNC_NEGOTIATION" -> "SYNC_DEVICE_ID"
    [] ~a.is_active /\ a.state = "SYNC_DEVICE_ID" -> "DEVICE_AUTH"
    [] a.is_active /\ a.state = "DEVICE_AUTH" -> "DEVICE_AUTH"
    [] ~a.is_active /\ a.state = "SYNC_DEVICE_INFO" -> "SYNC_DEVICE_INFO"
    [] OTHER -> "none"

\* The passive end takes the exchange's id from the first message.
Adopt(a, m) ==
  IF ~a.is_active /\ a.state = "IDLE" THEN [a EXCEPT !.auth_id = m.auth_id] ELSE a

\* softbus_auth_feed.
feed(e, a, m) ==
  IF a.state \in {"DONE", "FAILED"} \/ m.kind \notin AuthKinds THEN Noop(a)
  ELSE LET b == Adopt(a, m)
       IN CASE m.auth_id # b.auth_id \/ m.kind # Expected(b) -> Failed(b)
            [] OTHER ->
                 CASE b.state = "IDLE" -> OnNegotiation(e, b, m)
                   [] b.state = "SYNC_NEGOTIATION" -> OnDeviceId(e, b, m)
                   [] b.state = "SYNC_DEVICE_ID" -> OnAuthRequest(e, b, m)
                   [] b.state = "DEVICE_AUTH" -> OnAuthResponse(e, b, m)
                   [] b.state = "SYNC_DEVICE_INFO" -> OnDeviceInfo(b)

\* softbus_auth_retry_due: the budget of a state, then failure.
retry_due(a) ==
  IF a.retry_count >= SOFTBUS_AUTH_RETRIES THEN Failed(a)
  ELSE [auth |-> [a EXCEPT !.retry_count = @ + 1], out |-> <<a.last>>,
        complete |-> FALSE]

-----------------------------------------------------------------------------
(***************************************************************************)
(* The DMSDP client.  A call returns what the client is after it, and      *)
(* whether it accepts.                                                     *)
(***************************************************************************)
dmsdp_client_new == [state |-> "INIT", pending_cseq |-> 0]

Accepts(c) == [client |-> c, accepted |-> TRUE]
Rejects(c) == [client |-> c, accepted |-> FALSE]

\* dmsdp_client_send: SETUP with CSeq 0, then PLAY with CSeq 1.  Another
\* message is an error; a state that sends nothing stays.
client_send(c, m) ==
  CASE c.state = "INIT" /\ m = Dmsdp("SETUP", 0) ->
         Accepts([state |-> "WAIT_SETUP_REPLY", pending_cseq |-> 0])
    [] c.state = "SEND_PLAY" /\ m = Dmsdp("PLAY", 1) ->
         Accepts([state |-> "WAIT_PLAY_REPLY", pending_cseq |-> 1])
    [] c.state = "INIT" /\ m # Dmsdp("SETUP", 0) -> Rejects([c EXCEPT !.state = "ERROR"])
    [] c.state = "SEND_PLAY" /\ m # Dmsdp("PLAY", 1) -> Rejects([c EXCEPT !.state = "ERROR"])
    [] OTHER -> Rejects(c)

\* Mutant: the first reply makes the session ready.
client_recv_early(c, m) ==
  IF c.state \in {"WAIT_SETUP_REPLY", "WAIT_PLAY_REPLY"}
  THEN Accepts([c EXCEPT !.state = "READY"]) ELSE Accepts(c)

\* dmsdp_client_recv.
client_recv(c, m) ==
  CASE c.state = "READY" -> Accepts(c)
    [] c.state = "WAIT_SETUP_REPLY" /\ m = Dmsdp("RESPONSE", c.pending_cseq) ->
         Accepts([c EXCEPT !.state = "SEND_PLAY"])
    [] c.state = "WAIT_PLAY_REPLY" /\ m = Dmsdp("RESPONSE", c.pending_cseq) ->
         Accepts([c EXCEPT !.state = "READY"])
    [] OTHER -> Rejects([c EXCEPT !.state = "ERROR"])

-----------------------------------------------------------------------------
(***************************************************************************)
(* Steps.  A frame sent on a connection the phone has closed is lost; the  *)
(* send may report it (sent = FALSE).                                      *)
(***************************************************************************)
Carries(s, e, q, out) == IF link[s] = "open" THEN q[Other(e)] \o out ELSE q[Other(e)]

\* End e takes the first frame off its queue and sends out.
Handled(s, e, out) ==
  ch' = [ch EXCEPT ![s] = [e1 \in Ends |-> IF e1 = e THEN Tail(@[e])
                                           ELSE Carries(s, e, @, out)]]

\* The daemon's pump of s sends out, with nothing taken off a queue.
Sent(s, out) == ch' = [ch EXCEPT ![s]["phone"] = Carries(s, "daemon", ch[s], out)]

\* The daemon's handler is where it does at next, with the frame it took.
Goes(s, at) == pump' = [pump EXCEPT ![s].at = at]

HasFrame(s, e) == link[s] \in {"open", "closed"} /\ ch[s][e] # <<>>

\* on_session_opened: the daemon starts the exchange as the active end.
on_session_opened(s) ==
  /\ link[s] = "none"
  /\ link' = [link EXCEPT ![s] = "open"]
  /\ \E r \in {begin_active(auth[s]["daemon"])} :
       /\ auth' = [auth EXCEPT ![s]["daemon"] = r.auth]
       /\ ch' = [ch EXCEPT ![s]["phone"] = @ \o r.out]
  /\ UNCHANGED <<env, client, dmsdp_ready, dmsdp_failed, pump, server>>

\* Between two frames the daemon's pump has a frame to read.
Reads(s) == HasFrame(s, "daemon") /\ pump[s].at = "idle"

\* Mutant: the SETUP overtakes the last authentication message.
SessionAuthSwapped(s) ==
  /\ Reads(s) /\ auth[s]["daemon"].state # "DONE"
  /\ \E r \in {feed("daemon", auth[s]["daemon"], Head(ch[s]["daemon"]))} :
       /\ auth' = [auth EXCEPT ![s]["daemon"] = r.auth]
       /\ Handled(s, "daemon", (IF r.complete THEN <<Dmsdp("SETUP", 0)>> ELSE <<>>) \o r.out)
       /\ client' = IF r.complete THEN client_send(dmsdp_client_new, Dmsdp("SETUP", 0)).client
                     ELSE client
  /\ UNCHANGED <<env, link, dmsdp_ready, dmsdp_failed, pump, server>>

\* on_session_data before authentication is complete.  With a stream port,
\* completion makes a new control client, whatever dmsdp_cl held.
SessionAuth(s) ==
  /\ Reads(s) /\ auth[s]["daemon"].state # "DONE"
  /\ \E r \in {feed("daemon", auth[s]["daemon"], Head(ch[s]["daemon"]))} :
       /\ auth' = [auth EXCEPT ![s]["daemon"] = r.auth]
       /\ Handled(s, "daemon", r.out)
       /\ IF r.complete /\ env.streams
          THEN client' = dmsdp_client_new /\ Goes(s, "setup")
          ELSE UNCHANGED <<client, pump>>
  /\ UNCHANGED <<env, link, dmsdp_ready, dmsdp_failed, server>>

\* The handler has the client make a request, and sends it on the session
\* it runs for, if the client accepts.
Requests(s, m, sent) ==
  /\ sent \/ link[s] = "closed"
  /\ \E r \in {client_send(client, m)} :
       /\ client' = r.client
       /\ IF r.accepted THEN Sent(s, <<m>>) ELSE UNCHANGED ch
       /\ dmsdp_failed' = (dmsdp_failed \/ ~r.accepted \/ ~sent)
  /\ pump' = [pump EXCEPT ![s] = Idle]
  /\ UNCHANGED <<env, auth, link, dmsdp_ready, server>>

\* dmsdp_send_setup.
dmsdp_send_setup(s, sent) == pump[s].at = "setup" /\ Requests(s, Dmsdp("SETUP", 0), sent)

\* A frame of the control protocol goes to the client until it is in ERROR.
IsControl(m) == client.state \notin {"NONE", "ERROR"} /\ m.kind \in DmsdpKinds

\* on_session_data when authentication is complete: a frame for the client.
SessionControl(s) ==
  /\ Reads(s) /\ auth[s]["daemon"].state = "DONE"
  /\ IsControl(Head(ch[s]["daemon"]))
  /\ Handled(s, "daemon", <<>>)
  /\ pump' = [pump EXCEPT ![s] = [at |-> "recv", m |-> Head(ch[s]["daemon"])]]
  /\ UNCHANGED <<env, auth, link, client, dmsdp_ready, dmsdp_failed, server>>

\* dmsdp_handle_reply: the client is fed,
ReplyFed(s) ==
  /\ pump[s].at = "recv"
  /\ \E r \in {client_recv(client, pump[s].m)} :
       /\ client' = r.client
       /\ dmsdp_failed' = (dmsdp_failed \/ ~r.accepted)
       /\ IF r.accepted THEN Goes(s, "reply") ELSE pump' = [pump EXCEPT ![s] = Idle]
  /\ UNCHANGED <<env, auth, link, ch, dmsdp_ready, server>>

\* and what its state asks for is done, the state it has by then:
\* the PLAY is sent,
ReplyAsksPlay(s) ==
  /\ pump[s].at = "reply" /\ client.state = "SEND_PLAY"
  /\ Goes(s, "play")
  /\ UNCHANGED <<env, auth, link, ch, client, dmsdp_ready, dmsdp_failed, server>>

SendPlay(s, sent) == pump[s].at = "play" /\ Requests(s, Dmsdp("PLAY", 1), sent)

\* or the input sequence,
ReplyReady(s, sent) ==
  /\ pump[s].at = "reply" /\ client.state = "READY"
  /\ sent \/ link[s] = "closed"
  /\ Sent(s, <<Input>>)
  /\ dmsdp_ready' = TRUE
  /\ dmsdp_failed' = (dmsdp_failed \/ ~sent)
  /\ pump' = [pump EXCEPT ![s] = Idle]
  /\ UNCHANGED <<env, auth, link, client, server>>

\* or nothing.
ReplyConsumed(s) ==
  /\ pump[s].at = "reply" /\ client.state \notin {"SEND_PLAY", "READY"}
  /\ pump' = [pump EXCEPT ![s] = Idle]
  /\ UNCHANGED <<env, auth, link, ch, client, dmsdp_ready, dmsdp_failed, server>>

\* Any other frame is sent back.
SessionEcho(s) ==
  /\ Reads(s) /\ auth[s]["daemon"].state = "DONE"
  /\ ~IsControl(Head(ch[s]["daemon"]))
  /\ Handled(s, "daemon", <<Head(ch[s]["daemon"])>>)
  /\ UNCHANGED <<env, auth, link, client, dmsdp_ready, dmsdp_failed, pump, server>>

\* The phone runs the same FSM as the passive end, and pings when it is done.
PhoneAuth(s) ==
  /\ link[s] = "open" /\ HasFrame(s, "phone") /\ auth[s]["phone"].state # "DONE"
  /\ \E r \in {feed("phone", auth[s]["phone"], Head(ch[s]["phone"]))} :
       /\ auth' = [auth EXCEPT ![s]["phone"] = r.auth]
       /\ Handled(s, "phone", r.out \o (IF r.complete THEN <<Ping>> ELSE <<>>))
  /\ UNCHANGED <<env, link, client, dmsdp_ready, dmsdp_failed, pump, server>>

\* The phone's control session: it answers SETUP, then PLAY, counts the input
\* sequences and the echoes of its ping, and ignores the rest.
PhoneControl(s) ==
  /\ link[s] = "open" /\ HasFrame(s, "phone") /\ auth[s]["phone"].state = "DONE"
  /\ LET m == Head(ch[s]["phone"])
         v == server[s]
     IN CASE m.kind = "SETUP" /\ v.state = "INIT" ->
               /\ server' = [server EXCEPT ![s].state = "WAIT_PLAY"]
               /\ Handled(s, "phone", <<Dmsdp("RESPONSE", 0)>>)
          [] m.kind = "PLAY" /\ v.state = "WAIT_PLAY" ->
               /\ server' = [server EXCEPT ![s].state = "READY"]
               /\ Handled(s, "phone", <<Dmsdp("RESPONSE", 1)>>)
          [] m.kind = "INPUT" ->
               /\ server' = [server EXCEPT ![s].inputs = @ + 1]
               /\ Handled(s, "phone", <<>>)
          [] m.kind = "PING" ->
               /\ server' = [server EXCEPT ![s].echoes = @ + 1]
               /\ Handled(s, "phone", <<>>)
          [] OTHER -> Handled(s, "phone", <<>>) /\ UNCHANGED server
  /\ UNCHANGED <<env, auth, link, client, dmsdp_ready, dmsdp_failed, pump>>

\* A message of the phone that no request of the daemon asked for: a request
\* of its own, or its last reply sent again.
PhoneExtra(s, m) ==
  /\ link[s] = "open" /\ auth[s]["phone"].state = "DONE"
  /\ m.kind = "RESPONSE" => server[s].state = "READY"
  /\ server[s].extras < env.extras
  /\ server' = [server EXCEPT ![s].extras = @ + 1]
  /\ ch' = [ch EXCEPT ![s]["daemon"] = Append(@, m)]
  /\ UNCHANGED <<env, auth, link, client, dmsdp_ready, dmsdp_failed, pump>>

\* The owner of an exchange asks whether a retry is due, the timeout of the
\* state having passed, and sends its last message again.
Retry(s, e) ==
  /\ e \in env.retries /\ link[s] = "open"
  /\ auth[s][e].state \notin {"DONE", "FAILED"} /\ auth[s][e].awaiting_reply
  /\ \E r \in {retry_due(auth[s][e])} :
       /\ auth' = [auth EXCEPT ![s][e] = r.auth]
       /\ ch' = [ch EXCEPT ![s][Other(e)] = @ \o r.out]
  /\ UNCHANGED <<env, link, client, dmsdp_ready, dmsdp_failed, pump, server>>

\* The phone closes: what it has not read is lost, and what it has sent may be.
PhoneCloses(s) ==
  /\ env.closes /\ link[s] = "open"
  /\ link' = [link EXCEPT ![s] = "closed"]
  /\ \E q \in {<<>>, ch[s]["daemon"]} :
       ch' = [ch EXCEPT ![s] = [e \in Ends |-> IF e = "daemon" THEN q ELSE <<>>]]
  /\ UNCHANGED <<env, auth, client, dmsdp_ready, dmsdp_failed, pump, server>>

\* The pump reads the end of the stream; on_session_closed leaves dmsdp_cl.
on_session_closed(s) ==
  /\ link[s] = "closed" /\ ch[s]["daemon"] = <<>> /\ pump[s].at = "idle"
  /\ link' = [link EXCEPT ![s] = "gone"]
  /\ UNCHANGED <<env, auth, ch, client, dmsdp_ready, dmsdp_failed, pump, server>>

Next ==
  \/ \E s \in Sessions : on_session_opened(s)
  \/ \E s \in Sessions : SessionAuth(s)
  \/ \E s \in Sessions, sent \in BOOLEAN : dmsdp_send_setup(s, sent)
  \/ \E s \in Sessions : SessionControl(s)
  \/ \E s \in Sessions : ReplyFed(s)
  \/ \E s \in Sessions : ReplyAsksPlay(s)
  \/ \E s \in Sessions, sent \in BOOLEAN : SendPlay(s, sent)
  \/ \E s \in Sessions, sent \in BOOLEAN : ReplyReady(s, sent)
  \/ \E s \in Sessions : ReplyConsumed(s)
  \/ \E s \in Sessions : SessionEcho(s)
  \/ \E s \in Sessions : PhoneAuth(s)
  \/ \E s \in Sessions : PhoneControl(s)
  \/ \E s \in Sessions, m \in {Dmsdp("RESPONSE", 1), Dmsdp("TEARDOWN", 7)} :
       PhoneExtra(s, m)
  \/ \E s \in Sessions, e \in Ends : Retry(s, e)
  \/ \E s \in Sessions : PhoneCloses(s)
  \/ \E s \in Sessions : on_session_closed(s)

Spec == Init /\ [][Next]_vars

-----------------------------------------------------------------------------
(***************************************************************************)
(* Properties.                                                             *)
(***************************************************************************)

\* One type invariant for the exchanges, the connections and the client.
TypeOK ==
  /\ \A s \in Sessions, e \in Ends :
       /\ auth[s][e].state \in AuthStates
       /\ auth[s][e].is_active \in BOOLEAN /\ auth[s][e].awaiting_reply \in BOOLEAN
       /\ auth[s][e].retry_count \in 0 .. SOFTBUS_AUTH_RETRIES
       /\ auth[s][e].peer_device_id \in Ends \cup {"none"}
       /\ \A i \in DOMAIN ch[s][e] :
            ch[s][e][i].kind \in AuthKinds \cup DmsdpKinds \cup {"PING", "INPUT"}
  /\ link \in [Sessions -> {"none", "open", "closed", "gone"}]
  /\ client.state \in {"NONE", "INIT", "WAIT_SETUP_REPLY", "SEND_PLAY", "WAIT_PLAY_REPLY",
                      "READY", "ERROR"}
  /\ client.pending_cseq \in 0 .. 1
  /\ dmsdp_ready \in BOOLEAN /\ dmsdp_failed \in BOOLEAN
  /\ \A s \in Sessions :
       /\ pump[s].at \in {"idle", "setup", "recv", "reply", "play"}
       /\ server[s].state \in {"INIT", "WAIT_PLAY", "READY"}

\* An end that reports AUTH COMPLETE has proved the other's secret: the peer
\* holds the same keys, derived from the same secret, whatever was sent twice
\* and whoever gave up meanwhile (softbus_auth_feed, COMPLETE).
DoneIsMutual ==
  \A s \in Sessions, e \in Ends :
    auth[s][e].state = "DONE" =>
      /\ auth[s][e].keys # NoKeys
      /\ auth[s][e].keys = auth[s][Other(e)].keys
      /\ auth[s][e].psk = auth[s][Other(e)].psk
      /\ e = "phone" => auth[s]["daemon"].state = "DONE"

\* Where nobody retries, a frame that is not part of the authentication never
\* meets an end that is still authenticating: the FSM would drop it
\* (on_session_data chooses by the state of the exchange alone).
ControlAfterAuth ==
  \A s \in Sessions, e \in Ends :
    env.retries = {} /\ link[s] = "open" /\ ch[s][e] # <<>>
      /\ Head(ch[s][e]).kind \notin AuthKinds => auth[s][e].state = "DONE"

Alone(s) == \A t \in Sessions \ {s} : link[t] = "none"

InputSent(s) ==
  server[s].inputs > 0 \/ Input \in {ch[s]["phone"][i] : i \in DOMAIN ch[s]["phone"]}

\* On the only session of the daemon the input sequence is sent to a phone
\* that has answered the PLAY (dmsdp_handle_reply).
InputAfterPlay == \A s \in Sessions : Alone(s) /\ InputSent(s) => server[s].state = "READY"

\* The same of every session: "At READY the daemon sends the deterministic
\* 12-event RemoteCtrl input sequence" (main.c).
InputsFollowPlay == \A s \in Sessions : InputSent(s) => server[s].state = "READY"

\* dmsdp.h: in READY "further replies ignored": they are not acted upon.
FurtherRepliesIgnored == \A s \in Sessions : server[s].inputs <= 1

\* softbus_auth.h: "Session keys (valid once state == DONE)": a failed
\* exchange hands out none.
FailedHasNoKeys ==
  \A s \in Sessions, e \in Ends : auth[s][e].state = "FAILED" => auth[s][e].keys = NoKeys

(***************************************************************************)
(* Liveness.  The daemon's pumps run, and the phone reads what it is sent. *)
(* PumpsRun leaves the phone out: it may fall silent.                      *)
(***************************************************************************)
Pump(s) ==
  \/ SessionAuth(s) \/ SessionControl(s) \/ SessionEcho(s) \/ on_session_closed(s)
  \/ ReplyFed(s) \/ ReplyAsksPlay(s) \/ ReplyConsumed(s)
  \/ \E sent \in BOOLEAN :
       dmsdp_send_setup(s, sent) \/ SendPlay(s, sent) \/ ReplyReady(s, sent)

PumpsRun ==
  \A s \in Sessions :
    /\ WF_vars(Pump(s))
    /\ \A e \in Ends : WF_vars(Retry(s, e))

Fairness ==
  /\ PumpsRun
  /\ \A s \in Sessions : WF_vars(PhoneAuth(s) \/ PhoneControl(s))

FairSpec == Spec /\ Fairness
PumpSpec == Spec /\ PumpsRun

Matches(s) ==
  /\ auth[s]["phone"].psk = auth[s]["daemon"].psk
  /\ auth[s]["phone"].version = auth[s]["daemon"].version

Undisturbed(s) == Alone(s) /\ server[s].extras = 0

\* Where nobody retries.  A session of two ends that agree comes to the echo
\* of the phone's ping and, with a stream port and unless another session or
\* an unsolicited message came in between, to the input sequence.  Of two
\* ends that do not agree one refuses and neither ever reports DONE; the other
\* may then wait for good, since main.c does not retry.
SessionSettles ==
  \A s \in Sessions :
    link[s] = "open" /\ env.retries = {} ~>
      \/ link[s] # "open"
      \/ /\ Matches(s) /\ server[s].echoes = 1
         /\ Undisturbed(s) /\ env.streams => server[s].inputs = 1
      \/ /\ ~Matches(s) /\ \E e \in Ends : auth[s][e].state = "FAILED"
         /\ \A e \in Ends : auth[s][e].state # "DONE"

\* softbus_auth.h: the owner calls softbus_auth_retry_due periodically after
\* sending a message that expects a reply, and "When retries are exhausted,
\* state -> FAILED": the daemon's exchange ends.
AuthSettles ==
  \A s \in Sessions :
    link[s] = "open" ~> (link[s] # "open" \/ auth[s]["daemon"].state \in {"DONE", "FAILED"})
============================================================================
