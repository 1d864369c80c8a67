------------------------ MODULE ControlSessionProofs ------------------------
(***************************************************************************)
(* What holds of the control session for any number of connections, any    *)
(* retry budget and whatever the owners and the phone may do.              *)
(*                                                                         *)
(* The invariant of one session is stated over its two exchanges and the   *)
(* sets of frames on their way, as operators of those values: a step of    *)
(* softbus_auth_feed is then a lemma about values, and the steps of the    *)
(* system only say which of the values they replace.                       *)
(***************************************************************************)
EXTENDS ControlSession, SequenceTheorems, TLAPS

Ids == Ends \X Sessions

\* What a message may be.
Messages ==
  [kind : {"SYNC_NEGOTIATION"}, auth_id : Ids, version : Versions]
    \cup [kind : {"SYNC_DEVICE_ID"}, auth_id : Ids, deviceId : Ends]
    \cup [kind : {"DEVICE_AUTH"}, auth_id : Ids, nonce : Ids, deviceId : Ends]
    \cup [kind : {"DEVICE_AUTH"}, auth_id : Ids, nonce : Ids,
          sig : Psks \X Ids \X Ids \X Ends \X Ends]
    \cup [kind : {"SYNC_DEVICE_INFO"}, auth_id : Ids]
    \cup [kind : DmsdpKinds, cseq : Nat]
    \cup [kind : {"PING", "INPUT"}]

Auths ==
  [state : AuthStates, is_active : BOOLEAN, awaiting_reply : BOOLEAN,
   auth_id : Ids, nonce : Ids, retry_count : 0 .. SOFTBUS_AUTH_RETRIES,
   peer_device_id : Ends \cup {"none"}, keys : {NoKeys} \cup (Psks \X SUBSET Ends),
   psk : Psks, version : Versions, last : Messages \cup {NoMessage}]

Clients ==
  [state : {"NONE", "INIT", "WAIT_SETUP_REPLY", "SEND_PLAY", "WAIT_PLAY_REPLY", "READY",
            "ERROR"},
   pending_cseq : {0, 1}]

Pumps ==
  [at : {"idle", "setup", "recv", "reply", "play"}, m : Messages \cup {NoMessage}]

Servers ==
  [state : {"INIT", "WAIT_PLAY", "READY"}, inputs : Nat, echoes : Nat, extras : Nat]

TypeInv ==
  /\ env \in Environments
  /\ auth \in [Sessions -> [Ends -> Auths]]
  /\ link \in [Sessions -> {"none", "open", "closed", "gone"}]
  /\ ch \in [Sessions -> [Ends -> Seq(Messages)]]
  /\ client \in Clients
  /\ dmsdp_ready \in BOOLEAN /\ dmsdp_failed \in BOOLEAN
  /\ pump \in [Sessions -> Pumps]
  /\ server \in [Sessions -> Servers]

\* The frames of a queue.
Frames(q) == {q[i] : i \in DOMAIN q}

(***************************************************************************)
(* The exchange.  D and P are the contexts of the daemon and of the phone. *)
(***************************************************************************)

\* The keys of a phone that has answered the request for its signature.
Shared(P) == derive_keys(P.psk, "phone", "daemon")

DaemonPart(D) ==
  /\ D.state \in {"IDLE", "SYNC_NEGOTIATION", "DEVICE_AUTH", "DONE", "FAILED"}
  /\ D.is_active \/ D.state = "IDLE"
  /\ D.state = "DEVICE_AUTH" => D.peer_device_id = "phone"
  /\ D.awaiting_reply =>
       /\ D.last \in Messages
       /\ D.last.kind \in {"SYNC_NEGOTIATION", "DEVICE_AUTH"}
       /\ D.last.kind = "DEVICE_AUTH" => D.last.deviceId = "daemon"

PhonePart(P) ==
  /\ P.state \in {"IDLE", "SYNC_DEVICE_ID", "SYNC_DEVICE_INFO", "DONE", "FAILED"}
  /\ ~P.is_active
  /\ P.keys \in {NoKeys, Shared(P)}
  /\ P.state \in {"IDLE", "SYNC_DEVICE_ID"} => P.keys = NoKeys
  /\ P.state \in {"SYNC_DEVICE_INFO", "DONE"} => P.keys = Shared(P)

\* What a frame on its way to the daemon says of the phone that sent it.
ToDaemon(m, P) ==
  /\ m.kind = "SYNC_DEVICE_ID" => m.deviceId = "phone"
  /\ m.kind = "DEVICE_AUTH" => m.sig[1] = P.psk /\ P.keys = Shared(P)
  /\ m.kind \notin AuthKinds => P.state = "DONE"
  /\ m.kind \notin {"INPUT", "SYNC_DEVICE_INFO"}

\* What a frame on its way to the phone says of the daemon.  The daemon sends
\* an answer of the phone back once it is done.
ToPhone(m, D, P) ==
  /\ m.kind = "SYNC_DEVICE_INFO" => D.state = "DONE"
  /\ m.kind = "DEVICE_AUTH" => P.keys # NoKeys \/ m.deviceId = "daemon"

\* SD and SP are the frames on their way to the daemon and to the phone.
Exchange(D, P, SD, SP) ==
  /\ DaemonPart(D) /\ PhonePart(P)
  /\ P.awaiting_reply =>
       P.last \in Messages /\ P.last.kind \in AuthKinds /\ ToDaemon(P.last, P)
  /\ \A m \in SD : ToDaemon(m, P)
  /\ \A m \in SP : ToPhone(m, D, P)
  /\ D.state = "DONE" => D.keys = P.keys /\ P.keys = Shared(P) /\ D.psk = P.psk
  /\ P.state = "DONE" => D.state = "DONE"

(***************************************************************************)
(* The phases of an exchange in which nobody retries and the phone has not *)
(* closed: at most one authentication message is on its way.               *)
(***************************************************************************)
Single(q, kind, id) == Len(q) = 1 /\ q[1].kind = kind /\ q[1].auth_id = id

Phases(D, P, qd, qp) ==
  \/ /\ D.state = "SYNC_NEGOTIATION" /\ P.state = "IDLE"
     /\ qd = <<>> /\ Single(qp, "SYNC_NEGOTIATION", D.auth_id)
  \/ /\ D.state = "SYNC_NEGOTIATION" /\ P.state = "SYNC_DEVICE_ID"
     /\ P.auth_id = D.auth_id
     /\ Single(qd, "SYNC_DEVICE_ID", D.auth_id) /\ qp = <<>>
  \/ /\ D.state = "DEVICE_AUTH" /\ P.state = "SYNC_DEVICE_ID"
     /\ P.auth_id = D.auth_id
     /\ qd = <<>> /\ Single(qp, "DEVICE_AUTH", D.auth_id)
  \/ /\ D.state = "DEVICE_AUTH" /\ P.state = "SYNC_DEVICE_INFO"
     /\ P.auth_id = D.auth_id
     /\ Single(qd, "DEVICE_AUTH", D.auth_id) /\ qp = <<>>
  \/ /\ D.state = "DONE" /\ P.state = "SYNC_DEVICE_INFO"
     /\ P.auth_id = D.auth_id
     /\ qd = <<>> /\ qp # <<>>
     /\ Head(qp).kind = "SYNC_DEVICE_INFO" /\ Head(qp).auth_id = P.auth_id
  \/ D.state = "DONE" /\ P.state = "DONE"
  \/ D.state # "DONE" /\ P.state # "DONE" /\ qd = <<>> /\ qp = <<>>

(***************************************************************************)
(* The control protocol.                                                   *)
(***************************************************************************)

\* A reply to PLAY comes from a phone that has answered it.
Answered(s) ==
  \A m \in Frames(ch[s]["daemon"]) :
    m = Dmsdp("RESPONSE", 1) => server[s].state = "READY"

SessionInv(s) ==
  /\ Exchange(auth[s]["daemon"], auth[s]["phone"],
              Frames(ch[s]["daemon"]), Frames(ch[s]["phone"]))
  /\ link[s] = "none" => /\ auth[s]["daemon"].state = "IDLE"
                         /\ auth[s]["phone"].state = "IDLE"
                         /\ ch[s]["daemon"] = <<>> /\ ch[s]["phone"] = <<>>
                         /\ server[s].inputs = 0
  /\ link[s] # "none" => auth[s]["daemon"].is_active
  /\ env.retries = {} /\ link[s] = "open" =>
       Phases(auth[s]["daemon"], auth[s]["phone"], ch[s]["daemon"], ch[s]["phone"])
  /\ Answered(s)

\* dmsdp_cl waits for the answer to what it sent last, and what it knows it
\* knows from the only session there is.
ClientInv ==
  /\ client.state = "WAIT_SETUP_REPLY" => client.pending_cseq = 0
  /\ client.state = "WAIT_PLAY_REPLY" => client.pending_cseq = 1
  /\ \A s \in Sessions :
       Alone(s) /\ (client.state = "READY" \/ InputSent(s)) => server[s].state = "READY"

\* A handler that calls the client runs for a session whose exchange is
\* complete, and the frame it took is an answer like those on their way.
Handles(s) ==
  /\ pump[s].at # "idle" => link[s] # "none" /\ auth[s]["daemon"].state = "DONE"
  /\ pump[s].at = "recv" => pump[s].m \in Messages
  /\ pump[s].m = Dmsdp("RESPONSE", 1) => server[s].state = "READY"

ControlInv ==
  TypeInv /\ (\A s \in Sessions : SessionInv(s) /\ Handles(s)) /\ ClientInv

-----------------------------------------------------------------------------
(***************************************************************************)
(* Queues as sets of frames.                                               *)
(***************************************************************************)

\* What a queue holds after frames are appended, and after one is taken off.
LEMMA FramesOfQueues ==
  ASSUME NEW q \in Seq(Messages), NEW r \in Seq(Messages)
  PROVE  /\ Frames(q) \subseteq Messages
         /\ q \o r \in Seq(Messages) /\ Frames(q \o r) = Frames(q) \cup Frames(r)
         /\ q # <<>> => /\ Head(q) \in Messages /\ Head(q) \in Frames(q)
                        /\ Tail(q) \in Seq(Messages) /\ Frames(Tail(q)) \subseteq Frames(q)
  <1>1. Frames(q) \subseteq Messages
    BY DEF Frames
  <1>2. q \o r \in Seq(Messages)
    OBVIOUS
  <1>3. Frames(q \o r) \subseteq Frames(q) \cup Frames(r)
    BY DEF Frames
  <1>4. Frames(q) \subseteq Frames(q \o r)
    <2> SUFFICES ASSUME NEW i \in DOMAIN q PROVE q[i] \in Frames(q \o r)
      BY DEF Frames
    <2>1. i \in DOMAIN (q \o r) /\ (q \o r)[i] = q[i]
      OBVIOUS
    <2> QED BY <2>1 DEF Frames
  <1>5. Frames(r) \subseteq Frames(q \o r)
    <2> SUFFICES ASSUME NEW i \in DOMAIN r PROVE r[i] \in Frames(q \o r)
      BY DEF Frames
    <2>1. Len(q) + i \in DOMAIN (q \o r) /\ (q \o r)[Len(q) + i] = r[i]
      OBVIOUS
    <2> QED BY <2>1 DEF Frames
  <1>6. ASSUME q # <<>>
        PROVE /\ Head(q) \in Messages /\ Head(q) \in Frames(q)
              /\ Tail(q) \in Seq(Messages) /\ Frames(Tail(q)) \subseteq Frames(q)
    <2>1. 1 \in DOMAIN q /\ Head(q) = q[1] /\ Tail(q) \in Seq(Messages)
      BY <1>6
    <2>2. \A i \in DOMAIN Tail(q) : i + 1 \in DOMAIN q /\ Tail(q)[i] = q[i + 1]
      BY <1>6
    <2> QED BY <2>1, <2>2 DEF Frames
  <1> QED BY <1>1, <1>2, <1>3, <1>4, <1>5, <1>6

\* One frame alone.
LEMMA FramesOfOne ==
  ASSUME NEW m \in Messages
  PROVE  <<m>> \in Seq(Messages) /\ Frames(<<m>>) = {m} /\ Len(<<m>>) = 1 /\ <<m>>[1] = m
         /\ Head(<<m>>) = m /\ <<m>> # <<>>
  BY DEF Frames

\* No frame.
LEMMA FramesOfNone == <<>> \in Seq(Messages) /\ Frames(<<>>) = {}
  BY DEF Frames

\* Nothing is left of a queue of one.
LEMMA TailOfOne ==
  ASSUME NEW q \in Seq(Messages), Len(q) = 1
  PROVE  Tail(q) = <<>>
  <1>1. q # <<>>
    BY EmptySeq
  <1>2. Tail(q) \in Seq(Messages) /\ Len(Tail(q)) = 0
    BY <1>1, HeadTailProperties
  <1> QED BY <1>2, EmptySeq

\* The fields that messages of each kind carry.
LEMMA MessageFields ==
  ASSUME NEW m \in Messages
  PROVE  /\ m.kind \in AuthKinds \cup DmsdpKinds \cup {"PING", "INPUT"}
         /\ m.kind \in AuthKinds => m.auth_id \in Ids
         /\ m.kind = "SYNC_DEVICE_ID" => m.deviceId \in Ends
         /\ m.kind = "DEVICE_AUTH" => m.nonce \in Ids
  <1>1. m.kind \in AuthKinds \cup DmsdpKinds \cup {"PING", "INPUT"}
    BY DEF Messages, AuthKinds, DmsdpKinds
  <1>2. m.kind \in AuthKinds => m.auth_id \in Ids
    BY DEF Messages, AuthKinds, DmsdpKinds
  <1>3. m.kind = "SYNC_DEVICE_ID" => m.deviceId \in Ends
    BY DEF Messages, DmsdpKinds
  <1>4. m.kind = "DEVICE_AUTH" => m.nonce \in Ids
    BY DEF Messages, DmsdpKinds
  <1> QED BY <1>1, <1>2, <1>3, <1>4

\* What the daemon and the phone make of themselves are messages.
LEMMA MessagesMade ==
  ASSUME NEW a \in Auths, NEW e \in Ends
  PROVE  /\ Negotiation(a) \in Messages /\ DeviceId(e, a) \in Messages
         /\ AuthRequest(e, a) \in Messages /\ DeviceInfo(a) \in Messages
         /\ Ping \in Messages /\ Input \in Messages
         /\ \A type \in DmsdpKinds, n \in Nat : Dmsdp(type, n) \in Messages
  <1>1. a.auth_id \in Ids /\ a.nonce \in Ids /\ a.version \in Versions
    BY DEF Auths
  <1>2. Negotiation(a) \in Messages /\ DeviceId(e, a) \in Messages
    BY <1>1 DEF Messages, Negotiation, DeviceId
  <1>3. AuthRequest(e, a) \in Messages /\ DeviceInfo(a) \in Messages
    BY <1>1 DEF Messages, AuthRequest, DeviceInfo
  <1>4. Ping \in Messages /\ Input \in Messages
    BY DEF Messages, Ping, Input
  <1>5. \A type \in DmsdpKinds, n \in Nat : Dmsdp(type, n) \in Messages
    BY DEF Messages, Dmsdp
  <1> QED BY <1>2, <1>3, <1>4, <1>5

-----------------------------------------------------------------------------
(***************************************************************************)
(* softbus_auth_feed, role by role.                                        *)
(***************************************************************************)

\* What the active end makes of a frame.
LEMMA ActiveFeed ==
  ASSUME NEW D \in Auths, NEW m \in Messages, D.is_active, DaemonPart(D)
  PROVE  LET r == feed("daemon", D, m)
         IN \/ r = Noop(D) /\ (D.state \in {"DONE", "FAILED"} \/ m.kind \notin AuthKinds)
            \/ /\ r = Failed(D) /\ D.state # "DONE"
               /\ \/ m.auth_id # D.auth_id
                  \/ D.state = "SYNC_NEGOTIATION" /\ m.kind # "SYNC_DEVICE_ID"
                  \/ D.state \notin {"SYNC_NEGOTIATION", "FAILED"}
            \/ /\ D.state = "SYNC_NEGOTIATION" /\ m.kind = "SYNC_DEVICE_ID"
               /\ m.auth_id = D.auth_id /\ r = OnDeviceId("daemon", D, m)
            \/ /\ D.state = "DEVICE_AUTH" /\ m.kind = "DEVICE_AUTH"
               /\ m.auth_id = D.auth_id
               /\ m.sig = compute_sig(D.psk, D.nonce, m.nonce, "daemon", D.peer_device_id)
               /\ r = OnAuthResponse("daemon", D, m)
  <1> DEFINE r == feed("daemon", D, m)
  <1>1. CASE D.state \in {"DONE", "FAILED"} \/ m.kind \notin AuthKinds
    BY <1>1 DEF feed
  <1>2. CASE D.state \notin {"DONE", "FAILED"} /\ m.kind \in AuthKinds
    <2>1. Adopt(D, m) = D
      BY DEF Adopt
    <2>2. D.state \in {"IDLE", "SYNC_NEGOTIATION", "DEVICE_AUTH"}
      BY <1>2 DEF DaemonPart
    <2>3. CASE m.auth_id # D.auth_id \/ m.kind # Expected(D)
      <3>1. r = Failed(D)
        BY <1>2, <2>1, <2>3 DEF feed
      <3>2. D.state = "SYNC_NEGOTIATION" => Expected(D) = "SYNC_DEVICE_ID"
        BY DEF Expected
      <3> QED BY <1>2, <2>2, <2>3, <3>1, <3>2
    <2>4. CASE m.auth_id = D.auth_id /\ m.kind = Expected(D)
      <3>1. r = CASE D.state = "IDLE" -> OnNegotiation("daemon", D, m)
                  [] D.state = "SYNC_NEGOTIATION" -> OnDeviceId("daemon", D, m)
                  [] D.state = "SYNC_DEVICE_ID" -> OnAuthRequest("daemon", D, m)
                  [] D.state = "DEVICE_AUTH" -> OnAuthResponse("daemon", D, m)
                  [] D.state = "SYNC_DEVICE_INFO" -> OnDeviceInfo(D)
        BY <1>2, <2>1, <2>4 DEF feed
      <3>2. CASE D.state = "IDLE"
        <4>1. Expected(D) = "none"
          BY <3>2 DEF Expected
        <4> QED BY <1>2, <2>4, <4>1 DEF AuthKinds
      <3>3. CASE D.state = "SYNC_NEGOTIATION"
        <4>1. Expected(D) = "SYNC_DEVICE_ID" /\ r = OnDeviceId("daemon", D, m)
          BY <3>1, <3>3 DEF Expected
        <4> QED BY <2>4, <3>3, <4>1
      <3>4. CASE D.state = "DEVICE_AUTH"
        <4>1. Expected(D) = "DEVICE_AUTH" /\ r = OnAuthResponse("daemon", D, m)
          BY <3>1, <3>4 DEF Expected
        <4>2. CASE m.sig = compute_sig(D.psk, D.nonce, m.nonce, "daemon", D.peer_device_id)
          BY <2>4, <3>4, <4>1, <4>2
        <4>3. CASE m.sig # compute_sig(D.psk, D.nonce, m.nonce, "daemon", D.peer_device_id)
          <5>1. r = Failed(D)
            BY <4>1, <4>3 DEF OnAuthResponse
          <5> QED BY <5>1, <3>4
        <4> QED BY <4>2, <4>3
      <3> QED BY <2>2, <3>2, <3>3, <3>4
    <2> QED BY <2>3, <2>4
  <1> QED BY <1>1, <1>2

\* What the passive end makes of a frame.
LEMMA PassiveFeed ==
  ASSUME NEW P \in Auths, NEW m \in Messages, PhonePart(P)
  PROVE  LET r == feed("phone", P, m)
             b == Adopt(P, m)
         IN \/ r = Noop(P) /\ (P.state \in {"DONE", "FAILED"} \/ m.kind \notin AuthKinds)
            \/ /\ r = Failed(b) /\ P.state \notin {"DONE", "FAILED"} /\ m.kind \in AuthKinds
               /\ P.state = "SYNC_DEVICE_INFO" =>
                    m.kind # "SYNC_DEVICE_INFO" \/ m.auth_id # P.auth_id
               /\ P.state = "SYNC_DEVICE_ID" =>
                    m.kind # "DEVICE_AUTH" \/ m.auth_id # P.auth_id
            \/ /\ P.state = "IDLE" /\ m.kind = "SYNC_NEGOTIATION"
               /\ r = Sends(b, "SYNC_DEVICE_ID", DeviceId("phone", b))
            \/ /\ P.state = "SYNC_DEVICE_ID" /\ m.kind = "DEVICE_AUTH"
               /\ m.auth_id = P.auth_id /\ r = OnAuthRequest("phone", P, m)
            \/ /\ P.state = "SYNC_DEVICE_INFO" /\ m.kind = "SYNC_DEVICE_INFO"
               /\ m.auth_id = P.auth_id
               /\ r = [auth |-> [enter_state(P, "DONE") EXCEPT !.awaiting_reply = FALSE],
                       out |-> <<>>, complete |-> TRUE]
  <1> DEFINE r == feed("phone", P, m)
             b == Adopt(P, m)
  <1>1. CASE P.state \in {"DONE", "FAILED"} \/ m.kind \notin AuthKinds
    BY <1>1 DEF feed
  <1>2. CASE P.state \notin {"DONE", "FAILED"} /\ m.kind \in AuthKinds
    <2>1. P.state \in {"IDLE", "SYNC_DEVICE_ID", "SYNC_DEVICE_INFO"} /\ ~P.is_active
      BY <1>2 DEF PhonePart
    <2>2. /\ b.state = P.state /\ b.is_active = P.is_active /\ b.keys = P.keys
          /\ P.state # "IDLE" => b = P
          /\ P.state = "IDLE" => b.auth_id = m.auth_id
      BY <2>1 DEF Adopt, Auths
    <2>3. /\ P.state = "IDLE" => Expected(b) = "SYNC_NEGOTIATION"
          /\ P.state = "SYNC_DEVICE_ID" => Expected(b) = "DEVICE_AUTH"
          /\ P.state = "SYNC_DEVICE_INFO" => Expected(b) = "SYNC_DEVICE_INFO"
      BY <2>1, <2>2 DEF Expected
    <2>4. CASE m.auth_id # b.auth_id \/ m.kind # Expected(b)
      <3>1. r = Failed(b)
        BY <1>2, <2>4 DEF feed
      <3> QED BY <1>2, <2>1, <2>2, <2>3, <2>4, <3>1
    <2>5. CASE m.auth_id = b.auth_id /\ m.kind = Expected(b)
      <3>1. r = CASE b.state = "IDLE" -> OnNegotiation("phone", b, m)
                  [] b.state = "SYNC_NEGOTIATION" -> OnDeviceId("phone", b, m)
                  [] b.state = "SYNC_DEVICE_ID" -> OnAuthRequest("phone", b, m)
                  [] b.state = "DEVICE_AUTH" -> OnAuthResponse("phone", b, m)
                  [] b.state = "SYNC_DEVICE_INFO" -> OnDeviceInfo(b)
        BY <1>2, <2>5 DEF feed
      <3> HIDE DEF b
      <3>2. CASE P.state = "IDLE"
        <4>1. r = OnNegotiation("phone", b, m) /\ m.kind = "SYNC_NEGOTIATION"
          BY <3>1, <3>2, <2>2, <2>3, <2>5
        <4>2. r = Failed(b) \/ r = Sends(b, "SYNC_DEVICE_ID", DeviceId("phone", b))
          BY <4>1 DEF OnNegotiation
        <4> QED BY <1>2, <3>2, <4>1, <4>2 DEF b
      <3>3. CASE P.state = "SYNC_DEVICE_ID"
        <4>1. r = OnAuthRequest("phone", P, m) /\ m.kind = "DEVICE_AUTH" /\ m.auth_id = P.auth_id
          BY <3>1, <3>3, <2>2, <2>3, <2>5
        <4> QED BY <3>3, <4>1
      <3>4. CASE P.state = "SYNC_DEVICE_INFO"
        <4>1. r = OnDeviceInfo(P) /\ m.kind = "SYNC_DEVICE_INFO" /\ m.auth_id = P.auth_id
          BY <3>1, <3>4, <2>2, <2>3, <2>5
        <4>2. P.keys # NoKeys
          BY <3>4 DEF PhonePart, Shared, derive_keys, NoKeys
        <4>3. r = [auth |-> [enter_state(P, "DONE") EXCEPT !.awaiting_reply = FALSE],
                   out |-> <<>>, complete |-> TRUE]
          BY <4>1, <4>2 DEF OnDeviceInfo
        <4> QED BY <3>4, <4>1, <4>3
      <3> QED BY <2>1, <3>2, <3>3, <3>4
    <2> QED BY <2>4, <2>5
  <1> QED BY <1>1, <1>2

-----------------------------------------------------------------------------
(***************************************************************************)
(* What a step of the FSM leaves of a context.                             *)
(***************************************************************************)

\* Two contexts of one exchange: the secret, the version and the role stay.
SameEnd(a, b) ==
  /\ b.is_active = a.is_active /\ b.nonce = a.nonce
  /\ b.psk = a.psk /\ b.version = a.version

\* fail().
LEMMA FailFields ==
  ASSUME NEW a \in Auths
  PROVE  LET b == fail(a)
         IN /\ b \in Auths /\ SameEnd(a, b)
            /\ b.state = "FAILED" /\ b.awaiting_reply = FALSE
            /\ b.keys = a.keys /\ b.auth_id = a.auth_id
            /\ Failed(a) = [auth |-> b, out |-> <<>>, complete |-> FALSE]
  BY DEF fail, Failed, SameEnd, Auths, AuthStates

\* Result r of an FSM in context a that has moved on to a state and sends f.
Moved(r, a, state, f) ==
  /\ r.auth \in Auths /\ SameEnd(a, r.auth)
  /\ r.auth.state = state /\ r.auth.awaiting_reply = TRUE /\ r.auth.last = f
  /\ r.auth.keys = a.keys /\ r.auth.auth_id = a.auth_id
  /\ r.auth.peer_device_id = a.peer_device_id
  /\ r.out = <<f>> /\ r.complete = FALSE

\* The FSM moves on and sends a message.
LEMMA SendsFields ==
  ASSUME NEW a \in Auths, NEW state \in AuthStates, NEW f \in Messages
  PROVE  Moved(Sends(a, state, f), a, state, f)
  <1> DEFINE b == [enter_state(a, state) EXCEPT !.awaiting_reply = TRUE, !.last = f]
  <1>1. 0 \in 0 .. SOFTBUS_AUTH_RETRIES
    BY ControlAssumption
  <1>2. b \in Auths
    BY <1>1 DEF enter_state, Auths
  <1>3. /\ SameEnd(a, b)
        /\ b.state = state /\ b.awaiting_reply = TRUE /\ b.last = f
        /\ b.keys = a.keys /\ b.auth_id = a.auth_id
        /\ b.peer_device_id = a.peer_device_id
    BY DEF enter_state, Auths, SameEnd
  <1>4. Sends(a, state, f) = [auth |-> b, out |-> <<f>>, complete |-> FALSE]
    BY DEF Sends
  <1> HIDE DEF b
  <1> QED BY <1>2, <1>3, <1>4 DEF Moved

\* The daemon begins.
Begun(r, D) ==
  /\ r.auth \in Auths /\ r.auth.is_active /\ r.auth.psk = D.psk
  /\ r.auth.state = "SYNC_NEGOTIATION" /\ r.auth.awaiting_reply = TRUE
  /\ r.auth.last = Negotiation(D) /\ r.auth.auth_id = D.auth_id
  /\ r.out = <<Negotiation(D)>>

\* begin_active.
LEMMA BeginFields ==
  ASSUME NEW D \in Auths, D.state = "IDLE"
  PROVE  Begun(begin_active(D), D)
  <1> DEFINE a == [D EXCEPT !.is_active = TRUE]
  <1>1. a \in Auths /\ a.is_active = TRUE /\ a.psk = D.psk /\ a.auth_id = D.auth_id
    BY DEF Auths
  <1>2. begin_active(D) = Sends(a, "SYNC_NEGOTIATION", Negotiation(D))
    BY DEF begin_active
  <1>3. Negotiation(D) \in Messages /\ "SYNC_NEGOTIATION" \in AuthStates
    BY MessagesMade DEF Ends, AuthStates
  <1> HIDE DEF a
  <1>4. Moved(Sends(a, "SYNC_NEGOTIATION", Negotiation(D)), a, "SYNC_NEGOTIATION", Negotiation(D))
    BY <1>1, <1>3, SendsFields
  <1> QED BY <1>1, <1>2, <1>4 DEF SameEnd, Moved, Begun

\* The daemon learns the phone's id.
Asked(r, D) ==
  /\ r.auth \in Auths /\ SameEnd(D, r.auth) /\ r.auth.auth_id = D.auth_id
  /\ r.auth.state = "DEVICE_AUTH" /\ r.auth.awaiting_reply = TRUE
  /\ r.auth.peer_device_id = "phone"
  /\ r.auth.last \in Messages /\ r.auth.last.kind = "DEVICE_AUTH"
  /\ r.auth.last.deviceId = "daemon" /\ r.auth.last.auth_id = D.auth_id
  /\ r.out = <<r.auth.last>> /\ r.complete = FALSE

\* OnDeviceId, given the id of the phone.
LEMMA DeviceIdFields ==
  ASSUME NEW D \in Auths, NEW m \in Messages, m.deviceId = "phone"
  PROVE  Asked(OnDeviceId("daemon", D, m), D)
  <1> DEFINE a == [D EXCEPT !.peer_device_id = m.deviceId]
  <1>1. a \in Auths /\ SameEnd(D, a) /\ a.auth_id = D.auth_id
        /\ a.peer_device_id = "phone"
    BY DEF Auths, SameEnd, Ends
  <1>2. OnDeviceId("daemon", D, m) = Sends(a, "DEVICE_AUTH", AuthRequest("daemon", a))
    BY DEF OnDeviceId
  <1> HIDE DEF a
  <1>3. AuthRequest("daemon", a) \in Messages /\ "DEVICE_AUTH" \in AuthStates
    BY <1>1, MessagesMade DEF Ends, AuthStates
  <1>4. LET q == AuthRequest("daemon", a)
        IN q.kind = "DEVICE_AUTH" /\ q.deviceId = "daemon" /\ q.auth_id = D.auth_id
    BY <1>1 DEF AuthRequest
  <1>5. Moved(Sends(a, "DEVICE_AUTH", AuthRequest("daemon", a)), a, "DEVICE_AUTH", AuthRequest("daemon", a))
    BY <1>1, <1>3, SendsFields
  <1> QED BY <1>1, <1>2, <1>3, <1>4, <1>5 DEF SameEnd, Moved, Asked

\* The daemon accepts the phone's signature.
Accepted(r, D, m) ==
  /\ r.auth \in Auths /\ SameEnd(D, r.auth) /\ r.auth.auth_id = D.auth_id
  /\ r.auth.state = "DONE" /\ r.auth.awaiting_reply = FALSE
  /\ r.auth.keys = derive_keys(D.psk, "phone", "daemon")
  /\ m.sig[1] = D.psk
  /\ r.out = <<DeviceInfo(r.auth)>> /\ r.complete = TRUE

\* OnAuthResponse, given the signature it asks for.
LEMMA AcceptFields ==
  ASSUME NEW D \in Auths, NEW m \in Messages, D.peer_device_id = "phone",
         m.sig = compute_sig(D.psk, D.nonce, m.nonce, "daemon", D.peer_device_id)
  PROVE  Accepted(OnAuthResponse("daemon", D, m), D, m)
  <1> DEFINE b == [D EXCEPT !.keys = derive_keys(D.psk, "daemon", D.peer_device_id),
                            !.awaiting_reply = FALSE, !.state = "DONE"]
  <1>1. derive_keys(D.psk, "daemon", D.peer_device_id) = derive_keys(D.psk, "phone", "daemon")
    BY DEF derive_keys
  <1>2. derive_keys(D.psk, "phone", "daemon") \in Psks \X SUBSET Ends
    BY DEF derive_keys, Auths, Ends
  <1>3. b \in Auths /\ SameEnd(D, b) /\ b.auth_id = D.auth_id
        /\ b.state = "DONE" /\ b.awaiting_reply = FALSE
        /\ b.keys = derive_keys(D.psk, "phone", "daemon")
    BY <1>1, <1>2 DEF Auths, AuthStates, SameEnd
  <1>4. OnAuthResponse("daemon", D, m) =
          [auth |-> b, out |-> <<DeviceInfo(b)>>, complete |-> TRUE]
    BY DEF OnAuthResponse
  <1>5. m.sig[1] = D.psk
    BY DEF compute_sig
  <1> HIDE DEF b
  <1> QED BY <1>3, <1>4, <1>5 DEF Accepted

\* The phone takes the exchange's id.
LEMMA AdoptFields ==
  ASSUME NEW P \in Auths, NEW m \in Messages, m.kind \in AuthKinds
  PROVE  LET b == Adopt(P, m)
         IN /\ b \in Auths /\ SameEnd(P, b)
            /\ b.state = P.state /\ b.keys = P.keys
            /\ P.state # "IDLE" => b = P
            /\ P.state = "IDLE" /\ ~P.is_active => b.auth_id = m.auth_id
  <1>1. m.auth_id \in Ids
    BY MessageFields
  <1> QED BY <1>1 DEF Adopt, Auths, SameEnd

\* The phone signs.
Signed(r, P) ==
  /\ r.auth \in Auths /\ SameEnd(P, r.auth) /\ r.auth.auth_id = P.auth_id
  /\ r.auth.state = "SYNC_DEVICE_INFO" /\ r.auth.awaiting_reply = TRUE
  /\ r.auth.keys = Shared(P)
  /\ r.auth.last \in Messages /\ r.auth.last.kind = "DEVICE_AUTH"
  /\ r.auth.last.auth_id = P.auth_id /\ r.auth.last.sig[1] = P.psk
  /\ r.out = <<r.auth.last>> /\ r.complete = FALSE

\* OnAuthRequest.
LEMMA SignFields ==
  ASSUME NEW P \in Auths, NEW m \in Messages, m.kind = "DEVICE_AUTH", m.deviceId = "daemon",
         m.nonce \in Ids
  PROVE  Signed(OnAuthRequest("phone", P, m), P)
  <1> DEFINE a == [P EXCEPT !.peer_device_id = m.deviceId,
                            !.keys = derive_keys(P.psk, "phone", m.deviceId)]
             sig == compute_sig(P.psk, m.nonce, P.nonce, "daemon", "phone")
  <1>1. Shared(P) \in Psks \X SUBSET Ends
    BY DEF Shared, derive_keys, Auths, Ends
  <1>2. a \in Auths /\ SameEnd(P, a) /\ a.auth_id = P.auth_id /\ a.keys = Shared(P)
    BY <1>1 DEF Auths, SameEnd, Shared, Ends
  <1>3. a.psk = P.psk /\ a.nonce = P.nonce
    BY <1>2 DEF SameEnd
  <1>4. OnAuthRequest("phone", P, m) = Sends(a, "SYNC_DEVICE_INFO", AuthResponse(a, sig))
    BY <1>3 DEF OnAuthRequest
  <1>5. sig \in Psks \X Ids \X Ids \X Ends \X Ends /\ sig[1] = P.psk
    BY DEF compute_sig, Auths, Ends
  <1> HIDE DEF a, sig
  <1>6. a.auth_id \in Ids /\ a.nonce \in Ids
    BY <1>2 DEF Auths
  <1>7. AuthResponse(a, sig) \in Messages
    BY <1>5, <1>6 DEF AuthResponse, Messages
  <1>8. LET q == AuthResponse(a, sig)
        IN q.kind = "DEVICE_AUTH" /\ q.auth_id = P.auth_id /\ q.sig[1] = P.psk
    BY <1>2, <1>5 DEF AuthResponse
  <1>9. "SYNC_DEVICE_INFO" \in AuthStates
    BY DEF AuthStates
  <1>10. Moved(Sends(a, "SYNC_DEVICE_INFO", AuthResponse(a, sig)), a, "SYNC_DEVICE_INFO", AuthResponse(a, sig))
    BY <1>2, <1>7, <1>9, SendsFields
  <1> QED BY <1>2, <1>4, <1>7, <1>8, <1>10 DEF SameEnd, Moved, Signed

\* The phone is done.
LEMMA PhoneDoneFields ==
  ASSUME NEW P \in Auths
  PROVE  LET b == [enter_state(P, "DONE") EXCEPT !.awaiting_reply = FALSE]
         IN /\ b \in Auths /\ SameEnd(P, b) /\ b.auth_id = P.auth_id
            /\ b.state = "DONE" /\ b.awaiting_reply = FALSE /\ b.keys = P.keys
  <1>1. 0 \in 0 .. SOFTBUS_AUTH_RETRIES
    BY ControlAssumption
  <1> QED BY <1>1 DEF enter_state, Auths, AuthStates, SameEnd

-----------------------------------------------------------------------------
(***************************************************************************)
(* The exchange keeps its invariant.                                       *)
(***************************************************************************)

\* Frames that are taken off, and frames that say nothing new, do no harm.
LEMMA ExchangeFrames ==
  ASSUME NEW D, NEW P, NEW SD, NEW SP, NEW TD, NEW TP, Exchange(D, P, SD, SP),
         \A m \in TD : m \in SD \/ ToDaemon(m, P),
         \A m \in TP : m \in SP \/ ToPhone(m, D, P)
  PROVE  Exchange(D, P, TD, TP)
  BY DEF Exchange

\* The daemon's context and answer after a frame from SD.
DaemonFed(r, P, SD, SP) ==
  /\ r.auth \in Auths /\ r.auth.is_active /\ r.out \in Seq(Messages)
  /\ \A f \in Frames(r.out) : f.kind \in AuthKinds
  /\ r.complete = (r.auth.state = "DONE")
  /\ Exchange(r.auth, P, SD, SP \cup Frames(r.out))

\* A new context D2 of a daemon that is not done yet.
LEMMA DaemonMoves ==
  ASSUME NEW D, NEW D2, NEW P, NEW SD, NEW SP, NEW TP,
         Exchange(D, P, SD, SP), D.state # "DONE", DaemonPart(D2),
         D2.state = "DONE" => D2.keys = P.keys /\ P.keys = Shared(P) /\ D2.psk = P.psk,
         \A m \in TP : m \in SP \/ ToPhone(m, D2, P)
  PROVE  Exchange(D2, P, SD, TP)
  <1>1. \A m \in SP : ToPhone(m, D2, P)
    BY DEF Exchange, ToPhone
  <1>2. P.state # "DONE"
    BY DEF Exchange
  <1> QED BY <1>1, <1>2 DEF Exchange

\* softbus_auth_feed at the daemon.
LEMMA DaemonTurn ==
  ASSUME NEW D \in Auths, NEW P \in Auths, NEW SD \in SUBSET Messages, NEW SP,
         NEW m \in SD, D.is_active, D.state # "DONE", Exchange(D, P, SD, SP)
  PROVE  DaemonFed(feed("daemon", D, m), P, SD, SP)
  <1> DEFINE r == feed("daemon", D, m)
  <1>1. DaemonPart(D) /\ ToDaemon(m, P) /\ m \in Messages
    BY DEF Exchange
  <1>2. CASE r = Noop(D)
    <2>1. r.auth = D /\ r.out = <<>> /\ r.complete = FALSE
      BY <1>2 DEF Noop
    <2>2. SP \cup Frames(r.out) = SP
      BY <2>1, FramesOfNone
    <2>3. Exchange(r.auth, P, SD, SP \cup Frames(r.out))
      BY <2>1, <2>2
    <2> QED BY <2>1, <2>3, FramesOfNone DEF DaemonFed
  <1>3. CASE r = Failed(D)
    <2> DEFINE b == fail(D)
    <2>1. /\ b \in Auths /\ SameEnd(D, b) /\ b.state = "FAILED" /\ b.awaiting_reply = FALSE
          /\ r = [auth |-> b, out |-> <<>>, complete |-> FALSE]
      BY <1>3, FailFields
    <2> HIDE DEF b, r
    <2>2. r.auth = b /\ r.out = <<>> /\ r.complete = FALSE
      BY <2>1
    <2>3. b.is_active
      BY <2>1 DEF SameEnd
    <2>4. DaemonPart(b)
      BY <2>1, <2>3 DEF DaemonPart
    <2>5. Exchange(b, P, SD, SP)
      BY <2>1, <2>4, DaemonMoves
    <2>6. SP \cup Frames(r.out) = SP
      BY <2>2, FramesOfNone
    <2>7. Exchange(r.auth, P, SD, SP \cup Frames(r.out))
      BY <2>2, <2>5, <2>6
    <2>8. DaemonFed(r, P, SD, SP)
      BY <2>1, <2>2, <2>3, <2>7, FramesOfNone DEF DaemonFed
    <2> QED BY <2>8 DEF r
  <1>4. CASE m.kind = "SYNC_DEVICE_ID" /\ r = OnDeviceId("daemon", D, m)
    <2>1. m.deviceId = "phone"
      BY <1>1, <1>4 DEF ToDaemon
    <2>2. /\ r.auth \in Auths /\ SameEnd(D, r.auth)
          /\ r.auth.state = "DEVICE_AUTH" /\ r.auth.awaiting_reply = TRUE
          /\ r.auth.peer_device_id = "phone"
          /\ r.auth.last \in Messages /\ r.auth.last.kind = "DEVICE_AUTH"
          /\ r.auth.last.deviceId = "daemon"
          /\ r.out = <<r.auth.last>> /\ r.complete = FALSE
      <3>1. Asked(r, D)
        BY <1>1, <1>4, <2>1, DeviceIdFields
      <3> QED BY <3>1 DEF Asked
    <2> HIDE DEF r
    <2>3. r.auth.is_active
      BY <2>2 DEF SameEnd
    <2>4. DaemonPart(r.auth)
      BY <2>2, <2>3 DEF DaemonPart
    <2>5. r.out \in Seq(Messages) /\ Frames(r.out) = {r.auth.last}
      BY <2>2, FramesOfOne
    <2>6. ToPhone(r.auth.last, r.auth, P)
      BY <2>2 DEF ToPhone
    <2>7. /\ \A x \in SP \cup Frames(r.out) : x \in SP \/ ToPhone(x, r.auth, P)
          /\ \A f \in Frames(r.out) : f.kind \in AuthKinds
      BY <2>2, <2>5, <2>6 DEF AuthKinds
    <2>8. r.auth.state # "DONE"
      BY <2>2
    <2>9. Exchange(r.auth, P, SD, SP \cup Frames(r.out))
      BY <2>4, <2>7, <2>8, DaemonMoves
    <2>10. DaemonFed(r, P, SD, SP)
      BY <2>2, <2>3, <2>5, <2>7, <2>8, <2>9 DEF DaemonFed
    <2> QED BY <2>10 DEF r
  <1>5. CASE /\ D.state = "DEVICE_AUTH" /\ m.kind = "DEVICE_AUTH"
             /\ m.sig = compute_sig(D.psk, D.nonce, m.nonce, "daemon", D.peer_device_id)
             /\ r = OnAuthResponse("daemon", D, m)
    <2>1. D.peer_device_id = "phone"
      BY <1>1, <1>5 DEF DaemonPart
    <2>2. /\ r.auth \in Auths /\ SameEnd(D, r.auth)
          /\ r.auth.state = "DONE" /\ r.auth.awaiting_reply = FALSE
          /\ r.auth.keys = derive_keys(D.psk, "phone", "daemon")
          /\ m.sig[1] = D.psk
          /\ r.out = <<DeviceInfo(r.auth)>> /\ r.complete = TRUE
      <3>1. Accepted(r, D, m)
        BY <1>1, <1>5, <2>1, AcceptFields
      <3> QED BY <3>1 DEF Accepted
    <2> HIDE DEF r
    <2>3. r.auth.is_active /\ r.auth.psk = D.psk
      BY <2>2 DEF SameEnd
    <2>4. DaemonPart(r.auth)
      BY <2>2, <2>3 DEF DaemonPart
    <2>5. D.psk = P.psk /\ P.keys = Shared(P)
      BY <1>1, <1>5, <2>2 DEF ToDaemon
    <2>6. r.auth.keys = P.keys
      BY <2>2, <2>5 DEF Shared
    <2>7. DeviceInfo(r.auth) \in Messages /\ DeviceInfo(r.auth).kind = "SYNC_DEVICE_INFO"
      BY <2>2, MessagesMade DEF Ends, DeviceInfo
    <2>8. r.out \in Seq(Messages) /\ Frames(r.out) = {DeviceInfo(r.auth)}
      BY <2>2, <2>7, FramesOfOne
    <2>9. ToPhone(DeviceInfo(r.auth), r.auth, P)
      BY <2>2, <2>7 DEF ToPhone
    <2>10. /\ \A x \in SP \cup Frames(r.out) : x \in SP \/ ToPhone(x, r.auth, P)
           /\ \A f \in Frames(r.out) : f.kind \in AuthKinds
      BY <2>7, <2>8, <2>9 DEF AuthKinds
    <2>11. Exchange(r.auth, P, SD, SP \cup Frames(r.out))
      BY <2>3, <2>4, <2>5, <2>6, <2>10, DaemonMoves
    <2>12. DaemonFed(r, P, SD, SP)
      BY <2>2, <2>3, <2>8, <2>10, <2>11 DEF DaemonFed
    <2> QED BY <2>12 DEF r
  <1> QED BY <1>1, <1>2, <1>3, <1>4, <1>5, ActiveFeed

\* The phone's context and answer after a frame from SP.
PhoneFed(r, D, SD, SP) ==
  /\ r.auth \in Auths /\ r.out \in Seq(Messages)
  /\ \A f \in Frames(r.out) : f.kind \in AuthKinds
  /\ r.complete = (r.auth.state = "DONE")
  /\ Exchange(D, r.auth, SD \cup Frames(r.out), SP)

\* What a context says of the message its owner may repeat.
Repeats(P) ==
  P.awaiting_reply => P.last \in Messages /\ P.last.kind \in AuthKinds /\ ToDaemon(P.last, P)

\* A new context P2 of a phone that is not done yet.
LEMMA PhoneMoves ==
  ASSUME NEW D, NEW P, NEW P2, NEW SD, NEW SP, NEW TD,
         Exchange(D, P, SD, SP), P.state # "DONE", PhonePart(P2), Repeats(P2),
         P2.psk = P.psk, P.keys # NoKeys => P2.keys = P.keys,
         P2.state = "DONE" => D.state = "DONE",
         \A m \in TD : m \in SD \/ ToDaemon(m, P2)
  PROVE  Exchange(D, P2, TD, SP)
  <1>1. Shared(P2) = Shared(P) /\ Shared(P) # NoKeys
    BY DEF Shared, derive_keys, NoKeys
  <1>2. \A m \in SD : ToDaemon(m, P2)
    BY <1>1 DEF Exchange, ToDaemon
  <1>3. \A m \in SP : ToPhone(m, D, P2)
    BY DEF Exchange, ToPhone
  <1>4. D.state = "DONE" => D.keys = P2.keys /\ P2.keys = Shared(P2) /\ D.psk = P2.psk
    BY <1>1 DEF Exchange
  <1>5. DaemonPart(D)
    BY DEF Exchange
  <1> QED BY <1>2, <1>3, <1>4, <1>5 DEF Exchange, Repeats

\* softbus_auth_feed at the phone.
LEMMA PhoneTurn ==
  ASSUME NEW D \in Auths, NEW P \in Auths, NEW SD, NEW SP \in SUBSET Messages,
         NEW m \in SP, P.state # "DONE", Exchange(D, P, SD, SP)
  PROVE  PhoneFed(feed("phone", P, m), D, SD, SP)
  <1> DEFINE r == feed("phone", P, m)
             b == Adopt(P, m)
  <1>1. PhonePart(P) /\ ToPhone(m, D, P) /\ m \in Messages
    BY DEF Exchange
  <1>2. CASE r = Noop(P)
    <2>1. r.auth = P /\ r.out = <<>> /\ r.complete = FALSE
      BY <1>2 DEF Noop
    <2>2. SD \cup Frames(r.out) = SD
      BY <2>1, FramesOfNone
    <2>3. Exchange(D, r.auth, SD \cup Frames(r.out), SP)
      BY <2>1, <2>2
    <2> QED BY <2>1, <2>3, FramesOfNone DEF PhoneFed
  <1>3. ASSUME m.kind \in AuthKinds
        PROVE  /\ b \in Auths /\ SameEnd(P, b) /\ b.state = P.state /\ b.keys = P.keys
               /\ P.state # "IDLE" => b = P
    BY <1>1, <1>3, AdoptFields
  <1>4. CASE m.kind \in AuthKinds /\ r = Failed(b)
    <2> DEFINE c == fail(b)
    <2>1. b \in Auths /\ SameEnd(P, b) /\ b.keys = P.keys
      BY <1>3, <1>4
    <2> HIDE DEF b
    <2>2. /\ c \in Auths /\ SameEnd(b, c) /\ c.state = "FAILED" /\ c.awaiting_reply = FALSE
          /\ c.keys = b.keys
          /\ r = [auth |-> c, out |-> <<>>, complete |-> FALSE]
      BY <1>4, <2>1, FailFields
    <2> HIDE DEF c, r
    <2>3. r.auth = c /\ r.out = <<>> /\ r.complete = FALSE
      BY <2>2
    <2>4. c.psk = P.psk /\ c.is_active = P.is_active /\ c.keys = P.keys
      BY <2>1, <2>2 DEF SameEnd
    <2>5. PhonePart(c)
      BY <1>1, <2>2, <2>4 DEF PhonePart, Shared
    <2>6. Repeats(c)
      BY <2>2 DEF Repeats
    <2>7. Exchange(D, c, SD, SP)
      BY <2>2, <2>4, <2>5, <2>6, PhoneMoves
    <2>8. SD \cup Frames(r.out) = SD
      BY <2>3, FramesOfNone
    <2>9. Exchange(D, r.auth, SD \cup Frames(r.out), SP)
      BY <2>3, <2>7, <2>8
    <2>10. PhoneFed(r, D, SD, SP)
      BY <2>2, <2>3, <2>9, FramesOfNone DEF PhoneFed
    <2> QED BY <2>10 DEF r
  <1>5. CASE /\ P.state = "IDLE" /\ m.kind = "SYNC_NEGOTIATION"
             /\ r = Sends(b, "SYNC_DEVICE_ID", DeviceId("phone", b))
    <2> DEFINE f == DeviceId("phone", b)
    <2>1. b \in Auths /\ SameEnd(P, b) /\ b.keys = P.keys
      BY <1>3, <1>5 DEF AuthKinds
    <2> HIDE DEF b
    <2>2. f \in Messages /\ f.kind = "SYNC_DEVICE_ID" /\ f.deviceId = "phone"
      BY <2>1, MessagesMade DEF Ends, DeviceId
    <2> HIDE DEF f
    <2>3. r = Sends(b, "SYNC_DEVICE_ID", f)
      BY <1>5 DEF f
    <2> HIDE DEF r
    <2>4. Moved(r, b, "SYNC_DEVICE_ID", f)
      BY <2>1, <2>2, <2>3, SendsFields DEF AuthStates
    <2>5. /\ r.auth \in Auths /\ r.auth.state = "SYNC_DEVICE_ID" /\ r.auth.last = f
          /\ r.auth.psk = P.psk /\ r.auth.is_active = P.is_active /\ r.auth.keys = P.keys
          /\ r.out = <<f>> /\ r.complete = FALSE
      BY <2>1, <2>4 DEF Moved, SameEnd
    <2>6. PhonePart(r.auth)
      BY <1>1, <1>5, <2>5 DEF PhonePart
    <2>7. ToDaemon(f, r.auth) /\ f.kind \in AuthKinds
      BY <2>2 DEF ToDaemon, AuthKinds
    <2>8. Repeats(r.auth)
      BY <2>2, <2>5, <2>7 DEF Repeats
    <2>9. r.out \in Seq(Messages) /\ Frames(r.out) = {f}
      BY <2>2, <2>5, FramesOfOne
    <2>10. \A x \in SD \cup Frames(r.out) : x \in SD \/ ToDaemon(x, r.auth)
      BY <2>7, <2>9
    <2>11. Exchange(D, r.auth, SD \cup Frames(r.out), SP)
      BY <2>5, <2>6, <2>8, <2>10, PhoneMoves
    <2>12. PhoneFed(r, D, SD, SP)
      BY <2>5, <2>7, <2>9, <2>11 DEF PhoneFed
    <2> QED BY <2>12 DEF r
  <1>6. CASE /\ P.state = "SYNC_DEVICE_ID" /\ m.kind = "DEVICE_AUTH"
             /\ r = OnAuthRequest("phone", P, m)
    <2>1. m.deviceId = "daemon" /\ P.keys = NoKeys
      BY <1>1, <1>6 DEF ToPhone, PhonePart
    <2>2. m.nonce \in Ids
      BY <1>1, <1>6, MessageFields
    <2>3. Signed(r, P)
      BY <1>1, <1>6, <2>1, <2>2, SignFields
    <2> HIDE DEF r
    <2>4. /\ r.auth \in Auths /\ r.auth.state = "SYNC_DEVICE_INFO"
          /\ r.auth.psk = P.psk /\ r.auth.is_active = P.is_active /\ r.auth.keys = Shared(P)
          /\ r.auth.last \in Messages /\ r.auth.last.kind = "DEVICE_AUTH"
          /\ r.auth.last.sig[1] = P.psk
          /\ r.out = <<r.auth.last>> /\ r.complete = FALSE
      BY <2>3 DEF Signed, SameEnd
    <2>5. Shared(r.auth) = Shared(P)
      BY <2>4 DEF Shared
    <2>6. PhonePart(r.auth)
      BY <1>1, <2>4, <2>5 DEF PhonePart
    <2>7. ToDaemon(r.auth.last, r.auth) /\ r.auth.last.kind \in AuthKinds
      BY <2>4, <2>5 DEF ToDaemon, AuthKinds
    <2>8. Repeats(r.auth)
      BY <2>4, <2>7 DEF Repeats
    <2>9. r.out \in Seq(Messages) /\ Frames(r.out) = {r.auth.last}
      BY <2>4, FramesOfOne
    <2>10. \A x \in SD \cup Frames(r.out) : x \in SD \/ ToDaemon(x, r.auth)
      BY <2>7, <2>9
    <2>11. Exchange(D, r.auth, SD \cup Frames(r.out), SP)
      BY <2>1, <2>4, <2>6, <2>8, <2>10, PhoneMoves
    <2>12. PhoneFed(r, D, SD, SP)
      BY <2>4, <2>7, <2>9, <2>11 DEF PhoneFed
    <2> QED BY <2>12 DEF r
  <1>7. CASE /\ P.state = "SYNC_DEVICE_INFO" /\ m.kind = "SYNC_DEVICE_INFO"
             /\ r = [auth |-> [enter_state(P, "DONE") EXCEPT !.awaiting_reply = FALSE],
                     out |-> <<>>, complete |-> TRUE]
    <2> DEFINE c == [enter_state(P, "DONE") EXCEPT !.awaiting_reply = FALSE]
    <2>1. /\ c \in Auths /\ SameEnd(P, c) /\ c.state = "DONE" /\ c.awaiting_reply = FALSE
          /\ c.keys = P.keys
      BY PhoneDoneFields
    <2> HIDE DEF c
    <2>2. r.auth = c /\ r.out = <<>> /\ r.complete = TRUE
      <3>1. r = [auth |-> c, out |-> <<>>, complete |-> TRUE]
        BY <1>7 DEF c
      <3> HIDE DEF r
      <3> QED BY <3>1
    <2> HIDE DEF r
    <2>3. c.psk = P.psk /\ c.is_active = P.is_active
      BY <2>1 DEF SameEnd
    <2>4. D.state = "DONE"
      BY <1>1, <1>7 DEF ToPhone
    <2>5. PhonePart(c)
      BY <1>1, <1>7, <2>1, <2>3 DEF PhonePart, Shared
    <2>6. Repeats(c)
      BY <2>1 DEF Repeats
    <2>7. Exchange(D, c, SD, SP)
      BY <2>1, <2>3, <2>4, <2>5, <2>6, PhoneMoves
    <2>8. SD \cup Frames(r.out) = SD
      BY <2>2, FramesOfNone
    <2>9. Exchange(D, r.auth, SD \cup Frames(r.out), SP)
      BY <2>2, <2>7, <2>8
    <2>10. PhoneFed(r, D, SD, SP)
      BY <2>1, <2>2, <2>9, FramesOfNone DEF PhoneFed
    <2> QED BY <2>10 DEF r
  <1> QED BY <1>1, <1>2, <1>4, <1>5, <1>6, <1>7, PassiveFeed

-----------------------------------------------------------------------------
(***************************************************************************)
(* The phases of an exchange in which nobody retries.                      *)
(***************************************************************************)

\* The daemon takes the only frame on its way to it.
LEMMA DaemonPhase ==
  ASSUME NEW D \in Auths, NEW P \in Auths, NEW qd \in Seq(Messages), NEW qp \in Seq(Messages),
         D.is_active, D.state # "DONE", qd # <<>>, Phases(D, P, qd, qp),
         Exchange(D, P, Frames(qd), Frames(qp))
  PROVE  LET r == feed("daemon", D, Head(qd))
         IN Phases(r.auth, P, Tail(qd), qp \o r.out)
  <1> DEFINE m == Head(qd)
             r == feed("daemon", D, m)
  <1>1. /\ Len(qd) = 1 /\ m.kind \in {"SYNC_DEVICE_ID", "DEVICE_AUTH"} /\ m.auth_id = D.auth_id
        /\ qp = <<>> /\ P.auth_id = D.auth_id
        /\ \/ D.state = "SYNC_NEGOTIATION" /\ P.state = "SYNC_DEVICE_ID"
              /\ m.kind = "SYNC_DEVICE_ID"
           \/ D.state = "DEVICE_AUTH" /\ P.state = "SYNC_DEVICE_INFO"
              /\ m.kind = "DEVICE_AUTH"
    BY DEF Phases, Single
  <1>2. m \in Messages /\ DaemonPart(D) /\ ToDaemon(m, P)
    BY FramesOfQueues DEF Exchange
  <1>3. Tail(qd) = <<>>
    BY <1>1, TailOfOne
  <1>4. m.kind \in AuthKinds
    BY <1>1 DEF AuthKinds
  <1>5. ASSUME r.out \in Seq(Messages) PROVE qp \o r.out = r.out
    BY <1>1, <1>5
  <1> HIDE DEF m
  <1>6. CASE D.state = "SYNC_NEGOTIATION" /\ r = OnDeviceId("daemon", D, m)
    <2>1. m.deviceId = "phone" /\ P.state = "SYNC_DEVICE_ID"
      BY <1>1, <1>2, <1>6 DEF ToDaemon
    <2>2. Asked(r, D)
      BY <1>2, <1>6, <2>1, DeviceIdFields
    <2> HIDE DEF r
    <2>3. r.complete = FALSE /\ r.out = <<r.auth.last>> /\ r.auth.last \in Messages
      BY <2>2 DEF Asked
    <2>5. qp \o r.out = <<r.auth.last>>
      BY <1>5, <2>3
    <2>6. Single(<<r.auth.last>>, "DEVICE_AUTH", r.auth.auth_id)
      BY <2>2 DEF Asked, Single
    <2>7. r.auth.state = "DEVICE_AUTH" /\ P.auth_id = r.auth.auth_id
      BY <1>1, <2>2 DEF Asked
    <2>8. Phases(r.auth, P, <<>>, <<r.auth.last>>)
      BY <2>1, <2>6, <2>7 DEF Phases
    <2>9. Phases(r.auth, P, Tail(qd), qp \o r.out)
      BY <1>3, <2>5, <2>8
    <2> QED BY <2>9 DEF r, m
  <1>7. CASE r = Failed(D)
    <2>1. r.auth.state = "FAILED" /\ r.out = <<>> /\ r.complete = FALSE
      <3> DEFINE b == fail(D)
      <3>1. b.state = "FAILED" /\ r = [auth |-> b, out |-> <<>>, complete |-> FALSE]
        BY <1>7, FailFields
      <3> HIDE DEF b, r
      <3> QED BY <3>1
    <2> HIDE DEF r
    <2>3. qp \o r.out = <<>>
      BY <1>1, <2>1
    <2>4. P.state # "DONE"
      BY <1>1
    <2>5. Phases(r.auth, P, <<>>, <<>>)
      BY <2>1, <2>4 DEF Phases
    <2>6. Phases(r.auth, P, Tail(qd), qp \o r.out)
      BY <1>3, <2>3, <2>5
    <2> QED BY <2>6 DEF r, m
  <1>8. CASE /\ D.state = "DEVICE_AUTH"
             /\ m.sig = compute_sig(D.psk, D.nonce, m.nonce, "daemon", D.peer_device_id)
             /\ r = OnAuthResponse("daemon", D, m)
    <2>1. D.peer_device_id = "phone" /\ P.state = "SYNC_DEVICE_INFO"
      BY <1>1, <1>2, <1>8 DEF DaemonPart
    <2>2. Accepted(r, D, m)
      BY <1>2, <1>8, <2>1, AcceptFields
    <2> HIDE DEF r
    <2> DEFINE f == DeviceInfo(r.auth)
    <2>3. /\ r.auth \in Auths /\ r.auth.state = "DONE" /\ r.auth.auth_id = D.auth_id
          /\ r.out = <<f>>
      BY <2>2 DEF Accepted
    <2>4. f \in Messages /\ f.kind = "SYNC_DEVICE_INFO" /\ f.auth_id = D.auth_id
      BY <2>3, MessagesMade DEF Ends, DeviceInfo
    <2> HIDE DEF f
    <2>5. qp \o r.out = <<f>>
      BY <1>5, <2>3, <2>4
    <2>6. <<f>> # <<>> /\ Head(<<f>>) = f
      BY <2>4
    <2>7. Phases(r.auth, P, <<>>, <<f>>)
      BY <1>1, <2>1, <2>3, <2>4, <2>6 DEF Phases
    <2>8. Phases(r.auth, P, Tail(qd), qp \o r.out)
      BY <1>3, <2>5, <2>7
    <2> QED BY <2>8 DEF r, m
  <1> QED BY <1>1, <1>2, <1>4, <1>6, <1>7, <1>8, ActiveFeed DEF m

\* The phone takes the first frame on its way to it.
LEMMA PhonePhase ==
  ASSUME NEW D \in Auths, NEW P \in Auths, NEW qd \in Seq(Messages), NEW qp \in Seq(Messages),
         NEW more \in Seq(Messages),
         P.state # "DONE", qp # <<>>, Phases(D, P, qd, qp),
         Exchange(D, P, Frames(qd), Frames(qp)),
         LET r == feed("phone", P, Head(qp)) IN ~r.complete => more = <<>>
  PROVE  LET r == feed("phone", P, Head(qp))
         IN Phases(D, r.auth, qd \o (r.out \o more), Tail(qp))
  <1> DEFINE m == Head(qp)
             r == feed("phone", P, m)
             b == Adopt(P, m)
  <1>1. /\ m.auth_id = D.auth_id /\ qd = <<>>
        /\ P.state # "IDLE" => P.auth_id = D.auth_id
        /\ \/ /\ D.state = "SYNC_NEGOTIATION" /\ P.state = "IDLE"
              /\ m.kind = "SYNC_NEGOTIATION" /\ Len(qp) = 1
           \/ /\ D.state = "DEVICE_AUTH" /\ P.state = "SYNC_DEVICE_ID"
              /\ m.kind = "DEVICE_AUTH" /\ Len(qp) = 1
           \/ /\ D.state = "DONE" /\ P.state = "SYNC_DEVICE_INFO"
              /\ m.kind = "SYNC_DEVICE_INFO"
    BY DEF Phases, Single
  <1>2. m \in Messages /\ PhonePart(P) /\ ToPhone(m, D, P)
    BY FramesOfQueues DEF Exchange
  <1>3. P.state # "SYNC_DEVICE_INFO" => Tail(qp) = <<>>
    BY <1>1, TailOfOne
  <1>4. m.kind \in AuthKinds
    BY <1>1 DEF AuthKinds
  <1> HIDE DEF m
  <1>5. /\ b \in Auths
        /\ P.state = "IDLE" => b.auth_id = D.auth_id
    <2>1. ~P.is_active
      BY <1>2 DEF PhonePart
    <2> QED BY <1>1, <1>2, <1>4, <2>1, AdoptFields
  <1>6. ASSUME r.out \in Seq(Messages) PROVE qd \o (r.out \o more) = r.out \o more
    BY <1>1, <1>6
  <1>7. CASE P.state = "IDLE" /\ r = Failed(b)
    <2>1. r.auth.state = "FAILED" /\ r.out = <<>> /\ r.complete = FALSE
      <3> DEFINE c == fail(b)
      <3> HIDE DEF b
      <3>1. c.state = "FAILED" /\ r = [auth |-> c, out |-> <<>>, complete |-> FALSE]
        BY <1>5, <1>7, FailFields
      <3> HIDE DEF c, r
      <3> QED BY <3>1
    <2> HIDE DEF r
    <2>2. more = <<>>
      BY <2>1 DEF r, m
    <2>3. qd \o (r.out \o more) = <<>>
      BY <1>1, <2>1, <2>2
    <2>4. Phases(D, r.auth, <<>>, <<>>)
      BY <1>1, <1>7, <2>1 DEF Phases
    <2>5. Phases(D, r.auth, qd \o (r.out \o more), Tail(qp))
      BY <1>3, <1>7, <2>3, <2>4
    <2> QED BY <2>5 DEF r, m
  <1>8. CASE P.state = "IDLE" /\ r = Sends(b, "SYNC_DEVICE_ID", DeviceId("phone", b))
    <2> DEFINE f == DeviceId("phone", b)
    <2> HIDE DEF b
    <2>1. f \in Messages /\ f.kind = "SYNC_DEVICE_ID" /\ f.auth_id = b.auth_id
      BY <1>5, MessagesMade DEF Ends, DeviceId
    <2> HIDE DEF f
    <2>2. r = Sends(b, "SYNC_DEVICE_ID", f)
      BY <1>8 DEF f
    <2> HIDE DEF r
    <2>3. Moved(r, b, "SYNC_DEVICE_ID", f)
      BY <1>5, <2>1, <2>2, SendsFields DEF AuthStates
    <2>4. /\ r.auth.state = "SYNC_DEVICE_ID" /\ r.auth.auth_id = D.auth_id
          /\ r.out = <<f>> /\ r.complete = FALSE
      BY <1>5, <1>8, <2>3 DEF Moved
    <2>5. more = <<>>
      BY <2>4 DEF r, m
    <2>6. qd \o (r.out \o more) = <<f>>
      BY <1>6, <2>1, <2>4, <2>5
    <2>7. Single(<<f>>, "SYNC_DEVICE_ID", D.auth_id)
      BY <1>5, <1>8, <2>1 DEF Single
    <2>8. Phases(D, r.auth, <<f>>, <<>>)
      BY <1>1, <1>8, <2>4, <2>7 DEF Phases
    <2>9. Phases(D, r.auth, qd \o (r.out \o more), Tail(qp))
      BY <1>3, <1>8, <2>6, <2>8
    <2> QED BY <2>9 DEF r, m
  <1>9. CASE P.state = "SYNC_DEVICE_ID" /\ r = OnAuthRequest("phone", P, m)
    <2>1. m.deviceId = "daemon" /\ m.kind = "DEVICE_AUTH"
      BY <1>1, <1>2, <1>9 DEF ToPhone, PhonePart
    <2>2. m.nonce \in Ids
      BY <1>2, <2>1, MessageFields
    <2>3. Signed(r, P)
      BY <1>2, <1>9, <2>1, <2>2, SignFields
    <2> HIDE DEF r
    <2>4. /\ r.auth.state = "SYNC_DEVICE_INFO" /\ r.auth.auth_id = D.auth_id
          /\ r.auth.last \in Messages /\ r.out = <<r.auth.last>> /\ r.complete = FALSE
          /\ Single(<<r.auth.last>>, "DEVICE_AUTH", D.auth_id)
      BY <1>1, <1>9, <2>3 DEF Signed, Single
    <2>5. more = <<>>
      BY <2>4 DEF r, m
    <2>6. qd \o (r.out \o more) = <<r.auth.last>>
      BY <1>6, <2>4, <2>5
    <2>7. Phases(D, r.auth, <<r.auth.last>>, <<>>)
      BY <1>1, <1>9, <2>4 DEF Phases
    <2>8. Phases(D, r.auth, qd \o (r.out \o more), Tail(qp))
      BY <1>3, <1>9, <2>6, <2>7
    <2> QED BY <2>8 DEF r, m
  <1>10. CASE /\ P.state = "SYNC_DEVICE_INFO"
              /\ r = [auth |-> [enter_state(P, "DONE") EXCEPT !.awaiting_reply = FALSE],
                      out |-> <<>>, complete |-> TRUE]
    <2>1. r.auth.state = "DONE"
      <3> DEFINE c == [enter_state(P, "DONE") EXCEPT !.awaiting_reply = FALSE]
      <3>1. c.state = "DONE"
        BY PhoneDoneFields
      <3> HIDE DEF c
      <3>2. r = [auth |-> c, out |-> <<>>, complete |-> TRUE]
        BY <1>10 DEF c
      <3> HIDE DEF r
      <3> QED BY <3>1, <3>2
    <2> HIDE DEF r
    <2>2. Phases(D, r.auth, qd \o (r.out \o more), Tail(qp))
      BY <1>1, <1>10, <2>1 DEF Phases
    <2> QED BY <2>2 DEF r, m
  <1> QED BY <1>1, <1>2, <1>4, <1>7, <1>8, <1>9, <1>10, PassiveFeed DEF m

-----------------------------------------------------------------------------
(***************************************************************************)
(* The control client.                                                     *)
(***************************************************************************)

\* What a client waits for.
Waits(c) ==
  /\ c.state = "WAIT_SETUP_REPLY" => c.pending_cseq = 0
  /\ c.state = "WAIT_PLAY_REPLY" => c.pending_cseq = 1

\* The client just made.
LEMMA NewClient ==
  dmsdp_client_new \in Clients /\ Waits(dmsdp_client_new) /\ dmsdp_client_new.state = "INIT"
  BY DEF dmsdp_client_new, Clients, Waits

\* A client in the answer to a call.
LEMMA AnswerFields ==
  ASSUME NEW c, NEW r, r = Accepts(c) \/ r = Rejects(c)
  PROVE  r.client = c /\ r.accepted \in BOOLEAN
  <1>1. CASE r = Accepts(c)
    <2>1. r.client = c /\ r.accepted = TRUE
      BY <1>1 DEF Accepts
    <2> QED BY <2>1
  <1>2. CASE r = Rejects(c)
    <2>1. r.client = c /\ r.accepted = FALSE
      BY <1>2 DEF Rejects
    <2> QED BY <2>1
  <1> QED BY <1>1, <1>2

\* The clients that calls make.
LEMMA ClientFields ==
  ASSUME NEW c \in Clients, Waits(c)
  PROVE  /\ \A x \in {"SEND_PLAY", "READY", "ERROR"} :
              /\ [c EXCEPT !.state = x] \in Clients /\ Waits([c EXCEPT !.state = x])
              /\ [c EXCEPT !.state = x].state = x
         /\ \A w \in {[state |-> "WAIT_SETUP_REPLY", pending_cseq |-> 0],
                     [state |-> "WAIT_PLAY_REPLY", pending_cseq |-> 1]} :
              w \in Clients /\ Waits(w) /\ w.state # "READY"
  BY DEF Clients, Waits

\* dmsdp_client_send never makes the client ready.
LEMMA SendFields ==
  ASSUME NEW c \in Clients, NEW m, Waits(c)
  PROVE  LET r == client_send(c, m)
         IN /\ r.client \in Clients /\ Waits(r.client) /\ r.accepted \in BOOLEAN
            /\ r.client.state = "READY" => c.state = "READY"
  <1> DEFINE r == client_send(c, m)
  <1>1. PICK d : /\ r = Accepts(d) \/ r = Rejects(d)
                 /\ \/ d \in {[state |-> "WAIT_SETUP_REPLY", pending_cseq |-> 0],
                             [state |-> "WAIT_PLAY_REPLY", pending_cseq |-> 1]}
                    \/ d = [c EXCEPT !.state = "ERROR"]
                    \/ d = c
    BY DEF client_send
  <1>2. d \in Clients /\ Waits(d) /\ (d.state = "READY" => c.state = "READY")
    <2>1. CASE d \in {[state |-> "WAIT_SETUP_REPLY", pending_cseq |-> 0],
                      [state |-> "WAIT_PLAY_REPLY", pending_cseq |-> 1]}
      BY <2>1, ClientFields
    <2>2. CASE d = [c EXCEPT !.state = "ERROR"]
      BY <2>2, ClientFields
    <2>3. CASE d = c
      BY <2>3
    <2> QED BY <1>1, <2>1, <2>2, <2>3
  <1> HIDE DEF r
  <1>3. r.client = d /\ r.accepted \in BOOLEAN
    BY <1>1, AnswerFields
  <1>4. /\ r.client \in Clients /\ Waits(r.client) /\ r.accepted \in BOOLEAN
        /\ r.client.state = "READY" => c.state = "READY"
    BY <1>2, <1>3
  <1> QED BY <1>4 DEF r

\* dmsdp_client_recv makes it ready on the answer to the PLAY only.
LEMMA RecvFields ==
  ASSUME NEW c \in Clients, NEW m, Waits(c)
  PROVE  LET r == client_recv(c, m)
         IN /\ r.client \in Clients /\ Waits(r.client) /\ r.accepted \in BOOLEAN
            /\ r.client.state = "READY" => c.state = "READY" \/ m = Dmsdp("RESPONSE", 1)
  <1> DEFINE r == client_recv(c, m)
  <1>1. PICK d : /\ r = Accepts(d) \/ r = Rejects(d)
                 /\ \/ d = c /\ c.state = "READY"
                    \/ d = [c EXCEPT !.state = "SEND_PLAY"]
                    \/ d = [c EXCEPT !.state = "READY"] /\ m = Dmsdp("RESPONSE", 1)
                    \/ d = [c EXCEPT !.state = "ERROR"]
    BY DEF client_recv, Waits
  <1>2. /\ d \in Clients /\ Waits(d)
        /\ d.state = "READY" => c.state = "READY" \/ m = Dmsdp("RESPONSE", 1)
    BY <1>1, ClientFields
  <1> HIDE DEF r
  <1>3. r.client = d /\ r.accepted \in BOOLEAN
    BY <1>1, AnswerFields
  <1>4. /\ r.client \in Clients /\ Waits(r.client) /\ r.accepted \in BOOLEAN
        /\ r.client.state = "READY" => c.state = "READY" \/ m = Dmsdp("RESPONSE", 1)
    BY <1>2, <1>3
  <1> QED BY <1>4 DEF r

-----------------------------------------------------------------------------
(***************************************************************************)
(* Steps of the system.                                                    *)
(***************************************************************************)

\* A step of session s leaves the other sessions alone.
Only(s) ==
  /\ env' = env
  /\ \A t \in Sessions \ {s} :
       /\ auth'[t] = auth[t] /\ ch'[t] = ch[t] /\ link'[t] = link[t]
       /\ server'[t] = server[t] /\ pump'[t] = pump[t]

\* What holds of the other sessions goes on to hold.
LEMMA Others ==
  ASSUME NEW s \in Sessions, Only(s), \A t \in Sessions : SessionInv(t) /\ Handles(t),
         SessionInv(s)', Handles(s)'
  PROVE  \A t \in Sessions : SessionInv(t)' /\ Handles(t)'
  <1> SUFFICES ASSUME NEW t \in Sessions, t # s PROVE SessionInv(t)' /\ Handles(t)'
    OBVIOUS
  <1>1. auth'[t] = auth[t] /\ ch'[t] = ch[t] /\ link'[t] = link[t] /\ server'[t] = server[t]
        /\ env' = env /\ pump'[t] = pump[t]
    BY DEF Only
  <1>2. SessionInv(t) /\ Handles(t)
    OBVIOUS
  <1>3. SessionInv(t)'
    BY <1>1, <1>2 DEF SessionInv, Answered
  <1> QED BY <1>1, <1>2, <1>3 DEF Handles

\* A handler in the middle of its calls is not disturbed.
LEMMA HandlesKept ==
  ASSUME NEW s \in Sessions, Handles(s), pump' = pump, link[s] # "none" => link'[s] # "none",
         auth[s]["daemon"].state = "DONE" => auth'[s]["daemon"].state = "DONE",
         server[s].state = "READY" => server'[s].state = "READY"
  PROVE  Handles(s)'
  BY DEF Handles

\* dmsdp_cl keeps to the only session there is: what a step of session s may
\* do to it and to the phone.
LEMMA ClientStep ==
  ASSUME NEW s \in Sessions, Only(s), ClientInv, Waits(client'), link'[s] # "none",
         server[s].state = "READY" => server'[s].state = "READY",
         client'.state = "READY" => client.state = "READY" \/ server'[s].state = "READY",
         InputSent(s)' => InputSent(s) \/ client'.state = "READY"
  PROVE  ClientInv'
  <1>1. ASSUME NEW t \in Sessions, Alone(t)'
        PROVE  t = s /\ Alone(s)
    BY <1>1 DEF Alone, Only
  <1>2. Alone(s) /\ (client.state = "READY" \/ InputSent(s)) => server[s].state = "READY"
    BY DEF ClientInv
  <1>3. ASSUME NEW t \in Sessions, Alone(t)', client'.state = "READY" \/ InputSent(t)'
        PROVE  server'[t].state = "READY"
    <2>1. t = s /\ Alone(s)
      BY <1>1, <1>3
    <2>2. InputSent(t)' => InputSent(s)'
      BY <2>1
    <2> QED BY <1>2, <1>3, <2>1, <2>2
  <1> QED BY <1>3 DEF ClientInv, Waits

\* A frame is taken off the queue of end e, and out is sent.
LEMMA HandledQueues ==
  ASSUME TypeInv, NEW s \in Sessions, NEW e \in Ends, NEW out \in Seq(Messages),
         ch[s][e] # <<>>, Handled(s, e, out)
  PROVE  /\ ch' \in [Sessions -> [Ends -> Seq(Messages)]]
         /\ ch'[s][e] = Tail(ch[s][e])
         /\ ch'[s][Other(e)] = IF link[s] = "open" THEN ch[s][Other(e)] \o out
                               ELSE ch[s][Other(e)]
         /\ \A t \in Sessions \ {s} : ch'[t] = ch[t]
  <1>1. Other(e) \in Ends /\ Other(e) # e /\ \A e1 \in Ends : e1 = e \/ e1 = Other(e)
    BY DEF Other, Ends
  <1>2. ch \in [Sessions -> [Ends -> Seq(Messages)]]
    BY DEF TypeInv
  <1>3. ch' = [ch EXCEPT ![s] = [e1 \in Ends |-> IF e1 = e THEN Tail(ch[s][e])
                                                 ELSE Carries(s, e, ch[s], out)]]
    BY <1>2 DEF Handled
  <1>4. Tail(ch[s][e]) \in Seq(Messages)
    BY <1>2, FramesOfQueues
  <1>5. ch[s][Other(e)] \in Seq(Messages)
    BY <1>1, <1>2
  <1>6. ch[s][Other(e)] \o out \in Seq(Messages)
    BY <1>5
  <1>7. Carries(s, e, ch[s], out) \in Seq(Messages)
    BY <1>5, <1>6 DEF Carries
  <1>8. [e1 \in Ends |-> IF e1 = e THEN Tail(ch[s][e]) ELSE Carries(s, e, ch[s], out)]
          \in [Ends -> Seq(Messages)]
    BY <1>4, <1>7
  <1>9. ch' \in [Sessions -> [Ends -> Seq(Messages)]]
    BY <1>2, <1>3, <1>8
  <1>10. ch'[s] = [e1 \in Ends |-> IF e1 = e THEN Tail(ch[s][e]) ELSE Carries(s, e, ch[s], out)]
    BY <1>2, <1>3
  <1>11. ch'[s][e] = Tail(ch[s][e]) /\ ch'[s][Other(e)] = Carries(s, e, ch[s], out)
    BY <1>1, <1>10
  <1>12. \A t \in Sessions \ {s} : ch'[t] = ch[t]
    BY <1>2, <1>3
  <1> QED BY <1>9, <1>11, <1>12 DEF Carries

\* The two contexts and the two queues of a session.
LEMMA Here ==
  ASSUME TypeInv, NEW s \in Sessions
  PROVE  /\ auth[s]["daemon"] \in Auths /\ auth[s]["phone"] \in Auths
         /\ ch[s]["daemon"] \in Seq(Messages) /\ ch[s]["phone"] \in Seq(Messages)
         /\ Frames(ch[s]["daemon"]) \in SUBSET Messages
         /\ Frames(ch[s]["phone"]) \in SUBSET Messages
  <1>1. /\ auth[s]["daemon"] \in Auths /\ auth[s]["phone"] \in Auths
        /\ ch[s]["daemon"] \in Seq(Messages) /\ ch[s]["phone"] \in Seq(Messages)
    BY DEF TypeInv, Ends
  <1> QED BY <1>1, FramesOfQueues

\* One context is replaced.
LEMMA AuthReplaced ==
  ASSUME TypeInv, NEW s \in Sessions, NEW e \in Ends, NEW a \in Auths,
         auth' = [auth EXCEPT ![s][e] = a]
  PROVE  /\ auth' \in [Sessions -> [Ends -> Auths]]
         /\ auth'[s][e] = a /\ auth'[s][Other(e)] = auth[s][Other(e)]
         /\ \A t \in Sessions \ {s} : auth'[t] = auth[t]
  <1>1. Other(e) \in Ends /\ Other(e) # e
    BY DEF Other, Ends
  <1> QED BY <1>1 DEF TypeInv

\* The parts of a session's invariant after a step, from the values they are
\* about.
LEMMA SessionNow ==
  ASSUME NEW s \in Sessions, NEW D, NEW P, NEW qd, NEW qp,
         auth'[s]["daemon"] = D, auth'[s]["phone"] = P,
         ch'[s]["daemon"] = qd, ch'[s]["phone"] = qp,
         Exchange(D, P, Frames(qd), Frames(qp)),
         link'[s] # "none", D.is_active,
         env.retries = {} /\ link'[s] = "open" => Phases(D, P, qd, qp),
         env' = env,
         \A m \in Frames(qd) : m = Dmsdp("RESPONSE", 1) => server'[s].state = "READY"
  PROVE  SessionInv(s)'
  BY DEF SessionInv, Answered

\* SessionAuth keeps the invariant.
LEMMA SessionAuthStep ==
  ASSUME ControlInv, NEW s \in Sessions, SessionAuth(s)
  PROVE  ControlInv'
  <1> DEFINE D == auth[s]["daemon"]
             P == auth[s]["phone"]
             qd == ch[s]["daemon"]
             qp == ch[s]["phone"]
             m == Head(qd)
             r == feed("daemon", D, m)
  <1>1. TypeInv /\ SessionInv(s) /\ ClientInv /\ Handles(s)
    BY DEF ControlInv
  <1>2. /\ D \in Auths /\ P \in Auths /\ qd \in Seq(Messages) /\ qp \in Seq(Messages)
        /\ Frames(qd) \in SUBSET Messages /\ Frames(qp) \in SUBSET Messages
    BY <1>1, Here
  <1>3. /\ link[s] \in {"open", "closed"} /\ qd # <<>> /\ D.state # "DONE"
        /\ auth' = [auth EXCEPT ![s]["daemon"] = r.auth]
        /\ Handled(s, "daemon", r.out)
        /\ \/ r.complete /\ client' = dmsdp_client_new
              /\ pump' = [pump EXCEPT ![s].at = "setup"]
           \/ client' = client /\ pump' = pump
        /\ env' = env /\ link' = link /\ server' = server
        /\ dmsdp_ready' = dmsdp_ready /\ dmsdp_failed' = dmsdp_failed
    BY DEF SessionAuth, Reads, HasFrame, Goes
  <1>4. D.is_active /\ Exchange(D, P, Frames(qd), Frames(qp))
        /\ (env.retries = {} /\ link[s] = "open" => Phases(D, P, qd, qp))
    BY <1>1, <1>3 DEF SessionInv
  <1>5. m \in Frames(qd) /\ Tail(qd) \in Seq(Messages) /\ Frames(Tail(qd)) \subseteq Frames(qd)
    BY <1>2, <1>3, FramesOfQueues
  <1>6. DaemonFed(r, P, Frames(qd), Frames(qp))
    <2> HIDE DEF D, P, qd, qp, m
    <2> QED BY <1>2, <1>3, <1>4, <1>5, DaemonTurn
  <1>7. env.retries = {} /\ link[s] = "open" =>
          Phases(r.auth, P, Tail(qd), qp \o r.out)
    <2> HIDE DEF D, P, qd, qp
    <2> QED BY <1>2, <1>3, <1>4, DaemonPhase DEF m
  <1> HIDE DEF r
  <1>8. /\ r.auth \in Auths /\ r.auth.is_active /\ r.out \in Seq(Messages)
        /\ \A f \in Frames(r.out) : f.kind \in AuthKinds
        /\ r.complete = (r.auth.state = "DONE")
        /\ Exchange(r.auth, P, Frames(qd), Frames(qp) \cup Frames(r.out))
    BY <1>6 DEF DaemonFed
  <1>12. client' \in Clients /\ Waits(client') /\ (client'.state = "READY" => client.state = "READY")
    <2>1. client \in Clients /\ Waits(client)
      BY <1>1 DEF TypeInv, ClientInv, Waits
    <2> QED BY <1>3, <2>1, NewClient
  <1> DEFINE qd2 == ch'[s]["daemon"]
             qp2 == ch'[s]["phone"]
  <1>14. /\ ch' \in [Sessions -> [Ends -> Seq(Messages)]]
         /\ qd2 = Tail(qd) /\ qp2 = IF link[s] = "open" THEN qp \o r.out ELSE qp
         /\ \A t \in Sessions \ {s} : ch'[t] = ch[t]
    BY <1>1, <1>3, <1>8, HandledQueues DEF Other, Ends
  <1>15. /\ auth' \in [Sessions -> [Ends -> Auths]]
         /\ auth'[s]["daemon"] = r.auth /\ auth'[s]["phone"] = P
         /\ \A t \in Sessions \ {s} : auth'[t] = auth[t]
    BY <1>1, <1>3, <1>8, AuthReplaced DEF Other, Ends
  <1>16. Frames(qp2) \subseteq Frames(qp) \cup Frames(r.out)
    <2>1. CASE link[s] = "open"
      <3>1. Frames(qp \o r.out) = Frames(qp) \cup Frames(r.out)
        <4> HIDE DEF qp
        <4> QED BY <1>2, <1>8, FramesOfQueues
      <3> QED BY <1>14, <2>1, <3>1
    <2>2. CASE link[s] # "open"
      BY <1>14, <2>2
    <2> QED BY <2>1, <2>2
  <1>17. /\ \A f \in Frames(qd2) : f \in Frames(qd)
         /\ \A f \in Frames(qp2) : f \in Frames(qp) \cup Frames(r.out)
    BY <1>5, <1>14, <1>16
  <1> HIDE DEF D, P, qd, qp, m, qd2, qp2
  <1>18. Exchange(r.auth, P, Frames(qd2), Frames(qp2))
    BY <1>8, <1>17, ExchangeFrames
  <1>19. env.retries = {} /\ link'[s] = "open" => Phases(r.auth, P, qd2, qp2)
    BY <1>3, <1>7, <1>14
  <1>20. \A f \in Frames(qd2) : f = Dmsdp("RESPONSE", 1) => server'[s].state = "READY"
    BY <1>1, <1>3, <1>5, <1>14 DEF SessionInv, Answered, qd
  <1>21. SessionInv(s)'
    BY <1>3, <1>8, <1>15, <1>18, <1>19, <1>20, SessionNow DEF qd2, qp2
  <1>22. pump' \in [Sessions -> Pumps] /\ Only(s) /\ Handles(s)'
    <2>1. pump \in [Sessions -> Pumps]
      BY <1>1 DEF TypeInv
    <2>2. /\ pump' \in [Sessions -> Pumps] /\ pump'[s].m = pump[s].m
          /\ \A t \in Sessions \ {s} : pump'[t] = pump[t]
          /\ \/ pump'[s].at = pump[s].at
             \/ r.complete /\ pump'[s].at = "setup"
      BY <1>3, <2>1 DEF Pumps
    <2>3. Only(s)
      BY <1>3, <1>14, <1>15, <2>2 DEF Only
    <2>4. Handles(s)'
      BY <1>1, <1>3, <1>8, <1>15, <2>2 DEF Handles, D
    <2> QED BY <2>2, <2>3, <2>4
  <1>23. InputSent(s)' => InputSent(s)
    <2>1. Input \in Frames(qp2) => Input \in Frames(qp)
      BY <1>8, <1>16 DEF Input, AuthKinds
    <2> QED BY <1>3, <2>1 DEF InputSent, Frames, qp, qp2
  <1>24. ClientInv'
    BY <1>1, <1>3, <1>12, <1>22, <1>23, ClientStep
  <1>25. TypeInv'
    BY <1>1, <1>3, <1>12, <1>14, <1>15, <1>22 DEF TypeInv
  <1>26. \A t \in Sessions : SessionInv(t)' /\ Handles(t)'
    BY <1>21, <1>22, Others DEF ControlInv
  <1> QED BY <1>24, <1>25, <1>26 DEF ControlInv

\* PhoneAuth keeps the invariant.
LEMMA PhoneAuthStep ==
  ASSUME ControlInv, NEW s \in Sessions, PhoneAuth(s)
  PROVE  ControlInv'
  <1> DEFINE D == auth[s]["daemon"]
             P == auth[s]["phone"]
             qd == ch[s]["daemon"]
             qp == ch[s]["phone"]
             m == Head(qp)
             r == feed("phone", P, m)
             more == IF r.complete THEN <<Ping>> ELSE <<>>
  <1>1. TypeInv /\ SessionInv(s) /\ ClientInv /\ Handles(s)
    BY DEF ControlInv
  <1>2. /\ D \in Auths /\ P \in Auths /\ qd \in Seq(Messages) /\ qp \in Seq(Messages)
        /\ Frames(qd) \in SUBSET Messages /\ Frames(qp) \in SUBSET Messages
    BY <1>1, Here
  <1>3. /\ link[s] = "open" /\ qp # <<>> /\ P.state # "DONE"
        /\ auth' = [auth EXCEPT ![s]["phone"] = r.auth]
        /\ Handled(s, "phone", r.out \o more)
        /\ env' = env /\ link' = link /\ server' = server /\ client' = client
        /\ dmsdp_ready' = dmsdp_ready /\ dmsdp_failed' = dmsdp_failed /\ pump' = pump
    BY DEF PhoneAuth, HasFrame
  <1>4. D.is_active /\ Exchange(D, P, Frames(qd), Frames(qp))
        /\ (env.retries = {} => Phases(D, P, qd, qp))
    BY <1>1, <1>3 DEF SessionInv
  <1>5. m \in Frames(qp) /\ Tail(qp) \in Seq(Messages) /\ Frames(Tail(qp)) \subseteq Frames(qp)
    BY <1>2, <1>3, FramesOfQueues
  <1>6. Ping \in Messages /\ Ping.kind = "PING"
    BY DEF Messages, Ping
  <1>7. PhoneFed(r, D, Frames(qd), Frames(qp))
    <2> HIDE DEF D, P, qd, qp, m
    <2> QED BY <1>2, <1>3, <1>4, <1>5, PhoneTurn
  <1>8. env.retries = {} => Phases(D, r.auth, qd \o (r.out \o more), Tail(qp))
    <2>1. more \in Seq(Messages) /\ (~r.complete => more = <<>>)
      BY <1>6, FramesOfOne, FramesOfNone
    <2> HIDE DEF D, P, qd, qp, more
    <2> QED BY <1>2, <1>3, <1>4, <2>1, PhonePhase DEF m
  <1> HIDE DEF r
  <1>9. /\ r.auth \in Auths /\ r.out \in Seq(Messages)
        /\ \A f \in Frames(r.out) : f.kind \in AuthKinds
        /\ r.complete = (r.auth.state = "DONE")
        /\ Exchange(D, r.auth, Frames(qd) \cup Frames(r.out), Frames(qp))
    BY <1>7 DEF PhoneFed
  <1>10. /\ more \in Seq(Messages)
         /\ \A f \in Frames(more) : f.kind = "PING" /\ r.auth.state = "DONE"
    <2>1. CASE r.complete
      BY <1>6, <1>9, <2>1, FramesOfOne
    <2>2. CASE ~r.complete
      BY <2>2, FramesOfNone
    <2> QED BY <2>1, <2>2
  <1> DEFINE out == r.out \o more
             qd2 == ch'[s]["daemon"]
             qp2 == ch'[s]["phone"]
  <1>11. out \in Seq(Messages) /\ Frames(out) = Frames(r.out) \cup Frames(more)
    <2> HIDE DEF more
    <2> QED BY <1>9, <1>10, FramesOfQueues
  <1>12. /\ ch' \in [Sessions -> [Ends -> Seq(Messages)]]
         /\ qp2 = Tail(qp) /\ qd2 = qd \o out
         /\ \A t \in Sessions \ {s} : ch'[t] = ch[t]
    <2>1. Handled(s, "phone", out)
      BY <1>3
    <2> HIDE DEF out
    <2> QED BY <1>1, <1>3, <1>11, <2>1, HandledQueues DEF Other, Ends
  <1>13. /\ auth' \in [Sessions -> [Ends -> Auths]]
         /\ auth'[s]["phone"] = r.auth /\ auth'[s]["daemon"] = D
         /\ \A t \in Sessions \ {s} : auth'[t] = auth[t]
    BY <1>1, <1>3, <1>9, AuthReplaced DEF Other, Ends
  <1>14. \A f \in Frames(qd2) :
           \/ f \in Frames(qd) \cup Frames(r.out)
           \/ f.kind = "PING" /\ r.auth.state = "DONE"
    <2>1. Frames(qd \o out) = Frames(qd) \cup Frames(out)
      <3> HIDE DEF out, qd
      <3> QED BY <1>2, <1>11, FramesOfQueues
    <2> QED BY <1>10, <1>11, <1>12, <2>1
  <1>15. \A f \in Frames(qd2) : f \in Frames(qd) \cup Frames(r.out) \/ ToDaemon(f, r.auth)
    BY <1>14 DEF ToDaemon
  <1> HIDE DEF D, P, qd, qp, m, more, out, qd2, qp2
  <1>16. Exchange(D, r.auth, Frames(qd2), Frames(qp2))
    BY <1>5, <1>9, <1>12, <1>15, ExchangeFrames
  <1>17. env.retries = {} /\ link'[s] = "open" => Phases(D, r.auth, qd2, qp2)
    BY <1>3, <1>8, <1>12 DEF out
  <1>18. \A f \in Frames(qd2) : f = Dmsdp("RESPONSE", 1) => server'[s].state = "READY"
    <2>1. \A f \in Frames(qd) : f = Dmsdp("RESPONSE", 1) => server'[s].state = "READY"
      BY <1>1, <1>3 DEF SessionInv, Answered, qd
    <2>2. ASSUME NEW f \in Frames(qd2), f = Dmsdp("RESPONSE", 1) PROVE f \in Frames(qd)
      <3>1. f.kind = "RESPONSE"
        BY <2>2 DEF Dmsdp
      <3> QED BY <1>9, <1>14, <3>1 DEF AuthKinds
    <2> QED BY <2>1, <2>2
  <1>19. SessionInv(s)'
    BY <1>3, <1>4, <1>13, <1>16, <1>17, <1>18, SessionNow DEF qd2, qp2
  <1>20. Only(s)
    BY <1>3, <1>12, <1>13 DEF Only
  <1>21. InputSent(s)' => InputSent(s)
    <2>1. Input \in Frames(qp2) => Input \in Frames(qp)
      BY <1>5, <1>12
    <2> QED BY <1>3, <2>1 DEF InputSent, Frames, qp, qp2
  <1>22. ClientInv'
    <2>1. Waits(client')
      BY <1>1, <1>3 DEF ClientInv, Waits
    <2> QED BY <1>1, <1>3, <1>20, <1>21, <2>1, ClientStep
  <1>23. TypeInv'
    BY <1>1, <1>3, <1>12, <1>13 DEF TypeInv
  <1>24. \A t \in Sessions : SessionInv(t)' /\ Handles(t)'
    <2>1. Handles(s)'
      BY <1>1, <1>3, <1>13, HandlesKept DEF D
    <2> QED BY <1>19, <1>20, <2>1, Others DEF ControlInv
  <1> QED BY <1>22, <1>23, <1>24 DEF ControlInv

\* A step of an authenticated session: what it may put on the queues, and
\* what it may do to the client and to the phone.
LEMMA DoneStep ==
  ASSUME ControlInv, NEW s \in Sessions, link[s] # "none",
         auth[s]["daemon"].state = "DONE",
         \/ auth[s]["phone"].state = "DONE" \/ ch[s]["daemon"] # <<>>
         \/ /\ ch'[s]["daemon"] = ch[s]["daemon"]
            /\ ch[s]["phone"] # <<>> =>
                 ch'[s]["phone"] # <<>> /\ Head(ch'[s]["phone"]) = Head(ch[s]["phone"]),
         env' = env, auth' = auth, link' = link,
         ch' \in [Sessions -> [Ends -> Seq(Messages)]],
         server' \in [Sessions -> Servers],
         pump' \in [Sessions -> Pumps],
         \A t \in Sessions \ {s} :
           ch'[t] = ch[t] /\ server'[t] = server[t] /\ pump'[t] = pump[t],
         pump'[s].at = "recv" => pump'[s].m \in Messages,
         pump'[s].m = Dmsdp("RESPONSE", 1) => server'[s].state = "READY",
         \A f \in Frames(ch'[s]["daemon"]) :
           \/ f \in Frames(ch[s]["daemon"])
           \/ auth[s]["phone"].state = "DONE" /\ f.kind \in {"RESPONSE", "TEARDOWN"},
         \A f \in Frames(ch'[s]["phone"]) :
           \/ f \in Frames(ch[s]["daemon"]) \cup Frames(ch[s]["phone"])
           \/ f.kind \in {"SETUP", "PLAY", "INPUT"},
         \A f \in Frames(ch'[s]["daemon"]) :
           f = Dmsdp("RESPONSE", 1) => server'[s].state = "READY",
         client' \in Clients, Waits(client'),
         dmsdp_ready' \in BOOLEAN, dmsdp_failed' \in BOOLEAN,
         server[s].state = "READY" => server'[s].state = "READY",
         client'.state = "READY" => client.state = "READY" \/ server'[s].state = "READY",
         InputSent(s)' => InputSent(s) \/ client'.state = "READY"
  PROVE  ControlInv'
  <1> DEFINE D == auth[s]["daemon"]
             P == auth[s]["phone"]
             SD == Frames(ch[s]["daemon"])
             SP == Frames(ch[s]["phone"])
             TD == Frames(ch'[s]["daemon"])
             TP == Frames(ch'[s]["phone"])
  <1>1. TypeInv /\ SessionInv(s) /\ ClientInv /\ Handles(s)
    BY DEF ControlInv
  <1>2. Exchange(D, P, SD, SP) /\ D.is_active
    BY <1>1 DEF SessionInv
  <1>3. P.keys # NoKeys
    <2> HIDE DEF D, P, SD, SP
    <2>1. P.keys = Shared(P)
      BY <1>2 DEF Exchange, D
    <2> QED BY <2>1 DEF Shared, derive_keys, NoKeys
  <1>4. \A f \in TD : f \in SD \/ ToDaemon(f, P)
    BY DEF ToDaemon
  <1>5. \A f \in TP : ToPhone(f, D, P)
    BY <1>3 DEF ToPhone
  <1>6. Exchange(D, P, TD, TP)
    <2> HIDE DEF D, P, SD, SP, TD, TP
    <2> QED BY <1>2, <1>4, <1>5, ExchangeFrames
  <1>7. env.retries = {} /\ link'[s] = "open" =>
          Phases(D, P, ch'[s]["daemon"], ch'[s]["phone"])
    <2> SUFFICES ASSUME env.retries = {}, link[s] = "open"
                 PROVE  Phases(D, P, ch'[s]["daemon"], ch'[s]["phone"])
      OBVIOUS
    <2>1. Phases(D, P, ch[s]["daemon"], ch[s]["phone"])
      BY <1>1 DEF SessionInv
    <2>2. CASE P.state = "DONE"
      BY <2>2 DEF Phases
    <2>3. CASE P.state # "DONE"
      <3>1. /\ P.state = "SYNC_DEVICE_INFO" /\ P.auth_id = D.auth_id
            /\ ch[s]["daemon"] = <<>> /\ ch[s]["phone"] # <<>>
            /\ Head(ch[s]["phone"]).kind = "SYNC_DEVICE_INFO"
            /\ Head(ch[s]["phone"]).auth_id = P.auth_id
        BY <2>1, <2>3 DEF Phases
      <3>2. /\ ch'[s]["daemon"] = <<>> /\ ch'[s]["phone"] # <<>>
            /\ Head(ch'[s]["phone"]) = Head(ch[s]["phone"])
        BY <2>3, <3>1
      <3> QED BY <3>1, <3>2 DEF Phases
    <2> QED BY <2>2, <2>3
  <1>8. SessionInv(s)'
    <2>1. auth'[s]["daemon"] = D /\ auth'[s]["phone"] = P /\ link'[s] # "none"
      OBVIOUS
    <2> HIDE DEF D, P
    <2> QED BY <1>2, <1>6, <1>7, <2>1, SessionNow
  <1>9. Only(s)
    BY DEF Only
  <1>10. ClientInv'
    <2>1. link'[s] # "none"
      OBVIOUS
    <2> QED BY <1>1, <1>9, <2>1, ClientStep
  <1>11. TypeInv'
    BY <1>1 DEF TypeInv
  <1>12. \A t \in Sessions : SessionInv(t)' /\ Handles(t)'
    <2>1. Handles(s)'
      BY DEF Handles
    <2> QED BY <1>8, <1>9, <2>1, Others DEF ControlInv
  <1> QED BY <1>10, <1>11, <1>12 DEF ControlInv

\* SessionControl keeps the invariant.
LEMMA SessionControlStep ==
  ASSUME ControlInv, NEW s \in Sessions, SessionControl(s)
  PROVE  ControlInv'
  <1> DEFINE qd == ch[s]["daemon"]
             qp == ch[s]["phone"]
             m == Head(qd)
  <1>1. TypeInv /\ SessionInv(s) /\ ClientInv /\ Handles(s)
    BY DEF ControlInv
  <1>2. qd \in Seq(Messages) /\ qp \in Seq(Messages)
    BY <1>1, Here
  <1>3. /\ link[s] # "none" /\ qd # <<>> /\ auth[s]["daemon"].state = "DONE"
        /\ Handled(s, "daemon", <<>>) /\ client' = client
        /\ pump' = [pump EXCEPT ![s] = [at |-> "recv", m |-> m]]
        /\ dmsdp_ready' = dmsdp_ready /\ dmsdp_failed' = dmsdp_failed
        /\ env' = env /\ auth' = auth /\ link' = link /\ server' = server
    BY DEF SessionControl, Reads, HasFrame
  <1>4. /\ m \in Messages /\ m \in Frames(qd) /\ Tail(qd) \in Seq(Messages)
        /\ Frames(Tail(qd)) \subseteq Frames(qd)
    BY <1>2, <1>3, FramesOfQueues
  <1> HIDE DEF m
  <1>5. /\ ch' \in [Sessions -> [Ends -> Seq(Messages)]]
        /\ ch'[s]["daemon"] = Tail(qd) /\ ch'[s]["phone"] = qp
        /\ \A t \in Sessions \ {s} : ch'[t] = ch[t]
    <2> DEFINE out == <<>>
    <2>1. out \in Seq(Messages) /\ Handled(s, "daemon", out) /\ qp \o out = qp
      BY <1>2, <1>3, FramesOfNone
    <2> HIDE DEF out
    <2> QED BY <1>1, <1>3, <2>1, HandledQueues DEF Other, Ends
  <1>6. /\ pump' \in [Sessions -> Pumps] /\ (\A t \in Sessions \ {s} : pump'[t] = pump[t])
        /\ pump'[s] = [at |-> "recv", m |-> m]
    BY <1>1, <1>3, <1>4 DEF TypeInv, Pumps
  <1>7. pump'[s].m = m
    BY <1>6
  <1>8. /\ pump'[s].m \in Messages
        /\ pump'[s].m = Dmsdp("RESPONSE", 1) => server'[s].state = "READY"
    BY <1>1, <1>3, <1>4, <1>7 DEF SessionInv, Answered
  <1>9. /\ \A f \in Frames(ch'[s]["daemon"]) : f \in Frames(qd)
        /\ \A f \in Frames(ch'[s]["phone"]) : f \in Frames(qp)
    BY <1>4, <1>5
  <1>10. \A f \in Frames(ch'[s]["daemon"]) :
           f = Dmsdp("RESPONSE", 1) => server'[s].state = "READY"
    BY <1>1, <1>3, <1>9 DEF SessionInv, Answered
  <1>11. InputSent(s)' => InputSent(s)
    BY <1>3, <1>5 DEF InputSent
  <1>12. /\ server' \in [Sessions -> Servers] /\ \A t \in Sessions \ {s} : server'[t] = server[t]
         /\ dmsdp_ready' \in BOOLEAN /\ dmsdp_failed' \in BOOLEAN
         /\ client' \in Clients /\ Waits(client')
         /\ client'.state = "READY" => client.state = "READY"
         /\ server[s].state = "READY" => server'[s].state = "READY"
    BY <1>1, <1>3 DEF TypeInv, ClientInv, Waits
  <1> QED
    BY <1>3, <1>5, <1>6, <1>8, <1>9, <1>10, <1>11, <1>12, DoneStep

\* What the daemon's handler sends is appended.
LEMMA SentQueues ==
  ASSUME TypeInv, NEW s \in Sessions, NEW m \in Messages, Sent(s, <<m>>)
  PROVE  /\ ch' \in [Sessions -> [Ends -> Seq(Messages)]]
         /\ ch'[s]["daemon"] = ch[s]["daemon"]
         /\ Frames(ch'[s]["phone"]) \subseteq Frames(ch[s]["phone"]) \cup {m}
         /\ ch[s]["phone"] # <<>> =>
              ch'[s]["phone"] # <<>> /\ Head(ch'[s]["phone"]) = Head(ch[s]["phone"])
         /\ \A t \in Sessions \ {s} : ch'[t] = ch[t]
  <1> DEFINE out == <<m>>
             qp == ch[s]["phone"]
             q == Carries(s, "daemon", ch[s], out)
  <1>1. ch \in [Sessions -> [Ends -> Seq(Messages)]]
    BY DEF TypeInv
  <1>2. ch' = [ch EXCEPT ![s]["phone"] = q]
    BY DEF Sent
  <1>3. out \in Seq(Messages) /\ Frames(out) = {m}
    BY FramesOfOne
  <1>4. q = qp \o out \/ q = qp
    BY DEF Carries, Other
  <1>5. qp \in Seq(Messages)
    BY <1>1 DEF Ends
  <1> HIDE DEF out, q, qp
  <1>6. qp \o out \in Seq(Messages) /\ Frames(qp \o out) = Frames(qp) \cup {m}
    BY <1>3, <1>5, FramesOfQueues
  <1>7. qp # <<>> => qp \o out # <<>> /\ Head(qp \o out) = Head(qp)
    BY <1>3, <1>5
  <1>8. /\ q \in Seq(Messages) /\ Frames(q) \subseteq Frames(qp) \cup {m}
        /\ qp # <<>> => q # <<>> /\ Head(q) = Head(qp)
    BY <1>4, <1>5, <1>6, <1>7
  <1>9. /\ ch' \in [Sessions -> [Ends -> Seq(Messages)]]
        /\ ch'[s]["daemon"] = ch[s]["daemon"] /\ ch'[s]["phone"] = q
        /\ \A t \in Sessions \ {s} : ch'[t] = ch[t]
    BY <1>1, <1>2, <1>8 DEF Ends
  <1> QED BY <1>8, <1>9 DEF qp

\* A step of a handler that has left its queue: it calls the client, or sends
\* one frame on its session, and goes on.
LEMMA HandlerStep ==
  ASSUME ControlInv, NEW s \in Sessions, pump[s].at # "idle",
         NEW m \in Messages, m.kind \in {"SETUP", "PLAY", "INPUT"},
         Sent(s, <<m>>) \/ ch' = ch,
         env' = env, auth' = auth, link' = link, server' = server,
         NEW at \in {"idle", "reply", "play"},
         pump' = [pump EXCEPT ![s] = Idle] \/ pump' = [pump EXCEPT ![s].at = at],
         client' \in Clients, Waits(client'),
         client'.state = "READY" => client.state = "READY" \/ server[s].state = "READY",
         m = Input => client'.state = "READY",
         dmsdp_ready' \in BOOLEAN, dmsdp_failed' \in BOOLEAN
  PROVE  ControlInv'
  <1>1. TypeInv /\ SessionInv(s) /\ Handles(s)
    BY DEF ControlInv
  <1>2. link[s] # "none" /\ auth[s]["daemon"].state = "DONE"
    BY <1>1 DEF Handles
  <1>3. /\ ch' \in [Sessions -> [Ends -> Seq(Messages)]]
        /\ ch'[s]["daemon"] = ch[s]["daemon"]
        /\ Frames(ch'[s]["phone"]) \subseteq Frames(ch[s]["phone"]) \cup {m}
        /\ ch[s]["phone"] # <<>> =>
             ch'[s]["phone"] # <<>> /\ Head(ch'[s]["phone"]) = Head(ch[s]["phone"])
        /\ \A t \in Sessions \ {s} : ch'[t] = ch[t]
    <2>1. CASE Sent(s, <<m>>)
      BY <1>1, <2>1, SentQueues
    <2>2. CASE ch' = ch
      BY <1>1, <2>2 DEF TypeInv
    <2> QED BY <2>1, <2>2
  <1>4. pump' \in [Sessions -> Pumps] /\ \A t \in Sessions \ {s} : pump'[t] = pump[t]
    <2>1. pump \in [Sessions -> Pumps] /\ Idle \in Pumps
      BY <1>1 DEF TypeInv, Pumps, Idle
    <2>2. CASE pump' = [pump EXCEPT ![s] = Idle]
      BY <2>1, <2>2
    <2>3. CASE pump' = [pump EXCEPT ![s].at = at]
      BY <2>1, <2>3 DEF Pumps
    <2> QED BY <2>2, <2>3
  <1>5. /\ pump'[s].at = "recv" => pump'[s].m \in Messages
        /\ pump'[s].m = Dmsdp("RESPONSE", 1) => server'[s].state = "READY"
    <2>1. pump[s] \in Pumps
      BY <1>1 DEF TypeInv
    <2>2. CASE pump' = [pump EXCEPT ![s] = Idle]
      <3>1. pump'[s] = Idle
        BY <1>1, <2>2 DEF TypeInv
      <3>2. pump'[s].at = "idle" /\ pump'[s].m = NoMessage
        BY <3>1 DEF Idle
      <3>3. NoMessage # Dmsdp("RESPONSE", 1)
        <4>1. NoMessage.kind = "none" /\ Dmsdp("RESPONSE", 1).kind = "RESPONSE"
          BY DEF NoMessage, Dmsdp
        <4> QED BY <4>1
      <3> QED BY <3>2, <3>3
    <2>3. CASE pump' = [pump EXCEPT ![s].at = at]
      <3>1. pump'[s].at = at /\ pump'[s].m = pump[s].m
        BY <1>1, <2>1, <2>3 DEF TypeInv, Pumps
      <3> QED BY <1>1, <3>1 DEF Handles
    <2> QED BY <2>2, <2>3
  <1>6. \A f \in Frames(ch'[s]["daemon"]) :
          f = Dmsdp("RESPONSE", 1) => server'[s].state = "READY"
    BY <1>1, <1>3 DEF SessionInv, Answered
  <1>7. InputSent(s)' => InputSent(s) \/ client'.state = "READY"
    <2>1. Input \in Frames(ch'[s]["phone"]) =>
            Input \in Frames(ch[s]["phone"]) \/ client'.state = "READY"
      BY <1>3
    <2> QED BY <2>1 DEF InputSent, Frames
  <1>8. /\ \A f \in Frames(ch'[s]["daemon"]) : f \in Frames(ch[s]["daemon"])
        /\ \A f \in Frames(ch'[s]["phone"]) :
             f \in Frames(ch[s]["phone"]) \/ f.kind \in {"SETUP", "PLAY", "INPUT"}
    BY <1>3
  <1>9. server' \in [Sessions -> Servers] /\ \A t \in Sessions \ {s} : server'[t] = server[t]
    BY <1>1 DEF TypeInv
  <1> QED BY <1>2, <1>3, <1>4, <1>5, <1>6, <1>7, <1>8, <1>9, DoneStep

\* The messages a handler sends.
LEMMA HandlerMessages ==
  /\ Dmsdp("SETUP", 0) \in Messages /\ Dmsdp("SETUP", 0).kind = "SETUP"
  /\ Dmsdp("PLAY", 1) \in Messages /\ Dmsdp("PLAY", 1).kind = "PLAY"
  /\ Input \in Messages /\ Input.kind = "INPUT"
  BY DEF Messages, Dmsdp, DmsdpKinds, Input

\* dmsdp_send_setup and SendPlay keep the invariant.
LEMMA RequestStep ==
  ASSUME ControlInv, NEW s \in Sessions, pump[s].at # "idle", NEW sent \in BOOLEAN,
         NEW m \in Messages, m.kind \in {"SETUP", "PLAY"}, Requests(s, m, sent)
  PROVE  ControlInv'
  <1> DEFINE r == client_send(client, m)
  <1>1. TypeInv /\ ClientInv
    BY DEF ControlInv
  <1>2. /\ client' = r.client /\ (Sent(s, <<m>>) \/ ch' = ch)
        /\ dmsdp_failed' = (dmsdp_failed \/ ~r.accepted \/ ~sent) /\ dmsdp_ready' = dmsdp_ready
        /\ pump' = [pump EXCEPT ![s] = Idle]
        /\ env' = env /\ auth' = auth /\ link' = link /\ server' = server
    BY DEF Requests
  <1>3. /\ r.client \in Clients /\ Waits(r.client) /\ r.accepted \in BOOLEAN
        /\ r.client.state = "READY" => client.state = "READY"
    <2>1. client \in Clients /\ Waits(client)
      BY <1>1 DEF TypeInv, ClientInv, Waits
    <2> QED BY <2>1, SendFields
  <1> HIDE DEF r
  <1>4. dmsdp_failed' \in BOOLEAN /\ dmsdp_ready' \in BOOLEAN
    BY <1>1, <1>2 DEF TypeInv
  <1>5. m # Input
    BY HandlerMessages
  <1>6. "idle" \in {"idle", "reply", "play"} /\ m.kind \in {"SETUP", "PLAY", "INPUT"}
    OBVIOUS
  <1> QED BY <1>2, <1>3, <1>4, <1>5, <1>6, HandlerStep

\* ReplyFed keeps the invariant.
LEMMA ReplyFedStep ==
  ASSUME ControlInv, NEW s \in Sessions, ReplyFed(s)
  PROVE  ControlInv'
  <1> DEFINE r == client_recv(client, pump[s].m)
             m == Dmsdp("SETUP", 0)
  <1>1. TypeInv /\ ClientInv /\ Handles(s)
    BY DEF ControlInv
  <1>2. /\ pump[s].at = "recv" /\ client' = r.client /\ ch' = ch
        /\ dmsdp_failed' = (dmsdp_failed \/ ~r.accepted) /\ dmsdp_ready' = dmsdp_ready
        /\ pump' = [pump EXCEPT ![s] = Idle] \/ pump' = [pump EXCEPT ![s].at = "reply"]
        /\ env' = env /\ auth' = auth /\ link' = link /\ server' = server
    BY DEF ReplyFed, Goes
  <1>3. /\ r.client \in Clients /\ Waits(r.client) /\ r.accepted \in BOOLEAN
        /\ r.client.state = "READY" =>
             client.state = "READY" \/ pump[s].m = Dmsdp("RESPONSE", 1)
    <2>1. client \in Clients /\ Waits(client)
      BY <1>1 DEF TypeInv, ClientInv, Waits
    <2> QED BY <2>1, RecvFields
  <1> HIDE DEF r
  <1>4. dmsdp_failed' \in BOOLEAN /\ dmsdp_ready' \in BOOLEAN
    BY <1>1, <1>2 DEF TypeInv
  <1>5. client'.state = "READY" => client.state = "READY" \/ server[s].state = "READY"
    BY <1>1, <1>2, <1>3 DEF Handles
  <1>6. m \in Messages /\ m.kind = "SETUP" /\ m # Input
    BY HandlerMessages
  <1>7. pump[s].at # "idle"
    BY <1>2
  <1> HIDE DEF m
  <1> QED BY <1>2, <1>3, <1>4, <1>5, <1>6, <1>7, HandlerStep

\* What the handler does after the client's answer keeps the invariant.
LEMMA ReplyStep ==
  ASSUME ControlInv, NEW s \in Sessions, NEW sent \in BOOLEAN,
         ReplyAsksPlay(s) \/ ReplyReady(s, sent) \/ ReplyConsumed(s)
  PROVE  ControlInv'
  <1>1. TypeInv /\ ClientInv
    BY DEF ControlInv
  <1>2. /\ client' \in Clients /\ Waits(client') /\ client' = client
        /\ pump[s].at # "idle" /\ env' = env /\ auth' = auth /\ link' = link /\ server' = server
        /\ pump' = [pump EXCEPT ![s] = Idle] \/ pump' = [pump EXCEPT ![s].at = "play"]
        /\ dmsdp_ready' \in BOOLEAN /\ dmsdp_failed' \in BOOLEAN
    BY <1>1 DEF ReplyAsksPlay, ReplyReady, ReplyConsumed, Goes, TypeInv, ClientInv, Waits
  <1>3. CASE ReplyReady(s, sent)
    <2>1. Sent(s, <<Input>>) /\ client.state = "READY"
      BY <1>3 DEF ReplyReady
    <2> DEFINE m == Input
    <2>2. m \in Messages /\ m.kind = "INPUT" /\ Sent(s, <<m>>)
      BY <2>1, HandlerMessages
    <2> HIDE DEF m
    <2> QED BY <1>2, <2>1, <2>2, HandlerStep
  <1>4. CASE ReplyAsksPlay(s) \/ ReplyConsumed(s)
    <2> DEFINE m == Dmsdp("SETUP", 0)
    <2>1. ch' = ch
      BY <1>4 DEF ReplyAsksPlay, ReplyConsumed
    <2>2. m \in Messages /\ m.kind = "SETUP" /\ m # Input
      BY HandlerMessages
    <2> HIDE DEF m
    <2> QED BY <1>2, <2>1, <2>2, HandlerStep
  <1> QED BY <1>3, <1>4

\* SessionEcho keeps the invariant.
LEMMA SessionEchoStep ==
  ASSUME ControlInv, NEW s \in Sessions, SessionEcho(s)
  PROVE  ControlInv'
  <1> DEFINE qd == ch[s]["daemon"]
             qp == ch[s]["phone"]
             m == Head(qd)
  <1>1. TypeInv /\ SessionInv(s) /\ ClientInv /\ Handles(s)
    BY DEF ControlInv
  <1>2. qd \in Seq(Messages) /\ qp \in Seq(Messages)
    BY <1>1, Here
  <1>3. /\ link[s] \in {"open", "closed"} /\ qd # <<>> /\ auth[s]["daemon"].state = "DONE"
        /\ Handled(s, "daemon", <<m>>) /\ client' = client
        /\ dmsdp_ready' = dmsdp_ready /\ dmsdp_failed' = dmsdp_failed /\ pump' = pump
        /\ env' = env /\ auth' = auth /\ link' = link /\ server' = server
    BY DEF SessionEcho, Reads, HasFrame
  <1>4. /\ m \in Messages /\ m \in Frames(qd) /\ Tail(qd) \in Seq(Messages)
        /\ Frames(Tail(qd)) \subseteq Frames(qd)
    BY <1>2, <1>3, FramesOfQueues
  <1>5. m.kind # "INPUT"
    BY <1>1, <1>4 DEF SessionInv, Exchange, ToDaemon
  <1> HIDE DEF m
  <1>6. <<m>> \in Seq(Messages) /\ Frames(<<m>>) = {m}
    BY <1>4, FramesOfOne
  <1>7. /\ ch' \in [Sessions -> [Ends -> Seq(Messages)]]
        /\ ch'[s]["daemon"] = Tail(qd)
        /\ ch'[s]["phone"] = IF link[s] = "open" THEN qp \o <<m>> ELSE qp
        /\ \A t \in Sessions \ {s} : ch'[t] = ch[t]
    <2> DEFINE out == <<m>>
    <2>1. out \in Seq(Messages) /\ Handled(s, "daemon", out)
      BY <1>3, <1>6
    <2> HIDE DEF out
    <2>2. /\ ch' \in [Sessions -> [Ends -> Seq(Messages)]]
          /\ ch'[s]["daemon"] = Tail(qd)
          /\ ch'[s]["phone"] = IF link[s] = "open" THEN qp \o out ELSE qp
          /\ \A t \in Sessions \ {s} : ch'[t] = ch[t]
      BY <1>1, <1>3, <2>1, HandledQueues DEF Other, Ends
    <2> QED BY <2>2 DEF out
  <1>8. Frames(ch'[s]["phone"]) \subseteq Frames(qp) \cup {m}
    <2>1. Frames(qp \o <<m>>) = Frames(qp) \cup {m}
      <3> DEFINE out == <<m>>
      <3>1. out \in Seq(Messages) /\ Frames(out) = {m}
        BY <1>6
      <3> HIDE DEF qp, out
      <3>2. Frames(qp \o out) = Frames(qp) \cup {m}
        BY <1>2, <3>1, FramesOfQueues
      <3> QED BY <3>2 DEF out
    <2> QED BY <1>7, <2>1
  <1>9. \A f \in Frames(ch'[s]["daemon"]) :
          f = Dmsdp("RESPONSE", 1) => server'[s].state = "READY"
    BY <1>1, <1>3, <1>4, <1>7 DEF SessionInv, Answered
  <1>10. InputSent(s)' => InputSent(s)
    <2>1. Input \in Frames(ch'[s]["phone"]) => Input \in Frames(qp)
      BY <1>5, <1>8 DEF Input
    <2> QED BY <1>3, <2>1 DEF InputSent, Frames
  <1>11. /\ server' \in [Sessions -> Servers] /\ \A t \in Sessions \ {s} : server'[t] = server[t]
         /\ dmsdp_ready' \in BOOLEAN /\ dmsdp_failed' \in BOOLEAN
         /\ client' \in Clients /\ Waits(client')
    BY <1>1, <1>3 DEF TypeInv, ClientInv, Waits
  <1>12. \A f \in Frames(ch'[s]["daemon"]) : f \in Frames(qd)
    BY <1>4, <1>7
  <1>13. \A f \in Frames(ch'[s]["phone"]) : f \in Frames(qd) \cup Frames(qp)
    BY <1>4, <1>8
  <1>14. /\ client'.state = "READY" => client.state = "READY"
         /\ server[s].state = "READY" => server'[s].state = "READY"
    BY <1>3
  <1>15. /\ pump' \in [Sessions -> Pumps] /\ (\A t \in Sessions \ {s} : pump'[t] = pump[t])
         /\ pump'[s].at = "recv" => pump'[s].m \in Messages
         /\ pump'[s].m = Dmsdp("RESPONSE", 1) => server'[s].state = "READY"
    BY <1>1, <1>3 DEF TypeInv, Handles
  <1> QED
    BY <1>15, <1>3, <1>7, <1>9, <1>10, <1>11, <1>12, <1>13, <1>14, DoneStep

\* PhoneControl keeps the invariant.
LEMMA PhoneControlStep ==
  ASSUME ControlInv, NEW s \in Sessions, PhoneControl(s)
  PROVE  ControlInv'
  <1> DEFINE qd == ch[s]["daemon"]
             qp == ch[s]["phone"]
             m == Head(qp)
             v == server[s]
  <1>1. TypeInv /\ SessionInv(s) /\ ClientInv /\ Handles(s)
    BY DEF ControlInv
  <1>2. qd \in Seq(Messages) /\ qp \in Seq(Messages) /\ v \in Servers
    BY <1>1, Here DEF TypeInv
  <1>3. /\ link[s] = "open" /\ qp # <<>> /\ auth[s]["phone"].state = "DONE"
        /\ env' = env /\ auth' = auth /\ link' = link /\ client' = client
        /\ dmsdp_ready' = dmsdp_ready /\ dmsdp_failed' = dmsdp_failed /\ pump' = pump
    BY DEF PhoneControl, HasFrame
  <1>4. auth[s]["daemon"].state = "DONE"
    BY <1>1, <1>3 DEF SessionInv, Exchange
  <1>5. /\ m \in Messages /\ m \in Frames(qp) /\ Tail(qp) \in Seq(Messages)
        /\ Frames(Tail(qp)) \subseteq Frames(qp)
    BY <1>2, <1>3, FramesOfQueues
  <1>6. \/ /\ server' = [server EXCEPT ![s].state = "WAIT_PLAY"] /\ v.state = "INIT"
           /\ Handled(s, "phone", <<Dmsdp("RESPONSE", 0)>>)
        \/ /\ server' = [server EXCEPT ![s].state = "READY"]
           /\ Handled(s, "phone", <<Dmsdp("RESPONSE", 1)>>)
        \/ /\ server' = [server EXCEPT ![s].inputs = @ + 1] /\ m.kind = "INPUT"
           /\ Handled(s, "phone", <<>>)
        \/ /\ server' = [server EXCEPT ![s].echoes = @ + 1]
           /\ Handled(s, "phone", <<>>)
        \/ server' = server /\ Handled(s, "phone", <<>>)
    BY DEF PhoneControl
  <1>7. /\ server' \in [Sessions -> Servers] /\ \A t \in Sessions \ {s} : server'[t] = server[t]
        /\ v.state = "READY" => server'[s].state = "READY"
        /\ server'[s].inputs > 0 => v.inputs > 0 \/ m.kind = "INPUT"
    <2>1. server \in [Sessions -> Servers]
      BY <1>1 DEF TypeInv
    <2> HIDE DEF m
    <2>2. CASE server' = [server EXCEPT ![s].state = "WAIT_PLAY"] /\ v.state = "INIT"
      BY <2>1, <2>2 DEF Servers
    <2>3. CASE server' = [server EXCEPT ![s].state = "READY"]
      BY <2>1, <2>3 DEF Servers
    <2>4. CASE server' = [server EXCEPT ![s].inputs = @ + 1] /\ m.kind = "INPUT"
      BY <2>1, <2>4 DEF Servers
    <2>5. CASE server' = [server EXCEPT ![s].echoes = @ + 1]
      BY <2>1, <2>5 DEF Servers
    <2>6. CASE server' = server
      BY <2>1, <2>6
    <2> QED BY <1>6, <2>2, <2>3, <2>4, <2>5, <2>6
  <1>8. PICK out \in Seq(Messages) :
          /\ Handled(s, "phone", out)
          /\ \A f \in Frames(out) : f.kind = "RESPONSE"
          /\ \A f \in Frames(out) : f = Dmsdp("RESPONSE", 1) => server'[s].state = "READY"
    <2>1. /\ Dmsdp("RESPONSE", 0) \in Messages /\ Dmsdp("RESPONSE", 0).kind = "RESPONSE"
          /\ Dmsdp("RESPONSE", 1) \in Messages /\ Dmsdp("RESPONSE", 1).kind = "RESPONSE"
          /\ Dmsdp("RESPONSE", 0) # Dmsdp("RESPONSE", 1)
      BY DEF Messages, Dmsdp, DmsdpKinds
    <2>2. /\ <<Dmsdp("RESPONSE", 0)>> \in Seq(Messages)
          /\ Frames(<<Dmsdp("RESPONSE", 0)>>) = {Dmsdp("RESPONSE", 0)}
      BY <2>1, FramesOfOne
    <2>3. /\ <<Dmsdp("RESPONSE", 1)>> \in Seq(Messages)
          /\ Frames(<<Dmsdp("RESPONSE", 1)>>) = {Dmsdp("RESPONSE", 1)}
      BY <2>1, FramesOfOne
    <2>4. CASE Handled(s, "phone", <<Dmsdp("RESPONSE", 0)>>)
      <3> <<Dmsdp("RESPONSE", 0)>> \in Seq(Messages)
        BY <2>2
      <3> WITNESS <<Dmsdp("RESPONSE", 0)>> \in Seq(Messages)
      <3> QED BY <2>1, <2>2, <2>4
    <2>5. CASE /\ server' = [server EXCEPT ![s].state = "READY"]
               /\ Handled(s, "phone", <<Dmsdp("RESPONSE", 1)>>)
      <3>1. server'[s].state = "READY"
        BY <1>1, <2>5 DEF TypeInv, Servers
      <3> <<Dmsdp("RESPONSE", 1)>> \in Seq(Messages)
        BY <2>3
      <3> WITNESS <<Dmsdp("RESPONSE", 1)>> \in Seq(Messages)
      <3> QED BY <2>1, <2>3, <2>5, <3>1
    <2>6. CASE Handled(s, "phone", <<>>)
      <3> WITNESS <<>> \in Seq(Messages)
      <3> QED BY <2>6, FramesOfNone
    <2> QED BY <1>6, <2>4, <2>5, <2>6
  <1>9. /\ ch' \in [Sessions -> [Ends -> Seq(Messages)]]
        /\ ch'[s]["phone"] = Tail(qp) /\ ch'[s]["daemon"] = qd \o out
        /\ \A t \in Sessions \ {s} : ch'[t] = ch[t]
    BY <1>1, <1>3, <1>8, HandledQueues DEF Other, Ends
  <1>10. Frames(ch'[s]["daemon"]) = Frames(qd) \cup Frames(out)
    <2>1. Frames(qd \o out) = Frames(qd) \cup Frames(out)
      <3> HIDE DEF qd
      <3> QED BY <1>2, <1>8, FramesOfQueues
    <2> QED BY <1>9, <2>1
  <1>11. \A f \in Frames(ch'[s]["daemon"]) :
           f \in Frames(qd) \/ f.kind \in {"RESPONSE", "TEARDOWN"}
    BY <1>8, <1>10
  <1>12. \A f \in Frames(ch'[s]["phone"]) : f \in Frames(qp)
    BY <1>5, <1>9
  <1>13. \A f \in Frames(ch'[s]["daemon"]) :
           f = Dmsdp("RESPONSE", 1) => server'[s].state = "READY"
    BY <1>1, <1>7, <1>8, <1>10 DEF SessionInv, Answered
  <1>14. InputSent(s)' => InputSent(s)
    <2>1. m.kind = "INPUT" => m = Input
      BY <1>5 DEF Messages, DmsdpKinds, Input
    <2>2. m.kind = "INPUT" => Input \in Frames(qp)
      BY <1>5, <2>1
    <2>3. Input \in Frames(ch'[s]["phone"]) => Input \in Frames(qp)
      BY <1>12
    <2> QED BY <1>7, <2>2, <2>3 DEF InputSent, Frames
  <1>15. /\ dmsdp_ready' \in BOOLEAN /\ dmsdp_failed' \in BOOLEAN
         /\ client' \in Clients /\ Waits(client')
         /\ client'.state = "READY" => client.state = "READY"
    BY <1>1, <1>3 DEF TypeInv, ClientInv, Waits
  <1>16. link[s] \in {"open", "closed"}
    BY <1>3
  <1>17. /\ pump' \in [Sessions -> Pumps] /\ (\A t \in Sessions \ {s} : pump'[t] = pump[t])
         /\ pump'[s].at = "recv" => pump'[s].m \in Messages
         /\ pump'[s].m = Dmsdp("RESPONSE", 1) => server'[s].state = "READY"
    BY <1>1, <1>3, <1>7 DEF TypeInv, Handles
  <1> HIDE DEF m
  <1> QED
    BY <1>17, <1>3, <1>4, <1>7, <1>9, <1>11, <1>12, <1>13, <1>14, <1>15, <1>16, DoneStep

\* PhoneExtra keeps the invariant.
LEMMA PhoneExtraStep ==
  ASSUME ControlInv, NEW s \in Sessions,
         NEW m \in {Dmsdp("RESPONSE", 1), Dmsdp("TEARDOWN", 7)}, PhoneExtra(s, m)
  PROVE  ControlInv'
  <1> DEFINE qd == ch[s]["daemon"]
             qp == ch[s]["phone"]
             v == server[s]
  <1>1. TypeInv /\ SessionInv(s) /\ ClientInv /\ Handles(s)
    BY DEF ControlInv
  <1>2. qd \in Seq(Messages) /\ qp \in Seq(Messages) /\ v \in Servers
    BY <1>1, Here DEF TypeInv
  <1>3. /\ link[s] = "open" /\ auth[s]["phone"].state = "DONE"
        /\ m.kind = "RESPONSE" => v.state = "READY"
        /\ server' = [server EXCEPT ![s].extras = @ + 1]
        /\ ch' = [ch EXCEPT ![s]["daemon"] = Append(@, m)]
        /\ env' = env /\ auth' = auth /\ link' = link /\ client' = client
        /\ dmsdp_ready' = dmsdp_ready /\ dmsdp_failed' = dmsdp_failed /\ pump' = pump
    BY DEF PhoneExtra
  <1>4. auth[s]["daemon"].state = "DONE"
    BY <1>1, <1>3 DEF SessionInv, Exchange
  <1>5. m \in Messages /\ m.kind \in {"RESPONSE", "TEARDOWN"}
    BY DEF Messages, Dmsdp, DmsdpKinds
  <1>6. m = Dmsdp("RESPONSE", 1) => v.state = "READY"
    BY <1>3 DEF Dmsdp
  <1>7. /\ server' \in [Sessions -> Servers] /\ \A t \in Sessions \ {s} : server'[t] = server[t]
        /\ server'[s].state = v.state /\ server'[s].inputs = v.inputs
    <2>1. server \in [Sessions -> Servers]
      BY <1>1 DEF TypeInv
    <2> QED BY <1>3, <2>1 DEF Servers
  <1>8. Append(qd, m) \in Seq(Messages) /\ Frames(Append(qd, m)) = Frames(qd) \cup {m}
    <2>1. Append(qd, m) = qd \o <<m>>
      <3> HIDE DEF qd
      <3> QED BY <1>2, <1>5, AppendIsConcat
    <2> DEFINE out == <<m>>
    <2>2. out \in Seq(Messages) /\ Frames(out) = {m}
      BY <1>5, FramesOfOne
    <2>3. qd \o out \in Seq(Messages) /\ Frames(qd \o out) = Frames(qd) \cup {m}
      <3> HIDE DEF out, qd
      <3> QED BY <1>2, <2>2, FramesOfQueues
    <2> QED BY <2>1, <2>3
  <1>9. /\ ch' \in [Sessions -> [Ends -> Seq(Messages)]]
        /\ ch'[s]["phone"] = qp /\ ch'[s]["daemon"] = Append(qd, m)
        /\ \A t \in Sessions \ {s} : ch'[t] = ch[t]
    <2>1. ch \in [Sessions -> [Ends -> Seq(Messages)]]
      BY <1>1 DEF TypeInv
    <2> QED BY <1>3, <1>8, <2>1 DEF Ends
  <1>10. \A f \in Frames(ch'[s]["daemon"]) :
           f \in Frames(qd) \/ f.kind \in {"RESPONSE", "TEARDOWN"}
    BY <1>5, <1>8, <1>9
  <1>11. \A f \in Frames(ch'[s]["phone"]) : f \in Frames(qp)
    BY <1>9
  <1>12. \A f \in Frames(ch'[s]["daemon"]) :
           f = Dmsdp("RESPONSE", 1) => server'[s].state = "READY"
    BY <1>1, <1>6, <1>7, <1>8, <1>9 DEF SessionInv, Answered
  <1>13. InputSent(s)' => InputSent(s)
    BY <1>7, <1>9 DEF InputSent
  <1>14. /\ dmsdp_ready' \in BOOLEAN /\ dmsdp_failed' \in BOOLEAN
         /\ client' \in Clients /\ Waits(client')
         /\ client'.state = "READY" => client.state = "READY"
         /\ v.state = "READY" => server'[s].state = "READY"
    BY <1>1, <1>3, <1>7 DEF TypeInv, ClientInv, Waits
  <1>15. link[s] \in {"open", "closed"}
    BY <1>3
  <1>16. /\ pump' \in [Sessions -> Pumps] /\ (\A t \in Sessions \ {s} : pump'[t] = pump[t])
         /\ pump'[s].at = "recv" => pump'[s].m \in Messages
         /\ pump'[s].m = Dmsdp("RESPONSE", 1) => server'[s].state = "READY"
    BY <1>1, <1>3, <1>7 DEF TypeInv, Handles
  <1> QED
    BY <1>16, <1>3, <1>4, <1>7, <1>9, <1>10, <1>11, <1>12, <1>13, <1>14, <1>15, DoneStep

\* on_session_opened keeps the invariant.
LEMMA OpenedStep ==
  ASSUME ControlInv, NEW s \in Sessions, on_session_opened(s)
  PROVE  ControlInv'
  <1> DEFINE D == auth[s]["daemon"]
             P == auth[s]["phone"]
             r == begin_active(D)
             f == Negotiation(D)
  <1>1. TypeInv /\ SessionInv(s) /\ ClientInv /\ Handles(s)
    BY DEF ControlInv
  <1>2. D \in Auths /\ P \in Auths
    BY <1>1, Here
  <1>3. /\ link[s] = "none" /\ link' = [link EXCEPT ![s] = "open"]
        /\ auth' = [auth EXCEPT ![s]["daemon"] = r.auth]
        /\ ch' = [ch EXCEPT ![s]["phone"] = @ \o r.out]
        /\ env' = env /\ server' = server /\ client' = client
        /\ dmsdp_ready' = dmsdp_ready /\ dmsdp_failed' = dmsdp_failed /\ pump' = pump
    BY DEF on_session_opened
  <1>4. /\ D.state = "IDLE" /\ P.state = "IDLE" /\ server[s].inputs = 0
        /\ ch[s]["daemon"] = <<>> /\ ch[s]["phone"] = <<>>
        /\ Exchange(D, P, Frames(ch[s]["daemon"]), Frames(ch[s]["phone"]))
    BY <1>1, <1>3 DEF SessionInv
  <1> HIDE DEF D, P
  <1>5. Begun(r, D)
    BY <1>2, <1>4, BeginFields
  <1>6. f \in Messages /\ f.kind = "SYNC_NEGOTIATION" /\ f.auth_id = D.auth_id
    BY <1>2, MessagesMade DEF Negotiation, Ends
  <1> HIDE DEF r
  <1>7. /\ r.auth \in Auths /\ r.auth.is_active /\ r.auth.state = "SYNC_NEGOTIATION"
        /\ r.auth.last = f /\ r.auth.auth_id = D.auth_id /\ r.out = <<f>>
    BY <1>5 DEF Begun
  <1> HIDE DEF f
  <1>8. <<f>> \in Seq(Messages) /\ Frames(<<f>>) = {f}
    BY <1>6, FramesOfOne
  <1>9. /\ ch' \in [Sessions -> [Ends -> Seq(Messages)]]
        /\ ch'[s]["daemon"] = <<>> /\ ch'[s]["phone"] = <<f>>
        /\ \A t \in Sessions \ {s} : ch'[t] = ch[t]
    <2>1. ch \in [Sessions -> [Ends -> Seq(Messages)]]
      BY <1>1 DEF TypeInv
    <2>2. ch[s]["phone"] \o r.out = <<f>>
      BY <1>4, <1>7, <1>8
    <2>3. ch' = [ch EXCEPT ![s]["phone"] = <<f>>]
      BY <1>3, <2>2
    <2> QED BY <1>4, <1>8, <2>1, <2>3 DEF Ends
  <1>10. /\ auth' \in [Sessions -> [Ends -> Auths]]
         /\ auth'[s]["daemon"] = r.auth /\ auth'[s]["phone"] = P
         /\ \A t \in Sessions \ {s} : auth'[t] = auth[t]
    BY <1>1, <1>3, <1>7, AuthReplaced DEF Other, Ends, P
  <1>11. /\ link' \in [Sessions -> {"none", "open", "closed", "gone"}] /\ link'[s] = "open"
         /\ \A t \in Sessions \ {s} : link'[t] = link[t]
    BY <1>1, <1>3 DEF TypeInv
  <1>12. DaemonPart(r.auth)
    BY <1>6, <1>7 DEF DaemonPart
  <1>13. \A x \in Frames(<<f>>) : ToPhone(x, r.auth, P)
    BY <1>6, <1>8 DEF ToPhone
  <1>14. Exchange(r.auth, P, Frames(<<>>), Frames(<<f>>))
    <2> DEFINE TP == Frames(<<f>>)
               SD == Frames(<<>>)
    <2>1. Exchange(D, P, SD, Frames(<<>>)) /\ \A x \in TP : ToPhone(x, r.auth, P)
      BY <1>4, <1>13
    <2>2. D.state # "DONE" /\ r.auth.state # "DONE"
      BY <1>4, <1>7
    <2> HIDE DEF TP, SD
    <2>3. Exchange(r.auth, P, SD, TP)
      BY <1>12, <2>1, <2>2, DaemonMoves
    <2> QED BY <2>3 DEF TP, SD
  <1>15. Phases(r.auth, P, <<>>, <<f>>)
    BY <1>4, <1>6, <1>7 DEF Phases, Single
  <1>16. SessionInv(s)'
    <2> DEFINE qd == <<>>
               qp == <<f>>
    <2>1. /\ ch'[s]["daemon"] = qd /\ ch'[s]["phone"] = qp
          /\ Exchange(r.auth, P, Frames(qd), Frames(qp)) /\ Phases(r.auth, P, qd, qp)
          /\ \A x \in Frames(qd) : x = Dmsdp("RESPONSE", 1) => server'[s].state = "READY"
      BY <1>9, <1>14, <1>15, FramesOfNone
    <2>2. link'[s] # "none"
      BY <1>11
    <2> HIDE DEF qd, qp
    <2> QED BY <1>3, <1>7, <1>10, <2>1, <2>2, SessionNow
  <1>17. Only(s)
    BY <1>3, <1>9, <1>10, <1>11 DEF Only
  <1>18. ~InputSent(s)'
    <2>1. Input \notin Frames(ch'[s]["phone"])
      BY <1>6, <1>8, <1>9 DEF Input
    <2> QED BY <1>3, <1>4, <2>1 DEF InputSent, Frames
  <1>19. ClientInv'
    <2>1. Waits(client')
      BY <1>1, <1>3 DEF ClientInv, Waits
    <2>2. link'[s] # "none"
      BY <1>11
    <2> QED BY <1>1, <1>3, <1>17, <1>18, <2>1, <2>2, ClientStep
  <1>20. TypeInv'
    BY <1>1, <1>3, <1>9, <1>10, <1>11 DEF TypeInv
  <1>21. \A t \in Sessions : SessionInv(t)' /\ Handles(t)'
    <2>1. Handles(s)'
      BY <1>1, <1>3, <1>4, <1>11, HandlesKept DEF D
    <2> QED BY <1>16, <1>17, <2>1, Others DEF ControlInv
  <1> QED BY <1>19, <1>20, <1>21 DEF ControlInv

\* The connection is closed, or its end is read: queues only lose frames.
LEMMA LossStep ==
  ASSUME ControlInv, NEW s \in Sessions, NEW l \in {"closed", "gone"},
         link[s] # "none", link' = [link EXCEPT ![s] = l],
         NEW qd \in Seq(Messages), NEW qp \in Seq(Messages),
         Frames(qd) \subseteq Frames(ch[s]["daemon"]),
         Frames(qp) \subseteq Frames(ch[s]["phone"]),
         ch' \in [Sessions -> [Ends -> Seq(Messages)]],
         ch'[s]["daemon"] = qd, ch'[s]["phone"] = qp,
         \A t \in Sessions \ {s} : ch'[t] = ch[t],
         env' = env, auth' = auth, server' = server, client' = client,
         dmsdp_ready' = dmsdp_ready, dmsdp_failed' = dmsdp_failed, pump' = pump
  PROVE  ControlInv'
  <1> DEFINE D == auth[s]["daemon"]
             P == auth[s]["phone"]
             SD == Frames(ch[s]["daemon"])
             SP == Frames(ch[s]["phone"])
  <1>1. TypeInv /\ SessionInv(s) /\ ClientInv /\ Handles(s)
    BY DEF ControlInv
  <1>2. Exchange(D, P, SD, SP) /\ D.is_active
    BY <1>1 DEF SessionInv
  <1>3. Exchange(D, P, Frames(qd), Frames(qp))
    <2>1. (\A x \in Frames(qd) : x \in SD) /\ (\A x \in Frames(qp) : x \in SP)
      OBVIOUS
    <2> HIDE DEF D, P, SD, SP
    <2> QED BY <1>2, <2>1, ExchangeFrames
  <1>4. /\ link' \in [Sessions -> {"none", "open", "closed", "gone"}]
        /\ link'[s] \notin {"none", "open"}
        /\ \A t \in Sessions \ {s} : link'[t] = link[t]
    BY <1>1 DEF TypeInv
  <1>5. \A x \in Frames(qd) : x = Dmsdp("RESPONSE", 1) => server'[s].state = "READY"
    BY <1>1 DEF SessionInv, Answered
  <1>6. SessionInv(s)'
    <2>1. auth'[s]["daemon"] = D /\ auth'[s]["phone"] = P
      OBVIOUS
    <2> HIDE DEF D, P
    <2> QED BY <1>2, <1>3, <1>4, <1>5, <2>1, SessionNow
  <1>7. Only(s)
    BY <1>4 DEF Only
  <1>8. InputSent(s)' => InputSent(s)
    <2>1. Input \in Frames(ch'[s]["phone"]) => Input \in Frames(ch[s]["phone"])
      OBVIOUS
    <2> QED BY <2>1 DEF InputSent, Frames
  <1>9. ClientInv'
    <2>1. Waits(client') /\ link'[s] # "none"
      BY <1>1, <1>4 DEF ClientInv, Waits
    <2> QED BY <1>1, <1>7, <1>8, <2>1, ClientStep
  <1>10. TypeInv'
    BY <1>1, <1>4 DEF TypeInv
  <1>11. \A t \in Sessions : SessionInv(t)' /\ Handles(t)'
    <2>1. Handles(s)'
      BY <1>1, <1>4, HandlesKept
    <2> QED BY <1>6, <1>7, <2>1, Others DEF ControlInv
  <1> QED BY <1>9, <1>10, <1>11 DEF ControlInv

\* PhoneCloses keeps the invariant.
LEMMA PhoneClosesStep ==
  ASSUME ControlInv, NEW s \in Sessions, PhoneCloses(s)
  PROVE  ControlInv'
  <1>1. TypeInv
    BY DEF ControlInv
  <1>2. PICK q \in {<<>>, ch[s]["daemon"]} :
          ch' = [ch EXCEPT ![s] = [e \in Ends |-> IF e = "daemon" THEN q ELSE <<>>]]
    BY DEF PhoneCloses
  <1>3. /\ link[s] # "none" /\ link' = [link EXCEPT ![s] = "closed"]
        /\ env' = env /\ auth' = auth /\ server' = server /\ client' = client
        /\ dmsdp_ready' = dmsdp_ready /\ dmsdp_failed' = dmsdp_failed /\ pump' = pump
    BY DEF PhoneCloses
  <1>4. q \in Seq(Messages) /\ Frames(q) \subseteq Frames(ch[s]["daemon"])
    BY <1>1, <1>2, Here, FramesOfNone
  <1>5. [e \in Ends |-> IF e = "daemon" THEN q ELSE <<>>] \in [Ends -> Seq(Messages)]
    BY <1>4, FramesOfNone
  <1>6. /\ ch' \in [Sessions -> [Ends -> Seq(Messages)]]
        /\ ch'[s] = [e \in Ends |-> IF e = "daemon" THEN q ELSE <<>>]
        /\ \A t \in Sessions \ {s} : ch'[t] = ch[t]
    BY <1>1, <1>2, <1>5 DEF TypeInv
  <1>7. ch'[s]["daemon"] = q /\ ch'[s]["phone"] = <<>>
    BY <1>6 DEF Ends
  <1>8. PICK p \in Seq(Messages) : p = ch'[s]["phone"] /\ Frames(p) = {}
    BY <1>7, FramesOfNone
  <1>9. ch'[s]["phone"] = p /\ Frames(p) \subseteq Frames(ch[s]["phone"])
    BY <1>8
  <1> QED BY <1>3, <1>4, <1>6, <1>7, <1>9, LossStep

\* on_session_closed keeps the invariant.
LEMMA ClosedStep ==
  ASSUME ControlInv, NEW s \in Sessions, on_session_closed(s)
  PROVE  ControlInv'
  <1>1. TypeInv
    BY DEF ControlInv
  <1>2. /\ link[s] # "none" /\ link' = [link EXCEPT ![s] = "gone"] /\ ch' = ch
        /\ env' = env /\ auth' = auth /\ server' = server /\ client' = client
        /\ dmsdp_ready' = dmsdp_ready /\ dmsdp_failed' = dmsdp_failed /\ pump' = pump
    BY DEF on_session_closed
  <1>3. ch[s]["daemon"] \in Seq(Messages) /\ ch[s]["phone"] \in Seq(Messages)
    BY <1>1, Here
  <1>4. ch' \in [Sessions -> [Ends -> Seq(Messages)]]
        /\ (\A t \in Sessions \ {s} : ch'[t] = ch[t])
        /\ ch'[s]["daemon"] = ch[s]["daemon"] /\ ch'[s]["phone"] = ch[s]["phone"]
    BY <1>1, <1>2 DEF TypeInv
  <1> QED BY <1>2, <1>3, <1>4, LossStep

\* softbus_auth_retry_due gives up, or repeats the last message.
Retried(r, a) ==
  /\ r.auth \in Auths /\ SameEnd(a, r.auth) /\ r.auth.keys = a.keys
  /\ \/ r.out = <<>> /\ r.auth.state = "FAILED" /\ r.auth.awaiting_reply = FALSE
     \/ /\ r.out = <<a.last>> /\ r.auth.state = a.state /\ r.auth.last = a.last
        /\ r.auth.peer_device_id = a.peer_device_id
        /\ r.auth.awaiting_reply = a.awaiting_reply

\* retry_due.
LEMMA RetryFields ==
  ASSUME NEW a \in Auths
  PROVE  Retried(retry_due(a), a)
  <1>1. CASE a.retry_count >= SOFTBUS_AUTH_RETRIES
    <2> DEFINE b == fail(a)
    <2>1. /\ b \in Auths /\ SameEnd(a, b) /\ b.state = "FAILED" /\ b.awaiting_reply = FALSE
          /\ b.keys = a.keys
          /\ retry_due(a) = [auth |-> b, out |-> <<>>, complete |-> FALSE]
      BY <1>1, FailFields DEF retry_due
    <2> HIDE DEF b
    <2> QED BY <2>1 DEF Retried
  <1>2. CASE ~(a.retry_count >= SOFTBUS_AUTH_RETRIES)
    <2> DEFINE b == [a EXCEPT !.retry_count = a.retry_count + 1]
    <2>1. a.retry_count + 1 \in 0 .. SOFTBUS_AUTH_RETRIES
      BY <1>2, ControlAssumption DEF Auths
    <2>2. b \in Auths
      BY <2>1 DEF Auths
    <2>3. /\ SameEnd(a, b) /\ b.keys = a.keys /\ b.state = a.state /\ b.last = a.last
          /\ b.peer_device_id = a.peer_device_id /\ b.awaiting_reply = a.awaiting_reply
      BY DEF Auths, SameEnd
    <2>4. retry_due(a) = [auth |-> b, out |-> <<a.last>>, complete |-> FALSE]
      BY <1>2 DEF retry_due, Auths
    <2> HIDE DEF b
    <2> QED BY <2>2, <2>3, <2>4 DEF Retried
  <1> QED BY <1>1, <1>2

\* What the daemon repeats, and what the phone repeats, does no harm.
LEMMA RetryExchange ==
  ASSUME NEW D \in Auths, NEW P \in Auths, NEW SD, NEW SP, Exchange(D, P, SD, SP), NEW r
  PROVE  /\ Retried(r, D) /\ D.state # "DONE" /\ D.awaiting_reply /\ D.is_active =>
              /\ r.auth.is_active /\ r.out \in Seq(Messages)
              /\ Exchange(r.auth, P, SD, SP \cup Frames(r.out)) /\ Input \notin Frames(r.out)
         /\ Retried(r, P) /\ P.state # "DONE" /\ P.awaiting_reply =>
              /\ r.out \in Seq(Messages)
              /\ Exchange(D, r.auth, SD \cup Frames(r.out), SP)
              /\ Dmsdp("RESPONSE", 1) \notin Frames(r.out)
  <1>1. ASSUME Retried(r, D), D.state # "DONE", D.awaiting_reply, D.is_active
        PROVE  /\ r.auth.is_active /\ r.out \in Seq(Messages)
               /\ Exchange(r.auth, P, SD, SP \cup Frames(r.out)) /\ Input \notin Frames(r.out)
    <2>1. /\ DaemonPart(D) /\ D.last \in Messages
          /\ D.last.kind \in {"SYNC_NEGOTIATION", "DEVICE_AUTH"}
          /\ D.last.kind = "DEVICE_AUTH" => D.last.deviceId = "daemon"
      BY <1>1 DEF Exchange, DaemonPart
    <2>2. r.auth.is_active
      BY <1>1 DEF Retried, SameEnd
    <2>3. r.out \in Seq(Messages) /\ Frames(r.out) \subseteq {D.last}
      BY <1>1, <2>1, FramesOfOne, FramesOfNone DEF Retried
    <2>4. r.auth.state # "DONE" /\ DaemonPart(r.auth)
      <3>1. CASE r.auth.state = "FAILED" /\ r.auth.awaiting_reply = FALSE
        BY <2>2, <3>1 DEF DaemonPart
      <3>2. CASE /\ r.auth.state = D.state /\ r.auth.last = D.last
                 /\ r.auth.peer_device_id = D.peer_device_id
        BY <1>1, <2>1, <2>2, <3>2 DEF DaemonPart
      <3> QED BY <1>1, <3>1, <3>2 DEF Retried
    <2>5. \A x \in SP \cup Frames(r.out) : x \in SP \/ ToPhone(x, r.auth, P)
      BY <2>1, <2>3 DEF ToPhone
    <2>6. Exchange(r.auth, P, SD, SP \cup Frames(r.out))
      BY <1>1, <2>4, <2>5, DaemonMoves
    <2>7. Input \notin Frames(r.out)
      BY <2>1, <2>3 DEF Input
    <2> QED BY <2>2, <2>3, <2>6, <2>7
  <1>2. ASSUME Retried(r, P), P.state # "DONE", P.awaiting_reply
        PROVE  /\ r.out \in Seq(Messages)
               /\ Exchange(D, r.auth, SD \cup Frames(r.out), SP)
               /\ Dmsdp("RESPONSE", 1) \notin Frames(r.out)
    <2>1. /\ PhonePart(P) /\ P.last \in Messages /\ P.last.kind \in AuthKinds
          /\ ToDaemon(P.last, P)
      BY <1>2 DEF Exchange
    <2>2. r.auth.psk = P.psk /\ r.auth.keys = P.keys /\ r.auth.is_active = P.is_active
      BY <1>2 DEF Retried, SameEnd
    <2>3. r.out \in Seq(Messages) /\ Frames(r.out) \subseteq {P.last}
      BY <1>2, <2>1, FramesOfOne, FramesOfNone DEF Retried
    <2>4. ToDaemon(P.last, r.auth)
      BY <2>1, <2>2 DEF ToDaemon, Shared
    <2>5. r.auth.state # "DONE" /\ PhonePart(r.auth) /\ Repeats(r.auth)
      <3>1. CASE r.auth.state = "FAILED" /\ r.auth.awaiting_reply = FALSE
        BY <2>1, <2>2, <3>1 DEF PhonePart, Repeats, Shared
      <3>2. CASE r.auth.state = P.state /\ r.auth.last = P.last
        BY <1>2, <2>1, <2>2, <2>4, <3>2 DEF PhonePart, Repeats, Shared
      <3> QED BY <1>2, <3>1, <3>2 DEF Retried
    <2>6. \A x \in SD \cup Frames(r.out) : x \in SD \/ ToDaemon(x, r.auth)
      BY <2>3, <2>4
    <2>7. Exchange(D, r.auth, SD \cup Frames(r.out), SP)
      BY <1>2, <2>2, <2>5, <2>6, PhoneMoves
    <2>8. Dmsdp("RESPONSE", 1) \notin Frames(r.out)
      BY <2>1, <2>3 DEF Dmsdp, AuthKinds
    <2> QED BY <2>3, <2>7, <2>8
  <1> QED BY <1>1, <1>2

\* Retry keeps the invariant.
LEMMA RetryStep ==
  ASSUME ControlInv, NEW s \in Sessions, NEW e \in Ends, Retry(s, e)
  PROVE  ControlInv'
  <1> DEFINE D == auth[s]["daemon"]
             P == auth[s]["phone"]
             qd == ch[s]["daemon"]
             qp == ch[s]["phone"]
             r == retry_due(auth[s][e])
  <1>1. TypeInv /\ SessionInv(s) /\ ClientInv /\ Handles(s)
    BY DEF ControlInv
  <1>2. /\ D \in Auths /\ P \in Auths /\ qd \in Seq(Messages) /\ qp \in Seq(Messages)
    BY <1>1, Here
  <1>3. /\ env.retries # {} /\ link[s] = "open"
        /\ auth[s][e].state # "DONE" /\ auth[s][e].awaiting_reply
        /\ auth' = [auth EXCEPT ![s][e] = r.auth]
        /\ ch' = [ch EXCEPT ![s][Other(e)] = @ \o r.out]
        /\ env' = env /\ link' = link /\ server' = server /\ client' = client
        /\ dmsdp_ready' = dmsdp_ready /\ dmsdp_failed' = dmsdp_failed /\ pump' = pump
    BY DEF Retry
  <1>4. D.is_active /\ Exchange(D, P, Frames(qd), Frames(qp))
    BY <1>1, <1>3 DEF SessionInv
  <1>5. auth[s][e] \in Auths /\ Retried(r, auth[s][e])
    <2>1. auth[s][e] \in Auths
      BY <1>1 DEF TypeInv
    <2> QED BY <2>1, RetryFields
  <1> HIDE DEF r
  <1>6. r.auth \in Auths
    BY <1>5 DEF Retried
  <1>7. /\ auth' \in [Sessions -> [Ends -> Auths]]
        /\ auth'[s][e] = r.auth /\ auth'[s][Other(e)] = auth[s][Other(e)]
        /\ \A t \in Sessions \ {s} : auth'[t] = auth[t]
    BY <1>1, <1>3, <1>6, AuthReplaced
  <1>8. ASSUME r.out \in Seq(Messages)
        PROVE  /\ ch' \in [Sessions -> [Ends -> Seq(Messages)]]
               /\ ch'[s][e] = ch[s][e] /\ ch'[s][Other(e)] = ch[s][Other(e)] \o r.out
               /\ \A t \in Sessions \ {s} : ch'[t] = ch[t]
    <2>1. ch \in [Sessions -> [Ends -> Seq(Messages)]]
      BY <1>1 DEF TypeInv
    <2>2. Other(e) \in Ends /\ Other(e) # e
      BY DEF Other, Ends
    <2>3. ch[s][Other(e)] \o r.out \in Seq(Messages)
      BY <1>8, <2>1, <2>2
    <2> QED BY <1>3, <2>1, <2>2, <2>3
  <1>9. \A x \in Frames(qd) : x = Dmsdp("RESPONSE", 1) => server'[s].state = "READY"
    BY <1>1, <1>3 DEF SessionInv, Answered
  <1>10. /\ r.out \in Seq(Messages) /\ SessionInv(s)'
         /\ (InputSent(s)' => InputSent(s))
    <2>1. CASE e = "daemon"
      <3> DEFINE qp2 == qp \o r.out
      <3>1. /\ r.auth.is_active /\ r.out \in Seq(Messages)
            /\ Exchange(r.auth, P, Frames(qd), Frames(qp) \cup Frames(r.out))
            /\ Input \notin Frames(r.out)
        <4>1. Retried(r, D) /\ D.state # "DONE" /\ D.awaiting_reply
          BY <1>3, <1>5, <2>1
        <4> HIDE DEF D, P, qd, qp
        <4> QED BY <1>2, <1>4, <4>1, RetryExchange
      <3>2. Frames(qp2) = Frames(qp) \cup Frames(r.out)
        <4> HIDE DEF qp
        <4> QED BY <1>2, <3>1, FramesOfQueues
      <3>3. /\ auth'[s]["daemon"] = r.auth /\ auth'[s]["phone"] = P
            /\ ch'[s]["daemon"] = qd /\ ch'[s]["phone"] = qp2
        BY <1>7, <1>8, <2>1, <3>1 DEF Other
      <3>4. Exchange(r.auth, P, Frames(qd), Frames(qp2))
        BY <3>1, <3>2
      <3>5. link'[s] # "none"
        BY <1>3
      <3>6. InputSent(s)' => InputSent(s)
        <4>1. Input \in Frames(ch'[s]["phone"]) => Input \in Frames(qp)
          BY <3>1, <3>2, <3>3
        <4> QED BY <1>3, <4>1 DEF InputSent, Frames
      <3> HIDE DEF D, P, qd, qp, qp2
      <3>7. SessionInv(s)'
        BY <1>3, <1>9, <3>1, <3>3, <3>4, <3>5, SessionNow
      <3> QED BY <3>1, <3>6, <3>7
    <2>2. CASE e = "phone"
      <3> DEFINE qd2 == qd \o r.out
      <3>1. /\ r.out \in Seq(Messages)
            /\ Exchange(D, r.auth, Frames(qd) \cup Frames(r.out), Frames(qp))
            /\ Dmsdp("RESPONSE", 1) \notin Frames(r.out)
        <4>1. Retried(r, P) /\ P.state # "DONE" /\ P.awaiting_reply
          BY <1>3, <1>5, <2>2
        <4> HIDE DEF D, P, qd, qp
        <4> QED BY <1>2, <1>4, <4>1, RetryExchange
      <3>2. Frames(qd2) = Frames(qd) \cup Frames(r.out)
        <4> HIDE DEF qd
        <4> QED BY <1>2, <3>1, FramesOfQueues
      <3>3. /\ auth'[s]["daemon"] = D /\ auth'[s]["phone"] = r.auth
            /\ ch'[s]["daemon"] = qd2 /\ ch'[s]["phone"] = qp
        BY <1>7, <1>8, <2>2, <3>1 DEF Other
      <3>4. Exchange(D, r.auth, Frames(qd2), Frames(qp))
        BY <3>1, <3>2
      <3>5. link'[s] # "none"
        BY <1>3
      <3>6. InputSent(s)' => InputSent(s)
        BY <1>3, <3>3 DEF InputSent
      <3>7. \A x \in Frames(qd2) : x = Dmsdp("RESPONSE", 1) => server'[s].state = "READY"
        BY <1>9, <3>1, <3>2
      <3> HIDE DEF D, P, qd, qp, qd2
      <3>8. SessionInv(s)'
        BY <1>3, <1>4, <3>3, <3>4, <3>5, <3>7, SessionNow
      <3> QED BY <3>1, <3>6, <3>8
    <2> QED BY <2>1, <2>2 DEF Ends
  <1>11. Only(s)
    BY <1>3, <1>7, <1>8, <1>10 DEF Only
  <1>12. ClientInv'
    <2>1. Waits(client') /\ link'[s] # "none"
      BY <1>1, <1>3 DEF ClientInv, Waits
    <2> QED BY <1>1, <1>3, <1>10, <1>11, <2>1, ClientStep
  <1>13. TypeInv'
    BY <1>1, <1>3, <1>7, <1>8, <1>10 DEF TypeInv
  <1>14. \A t \in Sessions : SessionInv(t)' /\ Handles(t)'
    <2>1. D.state = "DONE" => auth'[s]["daemon"].state = "DONE"
      BY <1>3, <1>7 DEF Other, Ends
    <2>2. Handles(s)'
      BY <1>1, <1>3, <2>1, HandlesKept
    <2> QED BY <1>10, <1>11, <2>2, Others DEF ControlInv
  <1> QED BY <1>12, <1>13, <1>14 DEF ControlInv

\* The initial states.
LEMMA InitControlInv == Init => ControlInv
  <1> SUFFICES ASSUME Init PROVE ControlInv
    OBVIOUS
  <1>1. PICK psk \in [Sessions -> Psks], version \in [Sessions -> Versions] :
          auth = [s \in Sessions |->
                   [e \in Ends |-> IF e = "daemon" THEN NewAuth(s, e, "psk", "v1")
                                   ELSE NewAuth(s, e, psk[s], version[s])]]
    BY DEF Init
  <1>2. /\ env \in Environments /\ link = [s \in Sessions |-> "none"]
        /\ ch = [s \in Sessions |-> [e \in Ends |-> <<>>]]
        /\ client = NoClient /\ dmsdp_ready = FALSE /\ dmsdp_failed = FALSE
        /\ pump = [s \in Sessions |-> Idle]
        /\ server = [s \in Sessions |->
                      [state |-> "INIT", inputs |-> 0, echoes |-> 0, extras |-> 0]]
    BY DEF Init
  <1>3. ASSUME NEW s \in Sessions, NEW e \in Ends, NEW p \in Psks, NEW v \in Versions
        PROVE  LET a == NewAuth(s, e, p, v)
               IN /\ a \in Auths /\ a.state = "IDLE" /\ a.is_active = FALSE
                  /\ a.awaiting_reply = FALSE /\ a.keys = NoKeys
    <2>1. <<e, s>> \in Ids /\ 0 \in 0 .. SOFTBUS_AUTH_RETRIES
      BY ControlAssumption DEF Ids
    <2> QED BY <2>1 DEF NewAuth, Auths, AuthStates
  <1>4. ASSUME NEW s \in Sessions, NEW e \in Ends
        PROVE  /\ auth[s][e] \in Auths /\ auth[s][e].state = "IDLE"
               /\ auth[s][e].is_active = FALSE /\ auth[s][e].awaiting_reply = FALSE
               /\ auth[s][e].keys = NoKeys
    <2>1. PICK p \in Psks, v \in Versions : auth[s][e] = NewAuth(s, e, p, v)
      BY <1>1 DEF Psks, Versions
    <2> DEFINE a == NewAuth(s, e, p, v)
    <2>2. /\ a \in Auths /\ a.state = "IDLE" /\ a.is_active = FALSE
          /\ a.awaiting_reply = FALSE /\ a.keys = NoKeys
      BY <1>3
    <2> HIDE DEF a
    <2>3. auth[s][e] = a
      BY <2>1 DEF a
    <2> QED BY <2>2, <2>3
  <1>5. auth \in [Sessions -> [Ends -> Auths]]
    BY <1>1, <1>4
  <1>6. client \in Clients /\ client.state = "NONE"
    BY <1>2 DEF NoClient, Clients
  <1>7. server \in [Sessions -> Servers]
    BY <1>2 DEF Servers
  <1>8. ch \in [Sessions -> [Ends -> Seq(Messages)]]
    BY <1>2, FramesOfNone
  <1>9. TypeInv
    <2>1. Idle \in Pumps
      BY DEF Idle, Pumps
    <2> QED BY <1>2, <1>5, <1>6, <1>7, <1>8, <2>1 DEF TypeInv
  <1>10. ASSUME NEW s \in Sessions PROVE SessionInv(s) /\ ~InputSent(s)
    <2> DEFINE D == auth[s]["daemon"]
               P == auth[s]["phone"]
    <2>1. ch[s]["daemon"] = <<>> /\ ch[s]["phone"] = <<>>
      BY <1>2 DEF Ends
    <2>2. Frames(ch[s]["daemon"]) = {} /\ Frames(ch[s]["phone"]) = {}
      BY <2>1, FramesOfNone
    <2>3. /\ D.state = "IDLE" /\ P.state = "IDLE" /\ P.is_active = FALSE
          /\ D.awaiting_reply = FALSE /\ P.awaiting_reply = FALSE /\ P.keys = NoKeys
      <3>1. "daemon" \in Ends /\ "phone" \in Ends
        BY DEF Ends
      <3> QED BY <1>4, <3>1
    <2>4. link[s] = "none" /\ server[s].inputs = 0
      BY <1>2
    <2>5. Exchange(D, P, {}, {})
      <3> HIDE DEF D, P
      <3>1. DaemonPart(D) /\ PhonePart(P)
        BY <2>3 DEF DaemonPart, PhonePart
      <3> QED BY <2>3, <3>1 DEF Exchange
    <2>6. Exchange(D, P, Frames(ch[s]["daemon"]), Frames(ch[s]["phone"]))
      BY <2>2, <2>5
    <2>7. SessionInv(s)
      <3>1. Answered(s)
        BY <2>2 DEF Answered
      <3> QED BY <2>1, <2>3, <2>4, <2>6, <3>1 DEF SessionInv
    <2>8. ~InputSent(s)
      <3>1. Input \notin Frames(ch[s]["phone"])
        BY <2>2
      <3>2. InputSent(s) <=> server[s].inputs > 0 \/ Input \in Frames(ch[s]["phone"])
        BY DEF InputSent, Frames
      <3> QED BY <2>4, <3>1, <3>2
    <2> QED BY <2>7, <2>8
  <1>11. ClientInv
    BY <1>6, <1>10 DEF ClientInv
  <1>12. ASSUME NEW s \in Sessions PROVE Handles(s)
    <2>1. pump[s].at = "idle" /\ pump[s].m = NoMessage
      BY <1>2 DEF Idle
    <2>2. NoMessage.kind = "none" /\ Dmsdp("RESPONSE", 1).kind = "RESPONSE"
      BY DEF NoMessage, Dmsdp
    <2> QED BY <2>1, <2>2 DEF Handles
  <1> QED BY <1>9, <1>10, <1>11, <1>12 DEF ControlInv

\* Every step keeps the invariant.
LEMMA ControlStep ==
  ASSUME ControlInv, [Next]_vars
  PROVE  ControlInv'
  <1>1. CASE UNCHANGED vars
    <2>1. TypeInv' /\ ClientInv'
      BY <1>1 DEF vars, ControlInv, TypeInv, ClientInv, Alone, InputSent
    <2>2. ASSUME NEW s \in Sessions PROVE SessionInv(s)' /\ Handles(s)'
      <3>1. SessionInv(s) /\ Handles(s)
        BY DEF ControlInv
      <3> QED BY <1>1, <3>1 DEF vars, SessionInv, Answered, Handles
    <2> QED BY <2>1, <2>2 DEF ControlInv
  <1>2. CASE Next
    <2>1. CASE \E s \in Sessions : on_session_opened(s)
      BY <2>1, OpenedStep
    <2>2. CASE \E s \in Sessions : SessionAuth(s)
      BY <2>2, SessionAuthStep
    <2>3. CASE \E s \in Sessions : SessionControl(s)
      BY <2>3, SessionControlStep
    <2>4. CASE \E s \in Sessions : SessionEcho(s)
      BY <2>4, SessionEchoStep
    <2>5. CASE \E s \in Sessions : PhoneAuth(s)
      BY <2>5, PhoneAuthStep
    <2>6. CASE \E s \in Sessions : PhoneControl(s)
      BY <2>6, PhoneControlStep
    <2>7. CASE \E s \in Sessions, m \in {Dmsdp("RESPONSE", 1), Dmsdp("TEARDOWN", 7)} :
                 PhoneExtra(s, m)
      BY <2>7, PhoneExtraStep
    <2>8. CASE \E s \in Sessions, e \in Ends : Retry(s, e)
      BY <2>8, RetryStep
    <2>9. CASE \E s \in Sessions : PhoneCloses(s)
      BY <2>9, PhoneClosesStep
    <2>10. CASE \E s \in Sessions : on_session_closed(s)
      BY <2>10, ClosedStep
    <2>11. CASE \E s \in Sessions, sent \in BOOLEAN :
                  dmsdp_send_setup(s, sent) \/ SendPlay(s, sent)
      <3>1. PICK s \in Sessions, sent \in BOOLEAN :
              dmsdp_send_setup(s, sent) \/ SendPlay(s, sent)
        BY <2>11
      <3>2. CASE dmsdp_send_setup(s, sent)
        BY <3>2, HandlerMessages, RequestStep DEF dmsdp_send_setup
      <3>3. CASE SendPlay(s, sent)
        BY <3>3, HandlerMessages, RequestStep DEF SendPlay
      <3> QED BY <3>1, <3>2, <3>3
    <2>12. CASE \E s \in Sessions : ReplyFed(s)
      BY <2>12, ReplyFedStep
    <2>13. CASE \E s \in Sessions, sent \in BOOLEAN :
                  ReplyAsksPlay(s) \/ ReplyReady(s, sent) \/ ReplyConsumed(s)
      BY <2>13, ReplyStep
    <2> QED
      BY <1>2, <2>1, <2>2, <2>3, <2>4, <2>5, <2>6, <2>7, <2>8, <2>9, <2>10, <2>11, <2>12, <2>13
      DEF Next
  <1> QED BY <1>1, <1>2

-----------------------------------------------------------------------------
(***************************************************************************)
(* What the invariant says of the session.                                 *)
(***************************************************************************)

\* The invariant holds in every reachable state, for any number of sessions,
\* any retry budget and any environment.
THEOREM ControlInvariant == Spec => []ControlInv
  <1>1. ControlInv /\ [Next]_vars => ControlInv'
    BY ControlStep
  <1> QED BY InitControlInv, <1>1, PTL DEF Spec

\* The exchanges, the connections and the client are well typed.
THEOREM ControlTypeCorrect == Spec => []TypeOK
  <1>1. ControlInv => TypeOK
    <2> SUFFICES ASSUME ControlInv PROVE TypeOK
      OBVIOUS
    <2>1. TypeInv
      BY DEF ControlInv
    <2>2. ASSUME NEW s \in Sessions, NEW e \in Ends
          PROVE  /\ auth[s][e].state \in AuthStates
                 /\ auth[s][e].is_active \in BOOLEAN /\ auth[s][e].awaiting_reply \in BOOLEAN
                 /\ auth[s][e].retry_count \in 0 .. SOFTBUS_AUTH_RETRIES
                 /\ auth[s][e].peer_device_id \in Ends \cup {"none"}
      BY <2>1 DEF TypeInv, Auths
    <2>3. ASSUME NEW s \in Sessions, NEW e \in Ends, NEW i \in DOMAIN ch[s][e]
          PROVE  ch[s][e][i].kind \in AuthKinds \cup DmsdpKinds \cup {"PING", "INPUT"}
      <3>1. ch[s][e][i] \in Messages
        BY <2>1 DEF TypeInv
      <3> QED BY <3>1, MessageFields
    <2>4. /\ link \in [Sessions -> {"none", "open", "closed", "gone"}]
          /\ client.state \in {"NONE", "INIT", "WAIT_SETUP_REPLY", "SEND_PLAY",
                               "WAIT_PLAY_REPLY", "READY", "ERROR"}
          /\ client.pending_cseq \in 0 .. 1
      BY <2>1 DEF TypeInv, Clients
    <2>5. dmsdp_ready \in BOOLEAN /\ dmsdp_failed \in BOOLEAN
      BY <2>1 DEF TypeInv
    <2>6. \A s \in Sessions : /\ pump[s].at \in {"idle", "setup", "recv", "reply", "play"}
                               /\ server[s].state \in {"INIT", "WAIT_PLAY", "READY"}
      BY <2>1 DEF TypeInv, Servers, Pumps
    <2> QED BY <2>2, <2>3, <2>4, <2>5, <2>6 DEF TypeOK
  <1> QED BY ControlInvariant, <1>1, PTL

\* An end that reports AUTH COMPLETE has proved the other's secret and holds
\* the same keys; the phone does so only after the daemon has
\* (softbus_auth_feed).
THEOREM DoneIsMutualHolds == Spec => []DoneIsMutual
  <1>1. ControlInv => DoneIsMutual
    <2> SUFFICES ASSUME ControlInv, NEW s \in Sessions, NEW e \in Ends,
                        auth[s][e].state = "DONE"
                 PROVE  /\ auth[s][e].keys # NoKeys
                        /\ auth[s][e].keys = auth[s][Other(e)].keys
                        /\ auth[s][e].psk = auth[s][Other(e)].psk
                        /\ e = "phone" => auth[s]["daemon"].state = "DONE"
      BY DEF DoneIsMutual
    <2> DEFINE D == auth[s]["daemon"]
               P == auth[s]["phone"]
    <2>1. Exchange(D, P, Frames(ch[s]["daemon"]), Frames(ch[s]["phone"]))
      BY DEF ControlInv, SessionInv
    <2>2. e = "daemon" \/ e = "phone"
      BY DEF Ends
    <2>3. D.state = "DONE" \/ P.state = "DONE"
      BY <2>2
    <2> HIDE DEF D, P
    <2>4. D.state = "DONE" /\ D.keys = P.keys /\ P.keys = Shared(P) /\ D.psk = P.psk
      BY <2>1, <2>3 DEF Exchange
    <2>5. P.keys # NoKeys
      BY <2>4 DEF Shared, derive_keys, NoKeys
    <2> QED BY <2>2, <2>4, <2>5 DEF Other, D, P
  <1> QED BY ControlInvariant, <1>1, PTL

\* Where nobody retries, no frame of the control protocol meets an end that is
\* still authenticating (on_session_data).
THEOREM ControlAfterAuthHolds == Spec => []ControlAfterAuth
  <1>1. ControlInv => ControlAfterAuth
    <2> SUFFICES ASSUME ControlInv, NEW s \in Sessions, NEW e \in Ends,
                        env.retries = {}, link[s] = "open", ch[s][e] # <<>>,
                        Head(ch[s][e]).kind \notin AuthKinds
                 PROVE  auth[s][e].state = "DONE"
      BY DEF ControlAfterAuth
    <2> DEFINE D == auth[s]["daemon"]
               P == auth[s]["phone"]
               qd == ch[s]["daemon"]
               qp == ch[s]["phone"]
    <2>1. Exchange(D, P, Frames(qd), Frames(qp)) /\ Phases(D, P, qd, qp)
      BY DEF ControlInv, SessionInv
    <2>2. qd \in Seq(Messages) /\ qp \in Seq(Messages)
      BY Here DEF ControlInv
    <2>3. CASE e = "daemon"
      <3>1. qd # <<>> /\ Head(qd).kind \notin AuthKinds
        BY <2>3
      <3> HIDE DEF D, P, qd, qp
      <3>2. Head(qd) \in Frames(qd)
        BY <2>2, <3>1, FramesOfQueues
      <3>3. D.state = "DONE"
        BY <2>1, <3>1, <3>2 DEF Exchange, ToDaemon
      <3> QED BY <2>3, <3>3 DEF D
    <2>4. CASE e = "phone"
      <3>1. qp # <<>> /\ Head(qp).kind \notin AuthKinds
        BY <2>4
      <3> HIDE DEF D, P, qd, qp
      <3>2. P.state = "DONE"
        BY <2>1, <2>2, <3>1 DEF Phases, Single, AuthKinds
      <3> QED BY <2>4, <3>2 DEF P
    <2> QED BY <2>3, <2>4 DEF Ends
  <1> QED BY ControlInvariant, <1>1, PTL

\* On the only session of the daemon the input sequence is sent to a phone
\* that has answered the PLAY (dmsdp_handle_reply).
THEOREM InputAfterPlayHolds == Spec => []InputAfterPlay
  <1>1. ControlInv => InputAfterPlay
    BY DEF ControlInv, ClientInv, InputAfterPlay
  <1> QED BY ControlInvariant, <1>1, PTL
=============================================================================
