# Verification of hwphonelinkd

TLA+ models, TLC configurations and TLAPS proofs for `hwphonelinkd`, a daemon
that lets a PC take the place of the screen, the file drop and the input device
of a Huawei phone. Paths below are relative to the root that holds `src/`; the
program's own sources are under `src/src/`, its tests under `src/tests/`
(`mock_phone.c` is the phone the tests use).

## 1. Inventory

A phone discovers the daemon over the LAN (or over a SoftAP/P2P network the
daemon creates), opens a TCP connection and goes through these stages:

1. **Session** — `infra_backend.c` accepts the connection and wraps it in a
   `SoftbusSession` with a pump thread of its own (`softbus_session.c`).
2. **Authentication** — `softbus_auth.c`, driven by the callbacks of `main.c`.
3. **Control** — `dmsdp.c`: SETUP, PLAY, then the sequence of input events.
4. **Files** — `dfile_conn.c`: transfers in both directions over one further
   TCP connection.
5. **Streams** — `fillp_conn.c` (reliable delivery over UDP) and
   `stream_file.c` (a file in encrypted frames on top of it), each end sending
   and receiving.

| Component | State it keeps | Operations | Talks to |
|---|---|---|---|
| fillp data plane (`fillp_conn.c`) | transmit queue, inflight list, packet counters, out-of-order table, acknowledgement timers | `fp_pump`, `fp_on_data`, `fp_on_pack`, `fp_on_nack` | the other engine by UDP; the application by fill, data and tx-complete callbacks |
| fillp sessions (`fillp_conn.c`) | table of peers, state of each, stage timers | handshake handlers, `fp_on_tick`, close, finalize, `fillp_engine_connect` | `main.c` by callbacks on the engine thread and calls from the main thread |
| Stream files (`stream_file.c`, `main.c`) | send and receive state, offsets, the phase's flags, attempts | `sf_fill`, `sf_process_frame`, `sf_fail`, `stream_connect`, `on_stream_*` | fillp |
| DFile (`dfile_conn.c`) | connection state, one sending and one receiving transfer with phases and sequence numbers, retransmit lists | one handler per frame type, `on_tick`, `send_files_impl`, `dfile_conn_close` | the other engine by TCP; `main.c` by callbacks on the engine thread |
| Sessions and backend (`softbus_session.c`, `infra_backend.c`) | references, pump threads, list of sessions, transport state | accept loop, pump, closed callback, start, stop, finalize | three kinds of threads over shared state |
| Authentication (`softbus_auth.c`) | FSM state, ids, nonces, keys, last message, retries | `softbus_auth_begin_active`, `softbus_auth_feed`, `softbus_auth_retry_due` | the other end over the session |
| Control (`dmsdp.c`, `main.c`) | one client for the daemon, ready and failed flags | `dmsdp_client_send`, `dmsdp_client_recv`, `on_session_*` | the phone's DMSDP server |
| Engine structures (`fillp_conn.c`, `dfile_conn.c`) | reference count, flags under a lock, the engine's thread, context and socket, the table of peers | new, start, connect, close, ref, unref, the thread's teardown | the application's threads; callbacks on the engine thread |
| Framing (`softbus_frame.c`, `softbus_session.c`, `dfile_conn.c`, `stream_file.c`) | receive buffer, sequence number, write mutex | send, pump, drain | TCP or fillp |
| SoftAP and P2P backends (`softap_backend.c`, `p2p_backend.c`), netlink (`netlink_utils.c`) | hostapd and its pid, dnsmasq, supplicant, firewall rules, interface, link cache | start and stop, step by step | the kernel and external programs |
| Transport base class (`wifi_transport.c`) | state, the backend | start, stop, finalize | the backends |
| Crypto, device identity, mirror player, test files, command line | none, or that of an external program | see `PROJECT.json` | not modelled, see section 8 |

**What is hard.** Datagrams that are lost, duplicated and reordered against
retransmission and acknowledgement timers; handshake messages of an abandoned
attempt that arrive in the next one; FIN against data in flight; transfers in
both directions that share one connection and its failures; engine threads,
pump threads, an accept loop and a main thread over shared structures, each of
which may hold the last reference; one global DMSDP client for all sessions;
byte streams cut anywhere; an access point made of external programs, any of
which may fail after the others have started. `PROJECT.json` lists 40 such places at
their lines under `hazards`, with the properties that cover them.

**What makes it correct.** For each stage: a success one end reports is true at
the other end (`CompleteIsDelivered`, `TxOkMeansAcked`, `SentMeansVerified`,
`DoneIsMutual`); nothing is released, acknowledged or closed too early
(`ReleasedIsDelivered`, `AckedIsWritten`, `FinMeansDelivered`,
`HoldersHaveReferences`, `NoUseAfterEnd`); each outcome is reported once
(`OneVerdict`, `OneResult`, `ClosedOnce`); what was set up is taken down
(`FreedWhenUnused`, `StopUndoesStart`); and each stage ends (`StreamCompletes`,
`PhaseEndsUnlessLost`, `TransfersEnd`, `ShutdownEnds`, `CloseEnds`,
`SessionSettles`, `FramesArrive`).

## 2. Modules

| Module | Models | Builds on |
|---|---|---|
| `FillpStream` | what one direction of fillp promises | – |
| `FillpData` | one direction of an established fillp connection | – |
| `MCFillpData` | instance; states that `FillpData` implements `FillpStream` | both |
| `FillpDataProofs` | theorems about `FillpData`, and that it implements `FillpStream` | `MCFillpData` |
| `StreamSession`, `MCStreamSession` | composition of fillp sessions, `stream_file.c` and the stream phase of `main.c` | – |
| `StreamSessionProofs` | theorems about `StreamSession` | `StreamSession` |
| `FileTransfer` | what a DFile transfer promises the two applications | – |
| `DFile`, `MCDFile` | both DFile engines and the applications that start transfers; states that they implement `FileTransfer` each way | `FileTransfer` |
| `DFileProofs` | theorems about `DFile`, and that it implements `FileTransfer` | `DFile` |
| `EngineLife`, `MCEngineLife` | life of a fillp engine or a DFile connection: structure, thread, references | – |
| `EngineLifeProofs` | theorems about `EngineLife` | `EngineLife` |
| `SessionBackend` | accept loop, pumps, start, stop, finalize: `infra_backend.c`, `softbus_session.c` | – |
| `SessionBackendProofs` | theorems about `SessionBackend` | `SessionBackend` |
| `SoftAp` | start and stop of `softap_backend.c` and `p2p_backend.c`, with `netlink_utils.c` | – |
| `Transport` | `wifi_transport.c`: one of the three backends | `SessionBackend`, `SoftAp` |
| `TransportProofs` | theorems about `Transport` | `Transport`, `SessionBackendProofs` |
| `FrameStream`, `MCFrameStream` | frames cut out of a byte stream by sessions, DFile connections and streamed files | – |
| `FrameStreamProofs` | theorems about `FrameStream` | `FrameStream` |
| `ControlSession`, `MCControlSession` | composition of authentication, DMSDP client and the callbacks of `main.c` | – |
| `ControlSessionProofs` | theorems about `ControlSession` | `ControlSession` |

Definitions keep the names of the functions they model; the file of each and
its lines are in `PROJECT.json` under `map`. In every module timers are
choices: whether a timeout has passed when the code looks at the clock is an
argument of the action, so a timer can expire at any tick.

**FillpData.** Data is counted in packets. `SenderTick` is the sending half of
`fp_pump` (fill callback, stall retransmission, burst, completion, in the
code's order), `fp_on_data` dispatches to duplicate, next and gap as the code
does. A datagram stays on the network when an action's `dup` argument says so,
`Lose` takes one away, and sets make the order irrelevant. The flush loop reads
a packet after the hash table has freed it; its outcomes are the intended one,
an abort, and the delivery of whatever the memory holds, which `mem` records.

**FillpStream.** A sender queues items, the receiver gets a growing prefix,
completion is reported after the last. `MCFillpData!ImplementsStream` maps
`queued`, `complete` and `fault` to `filled`, `tx_notified` and `mem`.

**StreamSession.** Both ends run the same engine; `peer`, `sf` and `app` are
functions of the end. `on_closed` and the removal of the key are two steps
(`removing`), since a connect of the main thread fits between them. The
network never forgets a handshake message, which gives delay and duplication;
loss is a message never delivered.

**DFile.** A handler is a function from one engine's record to the next, with
the frames it writes collected in `out`; `Receive` and `on_tick` apply it and
append the frames to the stream, as the engine thread does in one callback.
Failing local operations are named (`Faults`). A send on a socket that the
other end has shut down may crash the process (`CrashesOn`): `dc_send` stores
its error through the null pointer that its callers pass.

**FileTransfer.** One transfer as its two applications see it: offered, taken,
written block by block, verified, reported by the sender and then by the
receiver. The ends can disagree in one way only, that the sender succeeds and the
receiver does not learn of it. `DFile!ImplementsTransfer` maps a phase to what
has been reported (`Status`), `written` to `expected_seq` and `verified` to
`done_sent`, once for the files of each end.

**SessionBackend.** A step is what a thread does between two accesses to shared
state; a section under `sessions_mutex` is one step. `broken` records a use of
memory or of a thread handle that the thread does not own.

**EngineLife.** Both engines follow one scheme: a mutex, a thread with a main
context, a reference for the thread and one for the creator, a close that asks
the thread to end and a teardown by the thread itself. A step is a section
under the engine's lock or what the thread does between two of them; `pc` is
where the thread is, `invoked` the sources queued on its context. What differs
between the engines (a fillp engine finalizes its peers in `fp_shutdown`, a
DFile connection ends with its one peer) is the `kind` of the environment, which
also says which threads hold, close and connect. `misuse` records a use of the
structure, its context, its socket or a peer after its end.

**SoftAp, Transport.** Every step of start is an action and may fail; a failed
start returns and leaves what the earlier steps have made. Programs are what
the code knows of them: hostapd runs with a pid that was read or not, dnsmasq is a
child, the supplicant is a launcher that turns into a daemon, firewall commands
are shells nobody waits for (`shells`). `cache` is the link cache of the netlink
handle. `Transport` gives the state variables of the base class to whichever
backend the transport was created as. What `netlink_utils.c` asks of the kernel
it asks without an acknowledgement (line 48) and reads no answer to, so each
such request (`Netlink`) is carried out or not and start and stop go on either
way; `missed` is the history of those that had no effect, which the code does not
have. In `StopUndoesStart` and `ServicesOnInterface` it says what may be left or
lacking; `ApLeftovers` shows the same without that exception.

**FrameStream.** A frame is cells, of which the first tells its length; senders
write in pieces under the session's mutex, the receiver reads pieces of another
size and parses in the code's loop: pop, incomplete, corrupt. The answer to a
corrupt header is that of the stream: a session drops its buffer and goes on, a
DFile connection shuts down. Where there is noise the parser recognises every
byte that is not a frame's first; the code looks at magic, version and length
only (`softbus_frame.c:68`), so noise that imitates a header is left out.

**ControlSession.** A signature or a key is the tuple of what it is computed
from, so it verifies exactly when secret, nonces and identities agree. The
phone is the program of `tests/mock_phone.c`, plus unasked messages. The DMSDP
client is one for all sessions and has no lock, so a callback of the daemon is
cut where it calls the client: `pump` is what the callback of a session is about
to do and the frame it has taken, and between two calls another pump may feed
or replace the client. Taking a frame (`SessionControl`), `dmsdp_client_recv`
(`ReplyFed`), the look at the state that follows it (`ReplyAsksPlay`,
`ReplyReady`, `ReplyConsumed`) and the next request (`SendPlay`,
`dmsdp_send_setup`) are steps of their own. `streams` says whether a stream port
was given, without which no client is made (`main.c:405`). A send on a
connection that the phone has closed may fail and sets `dmsdp_failed`.

## 3. Runs

| Run | Question | Result |
|---|---|---|
| `FillpData` | Is delivery in order and exactly once under loss, duplication and reordering; does completion imply delivery; does the stream complete; does it implement `FillpStream`? | holds |
| `StreamSession` | Does what each end reports, and FIN, say the truth about the other end, over timeouts, retries and local failures? | holds |
| `StreamSessionLive` | Does the stream phase come to a verdict, except for the lost retry of finding 3, and for a first packet of the phone lost to a peer that is closing? | holds |
| `DFile` | Do results, acknowledgements and the order of blocks stay consistent when any timer may expire at any tick, sends fail, the phone closes and callbacks come late; does each direction implement `FileTransfer`? | holds |
| `DFileLive` | Do both transfers end: without the transfer timers when the network is all they wait for, and with them where local operations, or the sends of header, CONFIRM, REQ and DONE_ACK, may fail? | holds |
| `Transports` | Are a session's references and thread owned by one holder and reported; does shutdown end; does a stop undo a start that stopped anywhere, and do services run on a working interface, but for what the kernel refused unheard? | holds |
| `ControlSession` | Do finished exchanges agree, over retries and on two connections; where nobody retries, is control preceded by authentication, does an agreeing session settle, and does one end of a disagreeing one refuse; is input preceded by PLAY on the daemon's only session? | holds |
| `EngineLife` | Is an engine freed by the last holder, are peers reported once, is nothing used after its end, and does a close end the thread? | holds |
| `FrameStream` | Are whole frames handed on in order, their numbers growing, and does none wait in a buffer? | holds |
| `FillpFlush` | Does the flush stay within memory the program owns? | violated, finding 1 |
| `DFileAckLimit` | Do transfers end when an ACK frame cannot hold all files? | violated, finding 2 |
| `StreamOrphan` | Does every connect attempt come to an end? | violated, finding 3 |

`tlc -config X.cfg M` runs each; module and configuration are in
`PROJECT.json`. The longest, `DFile` and `ControlSession`, have 185,799 and
250,588 states and take two minutes each on two workers. Every property
has a mutant, a definition next to the one it replaces with a plausible mistake
in it, under which TLC finds the property violated. Each module states one `TypeOK`;
the run `DFile` checks the one that bounds the block numbers, and those of the
other modules hold in their passing runs when added to the configuration's
invariants.

### Findings

1. `fp_on_data` (`fillp_conn.c:473`) removes the packet from the out-of-order
   table, whose destroy function frees it, then reads and frees it again.
2. `rx_flush_ack` (`dfile_conn.c:661`) sends at most 39 entries and forgets the
   rest, while a transfer may hold 500 files. The run scales this to an ACK of
   one entry and two files. In the program the sender's timers then fail a
   transfer all of whose data has arrived.
3. `fp_peer_finalize` (`fillp_conn.c:239`) reports a peer closed before it
   removes the key; a reconnect from the main thread in between is removed with
   it, is never ticked again, and the stream phase hangs.

### Further configurations

These reproduce other comments of the code that the models do not confirm, or
uses of it that its callers have to avoid. TLC reports each property violated;
it stops at the first, so list one at a time when a configuration names several.
`FillpDataWide` is the exception: it passes (section 4).

| Configuration | Module | Property | Comment and code |
|---|---|---|---|
| `FillpOfoBytes` | `MCFillpData` | `OfoBytesExact` | `fillp_frame.h:188`; a packet buffered twice is counted twice, `fillp_conn.c:484` |
| `StreamLeave` | `MCStreamSession` | `TxOkMeansAcked`, `FinAfterDrain` | `stream_file.h:40`, `fillp_conn.h:24`; a close by the application sends FIN at once, `fillp_conn.c:258` |
| `StreamSendFails` | `MCStreamSession` | `FinMeansDelivered`, `TxOkMeansAcked` | a connect whose send fails queues a close, `fillp_conn.c:1048`; a CONFIRM_ACK of the attempt before it establishes the peer first, and the close sends FIN |
| `StreamPromises` | `MCStreamSession` | `CloseOfLivePeer` | `fillp_conn.h:138`; the queued close may run after the peer is freed, `fillp_conn.c:270` |
| | | `FirstPacketNotMissed` | `stream_file.c:382`; data that arrives before the callback is set, `fillp_conn.c:638` |
| `StreamReceiveOnly` | `MCStreamSession` | `FinIsAnswered` | an end with nothing to send never drains, `fillp_conn.c:601` |
| `StreamEmptyFile` | `MCStreamSession` | `ReceivedIsReported` | an empty file is not reported as received, `stream_file.c:287` |
| `DFilePromises` | `MCDFile` | `DuplicateIsHarmless` | `dfile_conn.c:925`; the phase check at 908 closes the connection first |
| | | `RstHitsItsTransfer` | `dfile_conn.h:12`; both ends number transfers from 1, `dfile_conn.c:1028` |
| | | `ErrorsAreReported` | `dfile_conn.h:22`; `dc_send` dereferences a null error pointer, `dfile_conn.c:224` |
| | | `CallbacksAreSet` | `dfile_conn.c:1406` |
| | | `PhaseIsOver` | `main.c:541` |
| `DFileResurrect` | `MCDFile` | `OneResult` | a failed send inside the tick fails a transfer that the same tick then revives, `dfile_conn.c:1102` |
| `SessionPromises` | `SessionBackend` | `ClosedIsReported` | `softbus_session.h:11`; the callback is set after the pump starts, `infra_backend.c:277` |
| | | `OpenedIsAlive` | `wifi_transport.c:126`; session-opened is emitted after the list entry can be gone, `infra_backend.c:283` |
| | | `StopReleases`, `StopWaitsForClosed` | `infra_backend.c:506`, `softbus_session.c:209` |
| `EngineLateStart` | `MCEngineLife` | `NoUseAfterEnd` | a transfer that ends while the main thread closes starts the stream phase on that engine, `main.c:544`, `main.c:808` |
| `EngineSlow` | `MCEngineLife` | `NoUseAfterEnd` | a connect or close whose caller is held up for longer than a timeout meets a freed peer, `fillp_conn.c:270`, `fillp_conn.c:1040` |
| `EngineCallbacks` | `MCEngineLife` | `NothingLeaks` | a connection that ends before its callbacks are set is never dropped, `dfile_conn.c:1406`, `main.c:555` |
| `EnginePreClosed` | `MCEngineLife` | `EveryPeerIsNotified` | `fillp_conn.h:104`; a DFile connection that ends before its callbacks are set |
| `ApLeftovers` | `Transport` | `StopEndsHostapd` | "Stop hostapd", `softap_backend.c`; its pid file is read at once, before hostapd has written it |
| | | `StopRemovesRules` | "Remove iptables rules"; the shells that add them are not waited for |
| | | `StopEndsSupplicant` | the launcher is ended, the daemon it has become is not, `p2p_backend.c` |
| | | `StopRemovesInterface` | "Delete AP interface"; the kernel may refuse and `softap_backend.c:378` goes on to STOPPED |
| | | `ServicesOnAddress` | "Set AP interface up", "Add IP address"; the kernel may refuse unheard, `netlink_utils.c:48`, and start goes on |
| | | `GoneLeavesNothing` | a start that fails is followed by no stop in `main.c` |
| | | `CreatedIsFound` | "Wait for interface to appear"; the cache is filled once, `netlink_utils.c:295` |
| `ApRestart` | `Transport` | `ServicesOnInterface` | a second start on one transport finds the first start's interface in the cache |
| `FrameTimeout` | `MCFrameStream` | `WholeFramesInOrder` | a write that fails within a frame leaves the stream out of step until the session is dropped |
| `ControlTwoSessions` | `MCControlSession` | `InputsFollowPlay` | `main.c:124`; one client for all sessions |
| `ControlReplies` | `MCControlSession` | `FurtherRepliesIgnored` | `dmsdp.h:207`; a reply after READY sends the input again, `main.c:321` |
| `ControlKeys` | `MCControlSession` | `FailedHasNoKeys` | `softbus_auth.h:79` |
| `ControlSilent` | `MCControlSession` | `AuthSettles` | `softbus_auth.h:72`; `main.c` never calls `softbus_auth_retry_due` |

## 4. Bounds

* `FillpData`: three packets with a window of two: the window closes, a packet
  is buffered behind a gap and flushed, and `FP_OFO_MAX_BYTES` 2 is reached by
  packets that arrive again. `FillpDataWide.cfg` checks the same properties with
  a window of three, where a flush takes two packets; there the window never
  keeps a packet back.
* `StreamSession`: one data frame after the metadata frame, two connect
  attempts, so that one attempt's messages reach the next. The daemon's file
  system may fail in the safety run; in the liveness run its file is empty.
* `DFile`: what the applications do and what may go wrong is a set of
  environments, chosen so that failures combine where they can meet: a file of
  two blocks and an empty file one way and one block the other, for a
  retransmission next to a new block and for two directions at once; one block
  each way where local operations, or the sends that open and close a transfer,
  may fail; with these sends `DFile` runs one transfer timer at a time and
  `DFileLive` both, which the end of both transfers needs. One control retry.
* `SessionBackend` in `Transports`: two sessions, one of which may be between
  its creation and its registration while the other closes. `SoftAp` has one
  start and one stop; an earlier run of the daemon may have left its interface.
* `EngineLife`: three peers, two threads. A peer in the table, one that is being
  finalized and one between the table and the socket can exist at once, and two
  holders can race for the last reference; the theorems need no bound.
* `FrameStream`: headers of two cells, frames of two to four, reads of up to four:
  a read can end in a header, in a body and on a frame's end, and can bring two
  frames. Two senders, up to three frames in all.
* `ControlSession`: two sessions share the one client. Either both ends repeat
  unanswered messages, one retry per state, or the phone says one thing unasked
  and may close, or it says one thing and the daemon has no stream port.

In the passing runs of `DFile` the sends that may fail are those of headers,
CONFIRM, REQ, data, DONE and DONE_ACK (`DFileLive` has headers, CONFIRM, REQ and
DONE_ACK); a failing acknowledgement is the subject of
`DFileResurrect`. In the
passing runs of `StreamSession` the phone does not close before both files
are through; `StreamLeave` shows what is lost when it does. `NoUseAfterEnd` is
about callers that are not held up for longer than a timeout (`EngineSlow`), and
`FreedWhenUnused` and `ClosedOnce` about callbacks set in time
(`EngineCallbacks`, `EnginePreClosed`). `SessionSettles` promises an end that
disagrees with its peer no answer: one of the two reaches FAILED and neither
DONE, and the other may wait for good, since `main.c` never retries.

## 5. Fairness

* Engines tick every millisecond from a GLib timeout: weak fairness of ticks,
  including the expiry of the timers a configuration allows, since time passes.
* The network loses datagrams but not every copy of one that is sent again and
  again: strong fairness of arrival per packet in `FillpData`.
* TCP delivers what was written: weak fairness of `Receive` in `DFile` and of
  the pumps in `ControlSession`; the phone is assumed to answer in `FairSpec`,
  and `PumpSpec` leaves that out.
* A thread that can run runs: weak fairness of the accept loop, pumps and main
  thread in `SessionBackend`, but nobody is obliged to connect, to close a
  connection, or to stop a transport that is up.
* `EngineLife`: the engine thread runs, and a connect that has found its peer
  goes on to the socket; nobody has to close.
* `FrameStream`: the receiver reads what there is, and a thread that sends
  completes its write, since the socket is drained.
* `SoftAp` needs none: its properties are safety.

## 6. Proofs

Assumptions on the constants are those the modules name: `DataAssumption`
(limits are natural numbers, positive where the code needs them to be),
`EngineAssumption` (finitely many threads, at least one peer),
`BackendAssumption`, `FrameAssumption` (a header and a read have at least one
cell, no frame is shorter than its header, a stream file starts with a frame),
`ControlAssumption` (finitely many sessions), `SessionAssumption` and
`DFileAssumption` (types only; limits are natural numbers).
All theorems are for every value of the constants that satisfies them. A few
need a hypothesis about how the program is used; it is then part of the
theorem, has a name, and a configuration shows what happens without it:

| Hypothesis | Says | Why | Without it |
|---|---|---|---|
| `Disciplined` | threads that close or connect hold a reference, and so on (below) | the main thread does | `EngineLateStart`, `EngineSlow` |
| `Restarts = FALSE` | a transport is started once | `main.c` starts its transport once | `ApRestart` |
| `NoTimeouts` | no write fails within a frame while the stream stays up | session sockets have no timeout, so a failing write means a broken connection; the 5 s of `dfile_conn.c:1370` are the exception | `FrameTimeout` |
| `PhoneStays` | the phone closes only when it is through with both files | `main.c` closes so at the daemon's end (`on_stream_done`); the phone's program is external | `StreamLeave` |
| `ConnectsSend` | a connect that returns a peer has sent its request | a send of one datagram fails when the host has no route or buffers; the phone was reachable for the file transfer just before | `StreamSendFails` |
| `AcksSend` | the send of an acknowledgement does not fail | such a send fails on a broken connection only; `rx_flush_ack` then fails a transfer that the same tick goes on with (`dfile_conn.c:1102`) | `DFileResurrect` |

**`FillpDataProofs`.** `DataInvariant`: `Spec => []IndInv`, and from it
`TypeCorrect`, `InOrderDeliveryHolds`, `ReleasedIsDeliveredHolds`,
`CompleteIsDeliveredHolds`, `OfoIsAheadHolds`, `OfoBytesCoverHolds`.

The guarantees are not inductive on their own. That an acknowledged packet was
delivered needs that acknowledgements on the network are behind the receiver
(`AcksAreBehind`); that deliveries are in order needs that packets in flight,
on the network and in the table carry the item of their number and were sent
(`PacketsAreSent`); that completion means delivery needs that the queue is
exactly the rest of what was filled (`QueueIsRest`). `IndInv` is their
conjunction. One lemma per action shows that it is preserved; the lemmas at the
head of the module describe the flush (`FlushedItems`, `FlushShrinksBuffer`)
and the insertion into the table (`BufferGrowsByOne`).

`InflightIsWindowHolds` is separate: the in-flight list is one run of numbers
that ends at the last one sent. Sending extends a run (`RunsJoin`), and an
acknowledgement cuts its front (`RunEnds`), which is why `fp_on_pack` may stop
at the first packet that it does not release.

`StreamImplemented` is the refinement, `Spec => ImplementsStream`: the
step simulation under the mapping of `MCFillpData`. Only two actions touch what
`FillpStream` sees: `SenderTick` queues or completes, never both
(`TickRefines`), and `fp_on_data` delivers or breaks (`DataRefines`). It uses
`DataInvariant` before and after the step: the delivered sequence is then the
beginning of the stream (`DeliveredIsBeginning`), and completion finds it whole.

**`DFileProofs`.** A handler is a function of one engine, so the proof is about
values. `Good` says how engine c of one end, engine d of the other and the two
streams between them fit together; `Work` is the same while a handler of c runs,
with what it has written so far at the end of the stream. There is one lemma per
handler, that it keeps `Work`, and the actions only put the values back in place
(`CommitKeeps`). Four things make the invariant inductive.

* Views (`Agree`): for each file, acknowledged is at most written, and written at
  most sent; a sender that has seen DONE has a receiver that has sent it, and a
  receiver that is done a sender that is.
* Frames (`Says`): a frame tells only what its writer still knows. An ACK is at
  most what its writer has written, DATA below what its writer has sent, DONE and
  DONE_ACK as old as they may be, a HEADER that there is a transfer. None of this is ever taken back, so a frame may
  be read at any time.
* The order of blocks (`Flow`): each block on a stream is one the receiver knows
  or follows its predecessor on the same stream (`InOrder`), and every block sent
  and not yet received is on it (`Covered`). A retransmission starts within what
  was sent; `Covered` is why its blocks find their predecessors, and the two
  together are why go-back-n and new blocks on one stream never show a gap.
* Results (`Reported`): a transfer that is not over has not been reported. It is
  the only part of the invariant that needs `AcksSend`; the others hold whatever
  sends fail.

`tx_pump` walks the files by a recursive function, `Turns`. What one turn does is
`PumpFileWorks`, about the value `TurnOK` that it keeps; `TurnsAre` shows that
the function defined by its recursion exists, and `Along` carries `TurnOK` from
file to file. Both take the least counterexample (`Least`), which the library's
well-founded relations give without a theorem that has an operator as its
parameter. From `DFileInvariant`: `DFileTypeCorrect`, `SentMeansVerifiedHolds`,
`ReceivedMeansSentHolds`, `AckedIsWrittenHolds`, `NoGapHolds` and
`OneResultHolds`.

`TransferImplemented` is the refinement, `Spec => ImplementsTransfer`. The lemma
of a handler also says what it may do to the two transfers of its engine: go on
or end (`Moves`), begin, write one block, or verify (`Turn`). The four parts of a
tick compose to one `Turn`, and every step is the `Turn` of one end (`NextTurn`).
The invariant before and after the step makes it a step of the abstract transfer
in each direction (`SenderTurns`, `ReceiverTurns`): `Agree` after the step gives
the sender's success its `verified` and the receiver's success the sender's, and
bounds the blocks written by those sent, so that verified means exactly all. That
nothing is begun at the receiver before it is offered needs two more parts of the
invariant: a HEADER tells of a transfer of its writer (`Says`), and a receiver
that has a transfer has a sender that has one (`Agree`). It needs `AcksSend`
for the reason `OneResultHolds` does: a transfer revived after its failure takes
back a result.

**`EngineLifeProofs`.** `EngineInvariant` rests on `IndInv`: the count is the
number of holders plus one for a thread that has not ended (`CountsHolders`),
and each peer is in the table, finalized, or reported (`PeersAccounted`).
`FreedWhenUnusedHolds` and `ClosedOnceHolds` follow. `NoUseAfterEndHolds` needs
in addition `OrderlyEnd` (what has ended by which step of the teardown, whom
connects and queued sources refer to) and the assumption `Disciplined`: threads that
close or connect hold a reference, no call outlasts the timeouts, and nobody
closes while another thread connects. The daemon's main thread, the only one
that connects and closes, satisfies the first and the last; `EngineLateStart`
and `EngineSlow` are what happens without them.

**`SessionBackendProofs`.** `BackendInvariant` rests on `IndInv`:
`HoldersHaveReferences` counts the holders of every session, and `Progress` says
how far its pump has come when the accept loop, the list, the main thread or a
join has it. From it `HoldersHaveReferencesHolds`, `NeverJoinsItselfHolds` (a
pump in its callback has cleared `running`), `OneThreadOwnerHolds` and
`JoinedIsReportedHolds` (a session that is joined came from the list, so its
callback was set). They hold whether or not the owner may drop a transport that
runs; they do not say that the session given to session-opened is alive, which
`OpenedIsAlive` denies.

**`TransportProofs`.** `TransportInvariant` says what runs from where the main
thread is: no service while start has not come to hostapd or stop has passed it
(`ServicesFollow`), of the interface after a stop only what the kernel refused to
undo (`StopIsComplete`, from `OnlyAsCached`: what is up or has its address is the
interface the cache shows, so a request that is obeyed reaches it), and each
kind of transport on its own way (`KindsApart`). `StopUndoesStartHolds` and
`FailedStartServesNobodyHolds` follow, for any number of starts and stops.
`ServicesOnInterfaceHolds` needs the interface as well (`InterfaceFollows`):
once the link is in the cache it is the link, which a second start refutes, and
past the step that sets it up or gives it its address it is so or the request
is among those `missed`.
`TransportSessions` carries the theorems of `SessionBackendProofs` over: a
transport that is no infrastructure has never touched a session. `ApTypeCorrect`
is the type invariant of the access point.

**`FrameStreamProofs`.** The invariant is about what has still to be parsed:
buffer, wire and the unwritten rest of the frame whose sender has the mutex, as
one sequence (`Sound`, `Whole`). A cell in it determines what follows it, up to
the first cell of the next frame (`Rel`), so a header found by the parser is the
header of a frame and its length is that frame's. Sending makes the sequence
longer, parsing shorter, writing and reading move its parts. A cancelled stream
ends within a frame; what was parsed before stays right. From `StreamInvariant`:
`WholeFramesInOrderHolds` and `NumbersGrowHold`.

**`ControlSessionProofs`.** The invariant of a session is stated over values: the
daemon's context D, the phone's P and the frames on their way (`Exchange`). A
signature on its way to the daemon was made by a phone that has derived its keys
and knows the secret it was made with (`ToDaemon`), SYNC_DEVICE_INFO on its way
to the phone says that the daemon is done (`ToPhone`), and this stays true when
either end repeats or reflects a message; `DoneIsMutualHolds` follows. For
`ControlAfterAuthHolds` the phases of an exchange without retries are enumerated
(`Phases`): at most one authentication message is on its way, and control frames
queue behind SYNC_DEVICE_INFO. `InputAfterPlayHolds` needs what the replies and
the one client say of the session the client works for (`ClientInv`), and, since
a callback is several steps, what is true of one on its way: its session is
authenticated, and the answer to PLAY that it may have taken comes from a phone
that is READY (`Handles`). One lemma per branch of
`softbus_auth_feed` is about values only.

**`StreamSessionProofs`.** Three invariants, each built on the one before.
`SessionInv` holds whatever the phone does and whichever sends fail. It
describes an end by itself (`EndInv`): packets acknowledged, sent and offered by
the fill callback, in that order; packets received against chunks; a file only
on a peer that was established. And it says that the daemon establishes at most
one session (`OneSession`, `MainInv`): a retry is queued only before the first.
`StreamTypeCorrect` and `OneVerdictHolds` follow; the latter because a failure of
an established session is that of a direction which is then neither active nor
done (`OneIsLost`). `HandshakeInv` takes `PhoneStays`: a CONFIRM_ACK on the
network, however old, tells of a server that is established, is through, or has
been sent a FIN, and a FIN to it comes from a daemon that is closing.
`NoHalfOpenDaemonHolds` follows. `FinInv` takes `ConnectsSend` in addition: a
FIN tells of an end that is done, and an end that still sends has had every
offered frame accepted or has its data at the other end already; without it
`sf_fill` counts frames that a closing engine refuses. `TxOkMeansAckedHolds` and
`FinMeansDeliveredHolds` follow. `fp_on_tick` and `fp_on_data` are first reduced to
what they do to these values (`PumpDoes`, `DataDoes`); the other actions leave
packets alone, and no step takes back a message, a packet, an acknowledgement or
a flag (`NextGrows`).

## 7. Model-checked only

Liveness (`StreamCompletes`, `PhaseEndsUnlessLost`, `TransfersEnd`,
`ShutdownEnds`, `SessionSettles`, `CloseEnds`, `FramesArrive`), which is outside
what the prover handles. Every invariant that a run checks, and both
refinements, are also theorems.

## 8. Not modelled

* The byte layout of frames (`fillp_frame.c`, `dfile_frame.c`, `vtp_frame.c`,
  `remote_input.c`, the text of `dmsdp.c`): bounds-checked encoding without
  state. The models pass decoded messages; `FrameStream` has the lengths.
* Packet numbers are natural numbers; the comparison modulo 2^32 agrees with
  theirs while fewer than 2^31 packets are sent. Packets have one size: the byte
  test of the burst (`fillp_conn.c:559`) precedes the addition, so the window
  counted in bytes can be overshot by less than one packet (1399 bytes), which
  `InflightIsWindow`, counted in packets, does not show.
* Two threads inside one call of the DMSDP client.
* Cryptography (ideal in `ControlSession`), device identity, the cookie HMAC.
* Opening the netlink socket, the call of nmcli, the contents of configuration
  files, the discovery thread and the choice of an interface.
* The mirror player (GStreamer), test-file generators, the command line and the
  set-up of sockets.
* The part of `main.c` that starts a stream phase per file connection, composed
  with `StreamSession`; the main thread freeing the DMSDP client while pumps
  run.

## 9. Plan

1. The file-transfer glue of `main.c` with `StreamSession`: several connections
   that each start the stream phase.
2. `SessionBackend` composed with `ControlSession`: shutdown with live pumps.
