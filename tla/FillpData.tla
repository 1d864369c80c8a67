----------------------------- MODULE FillpData -----------------------------
(***************************************************************************)
(* The data plane of one direction of an established fillp connection      *)
(* (src/src/proto/fillp_conn.c): a sending peer and a receiving peer over  *)
(* UDP, which loses, duplicates and reorders datagrams.                    *)
(*                                                                         *)
(* Data is counted in packets: the application's stream is the sequence of *)
(* items 1 .. StreamLen, one item fills one packet, and the byte limits of *)
(* the code (FP_SEND_CACHE, FP_OFO_MAX_BYTES, ...) are numbers of packets. *)
(* Packets are cut once and retransmitted unchanged, so seq_num is a       *)
(* function of pkt_num and is left out.  pkt_num is a natural number here; *)
(* the code compares 32-bit numbers serially (fp_num_isbigger), which      *)
(* agrees as long as fewer than 2^31 packets are in flight.                *)
(*                                                                         *)
(* Timers are choices: whether a throttle or a timeout has expired when    *)
(* the code looks at the clock is the Boolean argument of the action.      *)
(***************************************************************************)
EXTENDS Naturals, Sequences, FiniteSets

CONSTANTS
  StreamLen,           \* items the application streams (bound)
  FillMax,             \* most items one fill callback queues (bound)
  FP_TXQ_WATERMARK,    \* the fill callback runs below this queue length
  FP_SEND_CACHE,       \* in-flight window
  FP_SEND_BUDGET,      \* packets cut per tick
  FP_OFO_MAX_BYTES,    \* out-of-order buffer limit
  FP_PACK_FLUSH_BYTES  \* unacknowledged deliveries that force a PACK

ASSUME DataAssumption ==
  /\ StreamLen \in Nat
  /\ FillMax \in Nat \ {0}
  /\ FP_TXQ_WATERMARK \in Nat \ {0}
  /\ FP_SEND_CACHE \in Nat \ {0}
  /\ FP_SEND_BUDGET \in Nat \ {0}
  /\ FP_OFO_MAX_BYTES \in Nat
  /\ FP_PACK_FLUSH_BYTES \in Nat \ {0}

VARIABLES
  filled,        \* sender: items the application has queued so far
  fill_done,     \* sender: the fill callback returned -1
  txq,           \* sender: items queued, not yet cut into packets
  send_pkt_num,  \* sender: number of the last packet cut
  inflight,      \* sender: packets sent and not acknowledged
  tx_notified,   \* sender: on_tx_complete has fired
  recv_pkt_num,  \* receiver: last packet delivered in order
  ofo,           \* receiver: packets buffered out of order
  ofo_bytes,     \* receiver: the counter kept beside ofo
  delivered_since_pack, \* receiver: deliveries not yet acknowledged
  delivered,     \* receiver: items handed to the application, in order
  mem,           \* receiver: "ok", "aborted", or "corrupt" heap
  datas, packs, nacks   \* datagrams on the network

senderVars == <<filled, fill_done, txq, send_pkt_num, inflight, tx_notified>>
receiverVars == <<recv_pkt_num, ofo, ofo_bytes, delivered_since_pack,
                  delivered, mem>>
netVars == <<datas, packs, nacks>>
vars == <<senderVars, receiverVars, netVars>>

Packet == [pkt_num : Nat, data : Nat]

\* One type invariant for the whole connection.
TypeOK ==
  /\ filled \in 0 .. StreamLen
  /\ fill_done \in BOOLEAN
  /\ txq \in Seq(Nat)
  /\ send_pkt_num \in Nat
  /\ inflight \in SUBSET Packet
  /\ tx_notified \in BOOLEAN
  /\ recv_pkt_num \in Nat
  /\ ofo \in SUBSET Packet
  /\ ofo_bytes \in Nat
  /\ delivered_since_pack \in Nat
  /\ delivered \in Seq(Nat)
  /\ mem \in {"ok", "aborted", "corrupt"}
  /\ datas \in SUBSET Packet
  /\ packs \in SUBSET Nat
  /\ nacks \in SUBSET Nat

\* fp_peer_new: both ends start from zeroed counters and empty queues.
Init ==
  /\ filled = 0 /\ fill_done = FALSE /\ txq = <<>>
  /\ send_pkt_num = 0 /\ inflight = {} /\ tx_notified = FALSE
  /\ recv_pkt_num = 0 /\ ofo = {} /\ ofo_bytes = 0
  /\ delivered_since_pack = 0 /\ delivered = <<>> /\ mem = "ok"
  /\ datas = {} /\ packs = {} /\ nacks = {}

-----------------------------------------------------------------------------
(***************************************************************************)
(* Sender.                                                                 *)
(***************************************************************************)

\* The fill callback is asked for more data below the watermark.
FillAsked == ~fill_done /\ Len(txq) < FP_TXQ_WATERMARK

\* It queues k items, returns 0 ("nothing right now"), or -1 once the final
\* item has been queued; only -1 sets fill_done.
FillResult(k, final) ==
  /\ k > 0 => FillAsked /\ filled + k <= StreamLen /\ ~final
  /\ final => FillAsked /\ filled = StreamLen

\* Mutant: the window is not looked at.
BurstAnyWindow(c, n) ==
  /\ c > 0 => c <= FP_SEND_BUDGET
  /\ c = FP_SEND_BUDGET \/ c = n

\* The packetizing loop cuts c packets from a queue of length n: it goes on
\* while budget, queue and window allow another one.
Burst(c, n) ==
  /\ c > 0 => c <= FP_SEND_BUDGET /\ Cardinality(inflight) + c <= FP_SEND_CACHE
  /\ \/ c = FP_SEND_BUDGET
     \/ c = n
     \/ Cardinality(inflight) + c >= FP_SEND_CACHE

\* The stall valve retransmits the oldest packet in flight.
Oldest ==
  {p \in inflight : \A q \in inflight : p.pkt_num <= q.pkt_num}

\* Mutant: completion once everything has been sent.
TxDrainedSent(done, q, fl) == done /\ q = <<>>

\* Completion: the final item queued, nothing queued and nothing in flight.
TxDrained(done, q, fl) == done /\ q = <<>> /\ fl = {}

\* fp_pump on the sending side, called from the tick: fill, stall valve,
\* packetize, completion, in this order.
SenderTick(k, final, c, stall) ==
  LET q    == txq \o [i \in 1 .. k |-> filled + i]
      cut  == {[pkt_num |-> send_pkt_num + i, data |-> q[i]] : i \in 1 .. c}
      done == fill_done \/ final
  IN /\ FillResult(k, final)
     /\ c <= Len(q) /\ Burst(c, Len(q))
     /\ filled' = filled + k
     /\ fill_done' = done
     /\ txq' = SubSeq(q, c + 1, Len(q))
     /\ send_pkt_num' = send_pkt_num + c
     /\ inflight' = inflight \cup cut
     /\ datas' = datas \cup cut \cup (IF stall THEN Oldest ELSE {})
     /\ tx_notified' = (tx_notified \/ TxDrained(done, txq', inflight'))
     /\ UNCHANGED <<receiverVars, packs, nacks>>

\* Mutant: the first packet above the acknowledgement is released too.
UnackedOffByOne(a) == {p \in inflight : p.pkt_num > a + 1}

\* What PACK a leaves in flight: the list is ascending, the loop stops at the
\* first packet above the cumulative acknowledgement.
Unacked(a) == {p \in inflight : p.pkt_num > a}

\* fp_on_pack; dup says that the network delivers the datagram again later.
fp_on_pack(a, dup) ==
  /\ a \in packs
  /\ inflight' = Unacked(a)
  /\ packs' = IF dup THEN packs ELSE packs \ {a}
  /\ UNCHANGED <<filled, fill_done, txq, send_pkt_num, tx_notified,
                 receiverVars, datas, nacks>>

\* The packets NACK (begin, begin + 2) asks for.
Gap(begin) ==
  {p \in inflight : p.pkt_num > begin /\ p.pkt_num < begin + 2}

\* fp_on_nack: retransmit the requested packets still in flight.
fp_on_nack(begin, dup) ==
  /\ begin \in nacks
  /\ datas' = datas \cup Gap(begin)
  /\ nacks' = IF dup THEN nacks ELSE nacks \ {begin}
  /\ UNCHANGED <<senderVars, receiverVars, packs>>

-----------------------------------------------------------------------------
(***************************************************************************)
(* Receiver.                                                               *)
(***************************************************************************)

Numbers(S) == {p.pkt_num : p \in S}

\* fp_maybe_pack with n unacknowledged deliveries up to packet r: throttled
\* unless the interval has passed (due) or enough is pending.
fp_maybe_pack(n, r, due) ==
  IF n > 0 /\ (n >= FP_PACK_FLUSH_BYTES \/ due)
  THEN packs' = packs \cup {r} /\ delivered_since_pack' = 0
  ELSE packs' = packs /\ delivered_since_pack' = n

\* Taking a datagram off the network, or leaving a duplicate behind.
Take(p, dup) ==
  /\ p \in datas
  /\ mem = "ok"
  /\ datas' = IF dup THEN datas ELSE datas \ {p}
  /\ UNCHANGED senderVars

\* Mutant: duplicates are dropped without repeating the acknowledgement.
OnDuplicateSilent(p, dup, due) ==
  /\ Take(p, dup)
  /\ p.pkt_num <= recv_pkt_num
  /\ UNCHANGED <<recv_pkt_num, ofo, ofo_bytes, delivered_since_pack, delivered,
                 mem, packs, nacks>>

\* fp_on_data, first case: not ahead of recv_pkt_num.  The packet is a
\* duplicate; its acknowledgement is repeated, at most every 20 ms.
OnDuplicate(p, dup, due) ==
  /\ Take(p, dup)
  /\ p.pkt_num <= recv_pkt_num
  /\ IF due
     THEN packs' = packs \cup {recv_pkt_num} /\ delivered_since_pack' = 0
     ELSE UNCHANGED <<packs, delivered_since_pack>>
  /\ UNCHANGED <<recv_pkt_num, ofo, ofo_bytes, delivered, mem, nacks>>

\* Mutant: the buffer is not flushed.
RunNone(n, k) == k = 0

\* The buffered packets n+1 .. n+k that the flush loop finds, and no more.
Run(n, k) ==
  /\ \A i \in 1 .. k : n + i \in Numbers(ofo)
  /\ n + k + 1 \notin Numbers(ofo)

\* What the flush loop hands on for packets n+1 .. n+k.
Flushed(n, k) ==
  [i \in 1 .. k |-> (CHOOSE q \in ofo : q.pkt_num = n + i).data]

\* Second case: the next packet in order, followed by the flush of the
\* buffered packets it connects.  The heap survives the flush loop.
OnNext(p, dup, due) ==
  /\ Take(p, dup)
  /\ p.pkt_num = recv_pkt_num + 1
  /\ \E k \in 0 .. Cardinality(ofo) :
       /\ Run(p.pkt_num, k)
       /\ recv_pkt_num' = p.pkt_num + k
       /\ delivered' = Append(delivered, p.data) \o Flushed(p.pkt_num, k)
       /\ ofo' = {q \in ofo : q.pkt_num > p.pkt_num + k}
       /\ ofo_bytes' = ofo_bytes - k
       /\ fp_maybe_pack(delivered_since_pack + 1 + k, p.pkt_num + k, due)
  /\ UNCHANGED <<mem, nacks>>

\* The same case when the flush loop runs at least once: the hash table's
\* value destructor has already freed the packet that the loop goes on to
\* read, deliver and free again.  Depending on the allocator the process
\* aborts, or it goes on with an overwritten recv_pkt_num; the application
\* may have been handed freed memory (item 0) in between.
OnNextUseAfterFree(p, dup) ==
  /\ Take(p, dup)
  /\ p.pkt_num = recv_pkt_num + 1
  /\ p.pkt_num + 1 \in Numbers(ofo)
  /\ mem' \in {"aborted", "corrupt"}
  /\ recv_pkt_num' = p.pkt_num
  /\ delivered' \in {Append(delivered, p.data), Append(delivered, p.data) \o <<0>>}
  /\ UNCHANGED <<ofo, ofo_bytes, delivered_since_pack, packs, nacks>>

\* Storing a packet under its number replaces an earlier copy.
Buffer(p) == {q \in ofo : q.pkt_num # p.pkt_num} \cup {p}

\* Mutant: buffering does not count the packet.
OnGapUncounted(p, dup, due) ==
  /\ Take(p, dup)
  /\ p.pkt_num > recv_pkt_num + 1
  /\ ofo' = Buffer(p)
  /\ nacks' = IF due THEN nacks \cup {recv_pkt_num} ELSE nacks
  /\ UNCHANGED <<recv_pkt_num, ofo_bytes, delivered_since_pack, delivered, mem,
                 packs>>

\* Third case: a gap.  Buffer the packet while the counter allows it, and ask
\* for the first missing packet, at most every 20 ms.
OnGap(p, dup, due) ==
  /\ Take(p, dup)
  /\ p.pkt_num > recv_pkt_num + 1
  /\ IF ofo_bytes + 1 <= FP_OFO_MAX_BYTES
     THEN ofo' = Buffer(p) /\ ofo_bytes' = ofo_bytes + 1
     ELSE UNCHANGED <<ofo, ofo_bytes>>
  /\ nacks' = IF due THEN nacks \cup {recv_pkt_num} ELSE nacks
  /\ UNCHANGED <<recv_pkt_num, delivered_since_pack, delivered, mem, packs>>

\* Mutant: a duplicate is handed to the application again.
fp_on_data_redeliver(p, dup, due) ==
  \/ /\ Take(p, dup)
     /\ p.pkt_num <= recv_pkt_num
     /\ delivered' = Append(delivered, p.data)
     /\ UNCHANGED <<recv_pkt_num, ofo, ofo_bytes, delivered_since_pack, mem,
                    packs, nacks>>
  \/ OnNext(p, dup, due)
  \/ OnGap(p, dup, due)

\* fp_on_data as a whole.
fp_on_data(p, dup, due) ==
  \/ OnDuplicate(p, dup, due)
  \/ OnNext(p, dup, due)
  \/ OnNextUseAfterFree(p, dup)
  \/ OnGap(p, dup, due)

\* fp_pump on the receiving side, called from the tick: the periodic PACK.
ReceiverTick(due) ==
  /\ mem = "ok"
  /\ fp_maybe_pack(delivered_since_pack, recv_pkt_num, due)
  /\ UNCHANGED <<senderVars, recv_pkt_num, ofo, ofo_bytes, delivered, mem,
                 datas, nacks>>

\* A receiver whose recv_pkt_num was overwritten acknowledges anything.
CorruptPack(a) ==
  /\ mem = "corrupt"
  /\ packs' = packs \cup {a}
  /\ UNCHANGED <<senderVars, receiverVars, datas, nacks>>

-----------------------------------------------------------------------------
\* UDP loses a datagram.
Lose ==
  /\ \/ \E p \in datas : datas' = datas \ {p} /\ UNCHANGED <<packs, nacks>>
     \/ \E a \in packs : packs' = packs \ {a} /\ UNCHANGED <<datas, nacks>>
     \/ \E n \in nacks : nacks' = nacks \ {n} /\ UNCHANGED <<datas, packs>>
  /\ UNCHANGED <<senderVars, receiverVars>>

Next ==
  \/ \E k \in 0 .. FillMax, c \in 0 .. FP_SEND_BUDGET, final, stall \in BOOLEAN :
       SenderTick(k, final, c, stall)
  \/ \E a \in packs, dup \in BOOLEAN : fp_on_pack(a, dup)
  \/ \E n \in nacks, dup \in BOOLEAN : fp_on_nack(n, dup)
  \/ \E p \in datas, dup, due \in BOOLEAN : fp_on_data(p, dup, due)
  \/ \E due \in BOOLEAN : ReceiverTick(due)
  \/ \E a \in 0 .. StreamLen : CorruptPack(a)
  \/ Lose

Spec == Init /\ [][Next]_vars

-----------------------------------------------------------------------------
(***************************************************************************)
(* Properties.                                                             *)
(***************************************************************************)

\* The application receives the stream in order, without loss or repetition:
\* packet i carried item i, whatever was lost, doubled or reordered on the
\* way (fp_on_data, fp_deliver).
InOrderDelivery ==
  /\ \A i \in 1 .. recv_pkt_num : i <= Len(delivered) /\ delivered[i] = i
  /\ mem = "ok" => Len(delivered) = recv_pkt_num

\* The sender gives up its only copy of a packet (fp_on_pack) only after the
\* receiver has delivered it.
ReleasedIsDelivered ==
  mem # "corrupt" =>
    \A i \in 1 .. send_pkt_num : i > recv_pkt_num => i \in Numbers(inflight)

\* on_tx_complete means that the whole stream has been delivered.
CompleteIsDelivered ==
  tx_notified /\ mem # "corrupt" => recv_pkt_num = StreamLen

\* Nothing that is due or already delivered stays in the out-of-order buffer
\* after a datagram has been handled; it would never be looked up again.
OfoIsAhead ==
  mem = "ok" => \A p \in ofo : p.pkt_num > recv_pkt_num + 1

\* The byte counter of the out-of-order buffer covers what is buffered, so
\* the subtraction in the flush loop cannot wrap around.
OfoBytesCover == ofo_bytes >= Cardinality(ofo)

\* The in-flight list is the ascending run of numbers that fp_on_pack relies
\* on when it stops at the first unacknowledged packet, and it respects the
\* send window.
InflightIsWindow ==
  /\ \E lo \in 0 .. send_pkt_num : Numbers(inflight) = lo + 1 .. send_pkt_num
  /\ Cardinality(inflight) <= FP_SEND_CACHE

(***************************************************************************)
(* The strengthening that makes these invariants inductive.                *)
(***************************************************************************)

\* The queue holds the items between the last packet and the last fill.
QueueIsRest ==
  /\ send_pkt_num + Len(txq) = filled
  /\ \A i \in 1 .. Len(txq) : txq[i] = send_pkt_num + i
  /\ fill_done => filled = StreamLen

\* Every copy of a packet, wherever it is, is the one that was cut.
PacketsAreSent ==
  \A p \in inflight \cup datas \cup ofo :
    p.data = p.pkt_num /\ p.pkt_num \in 1 .. send_pkt_num

\* No acknowledgement on the network runs ahead of the receiver, and the
\* receiver not ahead of the sender.
AcksAreBehind ==
  /\ recv_pkt_num <= send_pkt_num
  /\ mem # "corrupt" => \A a \in packs : a <= recv_pkt_num

\* The inductive invariant of the data plane: the delivery guarantees of
\* fp_on_data and fp_on_pack with what each rests on.
IndInv ==
  /\ TypeOK
  /\ QueueIsRest
  /\ PacketsAreSent
  /\ AcksAreBehind
  /\ InOrderDelivery
  /\ ReleasedIsDelivered
  /\ CompleteIsDelivered
  /\ OfoIsAhead
  /\ IsFiniteSet(ofo) /\ OfoBytesCover

\* fillp_frame.h: "rcvListBytes = out-of-order buffered bytes".
OfoBytesExact == ofo_bytes = Cardinality(ofo)

\* fillp_conn.h: packets are "out-of-order buffered (OFO), in-order bytes
\* delivered to the app"; filling a gap never leaves the memory the program
\* owns.
FlushIsMemorySafe == mem = "ok"

(***************************************************************************)
(* Liveness.  The engine's 1 ms tick keeps running and its timers expire,  *)
(* the application keeps supplying data, and the network does not lose     *)
(* every copy of a datagram that is sent again and again.                  *)
(***************************************************************************)
SenderKeepsGoing ==
  \E k \in 0 .. FillMax, c \in 0 .. FP_SEND_BUDGET, final \in BOOLEAN :
    /\ k > 0 \/ final \/ ~FillAsked
    /\ SenderTick(k, final, c, TRUE)

DataArrives(i) ==
  \E p \in datas, dup \in BOOLEAN : p.pkt_num = i /\ fp_on_data(p, dup, TRUE)

Fairness ==
  /\ WF_vars(SenderKeepsGoing)
  /\ WF_vars(ReceiverTick(TRUE))
  /\ \A i \in 1 .. StreamLen :
       /\ SF_vars(DataArrives(i))
       /\ SF_vars(\E dup \in BOOLEAN : fp_on_pack(i, dup))

FairSpec == Spec /\ Fairness

\* The stall valve, the re-acknowledgement of duplicates and the periodic
\* PACK together finish every transfer, unless the receiver dies in the
\* flush loop.
StreamCompletes == <>(tx_notified \/ mem # "ok")
============================================================================
