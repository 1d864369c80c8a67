-------------------------- MODULE FillpDataProofs --------------------------
(***************************************************************************)
(* Proofs about FillpData for every stream length, window and buffer size, *)
(* and that every step of it is a step of FillpStream or none.             *)
(***************************************************************************)
EXTENDS MCFillpData, FiniteSetTheorems, SequenceTheorems, TLAPS

\* A packet taken for its number from a set of packets that all carry the
\* item of their number yields that item.
LEMMA PickedItem ==
  ASSUME NEW S, NEW n \in Numbers(S), \A p \in S : p.data = p.pkt_num
  PROVE  (CHOOSE q \in S : q.pkt_num = n).data = n
<1>1. PICK p \in S : p.pkt_num = n
  BY DEF Numbers
<1>2. \E q \in S : q.pkt_num = n
  BY <1>1
<1> DEFINE c == CHOOSE q \in S : q.pkt_num = n
<1>3. c \in S /\ c.pkt_num = n
  BY <1>2
<1> QED
  BY <1>3

\* The flush loop hands on exactly the items n+1 .. n+k.
LEMMA FlushedItems ==
  ASSUME NEW n \in Nat, NEW k \in Nat, Run(n, k),
         \A p \in ofo : p.data = p.pkt_num
  PROVE  /\ Flushed(n, k) \in Seq(Nat)
         /\ Len(Flushed(n, k)) = k
         /\ \A i \in 1 .. k : Flushed(n, k)[i] = n + i
<1>1. \A i \in 1 .. k : Flushed(n, k)[i] = n + i
  <2> TAKE i \in 1 .. k
  <2>1. n + i \in Numbers(ofo)
    BY DEF Run
  <2>2. (CHOOSE q \in ofo : q.pkt_num = n + i).data = n + i
    BY <2>1, PickedItem
  <2> QED
    BY <2>2 DEF Flushed
<1>2. Flushed(n, k) \in [1 .. k -> Nat]
  <2>1. DOMAIN Flushed(n, k) = 1 .. k
    BY DEF Flushed
  <2>2. Flushed(n, k) = [i \in 1 .. k |-> Flushed(n, k)[i]]
    BY <2>1 DEF Flushed
  <2> QED
    BY <1>1, <2>2
<1>3. Flushed(n, k) \in Seq(Nat) /\ Len(Flushed(n, k)) = k
  BY <1>2
<1> QED
  BY <1>1, <1>3

\* Removing the k packets of a run from the buffer lowers its size by k.
LEMMA FlushShrinksBuffer ==
  ASSUME NEW n \in Nat, NEW k \in Nat, Run(n, k),
         ofo \in SUBSET Packet, IsFiniteSet(ofo),
         NEW rest, rest = {q \in ofo : q.pkt_num > n + k}
  PROVE  IsFiniteSet(rest) /\ Cardinality(rest) + k <= Cardinality(ofo)
<1> DEFINE gone == {q \in ofo : q.pkt_num \in n + 1 .. n + k}
           num == [q \in gone |-> q.pkt_num]
<1>1. gone \in SUBSET ofo /\ rest \in SUBSET (ofo \ gone)
  BY DEF Packet
<1>2. IsFiniteSet(gone)
  BY <1>1, FS_Subset
<1>3. num \in Surjection(gone, n + 1 .. n + k)
  <2>1. num \in [gone -> n + 1 .. n + k]
    OBVIOUS
  <2>2. ASSUME NEW j \in n + 1 .. n + k
        PROVE  \E q \in gone : num[q] = j
    <3>1. j - n \in 1 .. k /\ n + (j - n) = j
      OBVIOUS
    <3>2. j \in Numbers(ofo)
      BY <3>1 DEF Run
    <3> QED
      BY <3>2 DEF Numbers
  <2> QED
    BY <2>1, <2>2 DEF Surjection
<1>4. Cardinality(n + 1 .. n + k) = k
  BY FS_Interval
<1>5. k <= Cardinality(gone)
  BY <1>2, <1>3, <1>4, FS_Surjection
<1>6. /\ IsFiniteSet(ofo \ gone)
      /\ Cardinality(ofo \ gone) = Cardinality(ofo) - Cardinality(ofo \cap gone)
  BY FS_Difference
<1>7. ofo \cap gone = gone
  BY <1>1
<1>8. IsFiniteSet(rest) /\ Cardinality(rest) <= Cardinality(ofo \ gone)
  BY <1>1, <1>6, FS_Subset
<1>9. /\ Cardinality(ofo) \in Nat /\ Cardinality(gone) \in Nat
      /\ Cardinality(rest) \in Nat /\ Cardinality(ofo \ gone) \in Nat
  BY <1>2, <1>6, <1>8, FS_CardinalityType
<1>10. Cardinality(ofo \ gone) = Cardinality(ofo) - Cardinality(gone)
  BY <1>6, <1>7
<1> HIDE DEF gone
<1>11. Cardinality(rest) + k <= Cardinality(ofo)
  BY <1>5, <1>8, <1>9, <1>10
<1> QED
  BY <1>8, <1>11

\* Storing a packet adds at most one to the buffer's size.
LEMMA BufferGrowsByOne ==
  ASSUME NEW p, IsFiniteSet(ofo)
  PROVE  IsFiniteSet(Buffer(p)) /\ Cardinality(Buffer(p)) <= Cardinality(ofo) + 1
<1>1. /\ IsFiniteSet(ofo \cup {p})
      /\ Cardinality(ofo \cup {p}) <= Cardinality(ofo) + 1
      /\ Cardinality(ofo \cup {p}) \in Nat /\ Cardinality(ofo) \in Nat
  BY FS_AddElement, FS_CardinalityType
<1>2. Buffer(p) \in SUBSET (ofo \cup {p})
  BY DEF Buffer
<1>3. IsFiniteSet(Buffer(p)) /\ Cardinality(Buffer(p)) <= Cardinality(ofo \cup {p})
  BY <1>1, <1>2, FS_Subset
<1>4. Cardinality(Buffer(p)) \in Nat
  BY <1>3, FS_CardinalityType
<1> QED
  BY <1>1, <1>3, <1>4

\* The initial state satisfies the inductive invariant.
LEMMA InitInv == Init => IndInv
<1> SUFFICES ASSUME Init PROVE IndInv
  OBVIOUS
<1> USE DEF Init
<1>1. TypeOK
  <2>1. filled \in 0 .. StreamLen /\ txq \in Seq(Nat) /\ delivered \in Seq(Nat)
    BY DataAssumption, EmptySeq
  <2>2. fill_done \in BOOLEAN /\ tx_notified \in BOOLEAN
    BY Zenon
  <2> QED
    BY <2>1, <2>2 DEF TypeOK
<1>2. QueueIsRest /\ PacketsAreSent /\ AcksAreBehind
  BY DEF QueueIsRest, PacketsAreSent, AcksAreBehind
<1>3. InOrderDelivery /\ ReleasedIsDelivered /\ CompleteIsDelivered /\ OfoIsAhead
  BY DEF InOrderDelivery, ReleasedIsDelivered, CompleteIsDelivered, OfoIsAhead
<1>4. IsFiniteSet(ofo) /\ OfoBytesCover
  BY FS_EmptySet DEF OfoBytesCover
<1> QED
  BY <1>1, <1>2, <1>3, <1>4 DEF IndInv

\* The sender's tick: what it cuts is the continuation of the stream, and it
\* reports completion only when nothing is queued or in flight.
LEMMA SenderTickInv ==
  ASSUME IndInv, NEW k \in Nat, NEW c \in Nat, NEW final \in BOOLEAN,
         NEW stall \in BOOLEAN, SenderTick(k, final, c, stall)
  PROVE  IndInv'
<1> DEFINE new == [i \in 1 .. k |-> filled + i]
           q == txq \o new
           cut == {[pkt_num |-> send_pkt_num + i, data |-> q[i]] : i \in 1 .. c}
<1>1. TypeOK /\ QueueIsRest
  BY DEF IndInv
<1>2. filled \in Nat /\ txq \in Seq(Nat) /\ send_pkt_num \in Nat /\ Len(txq) \in Nat
  BY <1>1, DataAssumption DEF TypeOK
<1>3. new \in Seq(Nat) /\ Len(new) = k /\ \A i \in 1 .. k : new[i] = filled + i
  BY <1>2
<1>4. /\ q \in Seq(Nat)
      /\ Len(q) = Len(txq) + k
      /\ \A i \in 1 .. Len(txq) + k :
            q[i] = IF i <= Len(txq) THEN txq[i] ELSE new[i - Len(txq)]
  BY <1>2, <1>3, ConcatProperties
<1>5. \A i \in 1 .. Len(q) : q[i] = send_pkt_num + i
  <2> HIDE DEF q, new
  <2> TAKE i \in 1 .. Len(q)
  <2>1. i \in 1 .. Len(txq) + k /\ i \in Nat
    BY <1>2, <1>4
  <2>2. CASE i <= Len(txq)
    <3>1. q[i] = txq[i] /\ i \in 1 .. Len(txq)
      BY <1>2, <1>4, <2>1, <2>2
    <3>2. \A j \in 1 .. Len(txq) : txq[j] = send_pkt_num + j
      BY <1>1 DEF QueueIsRest
    <3> QED
      BY <3>1, <3>2
  <2>3. CASE i > Len(txq)
    <3>1. i - Len(txq) \in 1 .. k
      BY <1>2, <2>1, <2>3
    <3>2. q[i] = new[i - Len(txq)]
      BY <1>2, <1>4, <2>1, <2>3
    <3>3. new[i - Len(txq)] = filled + (i - Len(txq))
      BY <1>3, <3>1
    <3>4. send_pkt_num + Len(txq) = filled
      BY <1>1 DEF QueueIsRest
    <3> QED
      BY <1>2, <2>1, <3>2, <3>3, <3>4
  <2> QED
    BY <1>2, <2>1, <2>2, <2>3
<1> HIDE DEF q, new
<1>6. /\ c <= Len(q)
      /\ filled' = filled + k
      /\ fill_done' = (fill_done \/ final)
      /\ txq' = SubSeq(q, c + 1, Len(q))
      /\ send_pkt_num' = send_pkt_num + c
      /\ inflight' = inflight \cup cut
      /\ datas' = datas \cup cut \cup (IF stall THEN Oldest ELSE {})
      /\ tx_notified' = (tx_notified \/ TxDrained(fill_done \/ final, txq', inflight'))
      /\ UNCHANGED <<recv_pkt_num, ofo, ofo_bytes, delivered_since_pack, delivered, mem>>
      /\ UNCHANGED <<packs, nacks>>
  BY DEF SenderTick, receiverVars, q, new
<1>7. /\ k > 0 => ~fill_done /\ filled + k <= StreamLen
      /\ final => filled = StreamLen /\ k = 0
  BY DEF SenderTick, FillResult, FillAsked
<1>8. Len(q) \in Nat
  BY <1>4
<1>9. /\ txq' \in Seq(Nat)
      /\ Len(txq') = Len(q) - c
      /\ \A i \in 1 .. Len(q) - c : txq'[i] = q[c + i]
  <2>1. \A i \in c + 1 .. Len(q) : q[i] \in Nat
    BY <1>2, <1>5, <1>8
  <2>2. /\ SubSeq(q, c + 1, Len(q)) \in Seq(Nat)
        /\ Len(SubSeq(q, c + 1, Len(q))) =
             IF c + 1 <= Len(q) THEN Len(q) - (c + 1) + 1 ELSE 0
        /\ \A i \in 1 .. Len(q) - (c + 1) + 1 :
             SubSeq(q, c + 1, Len(q))[i] = q[c + 1 + i - 1]
    BY <2>1, <1>8, SubSeqProperties
  <2> QED
    BY <1>6, <1>8, <2>2
<1>10. cut \in SUBSET Packet /\
       \A p \in cut : p.data = p.pkt_num /\ p.pkt_num \in 1 .. send_pkt_num + c
  <2>1. ASSUME NEW i \in 1 .. c
        PROVE  /\ q[i] = send_pkt_num + i
               /\ send_pkt_num + i \in Nat
               /\ send_pkt_num + i \in 1 .. send_pkt_num + c
    BY <1>2, <1>5, <1>6, <1>8
  <2> QED
    BY <2>1 DEF Packet
<1> HIDE DEF cut
<1>11. TypeOK'
  <2>1. filled' \in 0 .. StreamLen
    BY <1>1, <1>2, <1>6, <1>7, DataAssumption DEF TypeOK
  <2>2. fill_done' \in BOOLEAN /\ tx_notified' \in BOOLEAN
    BY <1>1, <1>6 DEF TypeOK
  <2>3. inflight' \in SUBSET Packet /\ datas' \in SUBSET Packet
    <3> QED
      BY <1>1, <1>6, <1>10 DEF TypeOK, Oldest
  <2>4. send_pkt_num' \in Nat
    BY <1>2, <1>6
  <2> QED
    BY <1>1, <1>6, <1>9, <2>1, <2>2, <2>3, <2>4 DEF TypeOK
<1>12. QueueIsRest'
  <2>1. send_pkt_num' + Len(txq') = filled'
    <3>1. send_pkt_num + Len(txq) = filled
      BY <1>1 DEF QueueIsRest
    <3> QED
      <4>1. send_pkt_num' = send_pkt_num + c /\ filled' = filled + k
        BY <1>6
      <4>2. Len(txq') = Len(txq) + k - c
        BY <1>4, <1>9
      <4> QED
        BY <1>2, <3>1, <4>1, <4>2
  <2>2. \A i \in 1 .. Len(txq') : txq'[i] = send_pkt_num' + i
    BY <1>2, <1>5, <1>6, <1>8, <1>9
  <2>3. fill_done' => filled' = StreamLen
    BY <1>1, <1>2, <1>6, <1>7 DEF QueueIsRest
  <2> QED
    BY <2>1, <2>2, <2>3 DEF QueueIsRest
<1>13. PacketsAreSent'
  <2>1. Oldest \in SUBSET inflight
    BY DEF Oldest
  <2>2. ASSUME NEW p \in inflight' \cup datas' \cup ofo'
        PROVE  p \in cut \/ p \in inflight \cup datas \cup ofo
    <3> QED
      BY <1>6, <2>1
  <2>3. ASSUME NEW p \in inflight \cup datas \cup ofo
        PROVE  p.data = p.pkt_num /\ p.pkt_num \in 1 .. send_pkt_num'
    <3>1. p.data = p.pkt_num /\ p.pkt_num \in 1 .. send_pkt_num
      BY DEF IndInv, PacketsAreSent
    <3> QED
      BY <1>2, <1>6, <3>1
  <2> QED
    BY <1>6, <1>10, <2>2, <2>3 DEF PacketsAreSent
<1>14. AcksAreBehind'
  BY <1>1, <1>2, <1>6 DEF IndInv, AcksAreBehind, TypeOK
<1>15. ReleasedIsDelivered'
  <2> SUFFICES ASSUME mem # "corrupt", NEW i \in 1 .. send_pkt_num',
                      i > recv_pkt_num
               PROVE  i \in Numbers(inflight')
    BY <1>6 DEF ReleasedIsDelivered, Numbers
  <2>1. CASE i <= send_pkt_num
    <3>1. i \in Numbers(inflight)
      BY <1>2, <1>6, <2>1 DEF IndInv, ReleasedIsDelivered
    <3> QED
      BY <1>6, <3>1 DEF Numbers
  <2>2. CASE i > send_pkt_num
    <3> DEFINE p == [pkt_num |-> send_pkt_num + (i - send_pkt_num),
                     data |-> q[i - send_pkt_num]]
    <3>1. i - send_pkt_num \in 1 .. c /\ send_pkt_num + (i - send_pkt_num) = i
      BY <1>2, <1>6, <2>2
    <3>2. p \in cut
      BY <3>1 DEF cut
    <3>3. p.pkt_num = i
      BY <3>1
    <3> HIDE DEF p
    <3> QED
      BY <1>6, <3>2, <3>3 DEF Numbers
  <2> QED
    BY <1>2, <1>6, <2>1, <2>2
<1>16. CompleteIsDelivered'
  <2> SUFFICES ASSUME tx_notified', mem # "corrupt"
               PROVE  recv_pkt_num = StreamLen
    BY <1>6 DEF CompleteIsDelivered
  <2>1. CASE tx_notified
    BY <2>1 DEF IndInv, CompleteIsDelivered
  <2>2. CASE ~tx_notified
    <3>1. fill_done' /\ txq' = <<>> /\ inflight' = {}
      <4> QED
        BY <1>6, <2>2 DEF TxDrained
    <3>2. filled' = StreamLen /\ send_pkt_num' = StreamLen
      <4>1. Len(txq') = 0
        BY <3>1
      <4>2. send_pkt_num' + Len(txq') = filled' /\ filled' = StreamLen
        BY <1>12, <3>1 DEF QueueIsRest
      <4>3. send_pkt_num' \in Nat
        BY <1>11 DEF TypeOK
      <4> QED
        BY <4>1, <4>2, <4>3
    <3>3. Numbers(inflight') = {}
      BY <3>1 DEF Numbers
    <3>4. \A i \in 1 .. StreamLen : i <= recv_pkt_num
      <4>1. \A i \in 1 .. StreamLen : ~(i > recv_pkt_num)
        BY <1>6, <1>15, <3>2, <3>3 DEF ReleasedIsDelivered
      <4>2. recv_pkt_num \in Nat
        BY <1>1 DEF TypeOK
      <4> QED
        BY <4>1, <4>2
    <3>5. recv_pkt_num <= StreamLen /\ recv_pkt_num \in Nat /\ StreamLen \in Nat
      BY <1>1, <1>6, <1>14, <3>2, DataAssumption DEF AcksAreBehind, TypeOK
    <3> QED
      BY <3>4, <3>5
  <2> QED
    BY <2>1, <2>2
<1>17. InOrderDelivery' /\ OfoIsAhead'
  BY <1>6 DEF IndInv, InOrderDelivery, OfoIsAhead
<1>18. (IsFiniteSet(ofo) /\ OfoBytesCover)'
  BY <1>6 DEF IndInv, OfoBytesCover
<1> QED
  BY <1>11, <1>12, <1>13, <1>14, <1>15, <1>16, <1>17, <1>18 DEF IndInv

\* A cumulative acknowledgement releases only packets the receiver has.
LEMMA PackInv ==
  ASSUME IndInv, NEW a \in Nat, NEW dup \in BOOLEAN, fp_on_pack(a, dup)
  PROVE  IndInv'
<1> USE DEF fp_on_pack, receiverVars
<1>1. inflight' \in SUBSET inflight /\ packs' \in SUBSET packs
  BY DEF Unacked
<1>2. TypeOK'
  BY <1>1 DEF IndInv, TypeOK
<1>3. QueueIsRest' /\ InOrderDelivery' /\ OfoIsAhead'
  BY DEF IndInv, QueueIsRest, InOrderDelivery, OfoIsAhead
<1>4. PacketsAreSent' /\ AcksAreBehind' /\ CompleteIsDelivered'
  BY <1>1 DEF IndInv, PacketsAreSent, AcksAreBehind, CompleteIsDelivered
<1>5. ReleasedIsDelivered'
  <2> SUFFICES ASSUME mem # "corrupt", NEW i \in 1 .. send_pkt_num,
                      i > recv_pkt_num
               PROVE  i \in Numbers(Unacked(a))
    BY DEF ReleasedIsDelivered, Numbers
  <2>1. a <= recv_pkt_num /\ recv_pkt_num \in Nat
    BY DEF IndInv, AcksAreBehind, TypeOK
  <2>2. PICK p \in inflight : p.pkt_num = i
    BY DEF IndInv, ReleasedIsDelivered, Numbers
  <2>3. p \in Unacked(a)
    BY <2>1, <2>2 DEF Unacked
  <2> QED
    BY <2>2, <2>3 DEF Numbers
<1>6. (IsFiniteSet(ofo) /\ OfoBytesCover)'
  BY DEF IndInv, OfoBytesCover
<1> QED
  BY <1>2, <1>3, <1>4, <1>5, <1>6 DEF IndInv

\* A retransmission asked for by NACK repeats a packet already cut.
LEMMA NackInv ==
  ASSUME IndInv, NEW n \in Nat, NEW dup \in BOOLEAN, fp_on_nack(n, dup)
  PROVE  IndInv'
<1> USE DEF fp_on_nack, receiverVars, senderVars
<1>1. datas' \in SUBSET (datas \cup inflight) /\ nacks' \in SUBSET nacks
  BY DEF Gap
<1>2. TypeOK'
  BY <1>1 DEF IndInv, TypeOK
<1>3. QueueIsRest' /\ InOrderDelivery' /\ OfoIsAhead' /\ AcksAreBehind'
  BY DEF IndInv, QueueIsRest, InOrderDelivery, OfoIsAhead, AcksAreBehind
<1>4. PacketsAreSent'
  BY <1>1 DEF IndInv, PacketsAreSent
<1>5. ReleasedIsDelivered' /\ CompleteIsDelivered'
  BY DEF IndInv, ReleasedIsDelivered, CompleteIsDelivered, Numbers
<1>6. (IsFiniteSet(ofo) /\ OfoBytesCover)'
  BY DEF IndInv, OfoBytesCover
<1> QED
  BY <1>2, <1>3, <1>4, <1>5, <1>6 DEF IndInv

\* What taking a datagram tells about it and leaves alone.
LEMMA TakeFacts ==
  ASSUME IndInv, NEW p, NEW dup \in BOOLEAN, Take(p, dup)
  PROVE  /\ mem = "ok"
         /\ p \in Packet /\ p.data = p.pkt_num
         /\ p.pkt_num \in Nat /\ p.pkt_num >= 1 /\ p.pkt_num <= send_pkt_num
         /\ datas' \in SUBSET datas
         /\ UNCHANGED <<filled, fill_done, txq, send_pkt_num, inflight, tx_notified>>
<1>1. p \in datas /\ datas \in SUBSET Packet /\ send_pkt_num \in Nat
  BY DEF Take, IndInv, TypeOK
<1>2. p.data = p.pkt_num /\ p.pkt_num \in 1 .. send_pkt_num
  BY <1>1 DEF IndInv, PacketsAreSent
<1> QED
  BY <1>1, <1>2 DEF Take, senderVars

\* A duplicate changes nothing but the acknowledgement.
LEMMA DuplicateInv ==
  ASSUME IndInv, NEW p, NEW dup \in BOOLEAN, NEW due \in BOOLEAN,
         OnDuplicate(p, dup, due)
  PROVE  IndInv'
<1>1. Take(p, dup)
  BY DEF OnDuplicate
<1>2. /\ datas' \in SUBSET datas
      /\ UNCHANGED <<filled, fill_done, txq, send_pkt_num, inflight, tx_notified>>
  BY <1>1, TakeFacts
<1>3. /\ packs' \in SUBSET (packs \cup {recv_pkt_num})
      /\ delivered_since_pack' \in {0, delivered_since_pack}
      /\ UNCHANGED <<recv_pkt_num, ofo, ofo_bytes, delivered, mem, nacks>>
  BY DEF OnDuplicate
<1>4. TypeOK'
  BY <1>2, <1>3 DEF IndInv, TypeOK
<1>5. QueueIsRest' /\ InOrderDelivery' /\ OfoIsAhead'
  BY <1>2, <1>3 DEF IndInv, QueueIsRest, InOrderDelivery, OfoIsAhead
<1>6. PacketsAreSent' /\ CompleteIsDelivered'
  BY <1>2, <1>3 DEF IndInv, PacketsAreSent, CompleteIsDelivered
<1>7. AcksAreBehind'
  BY <1>2, <1>3 DEF IndInv, AcksAreBehind, TypeOK
<1>8. ReleasedIsDelivered'
  BY <1>2, <1>3 DEF IndInv, ReleasedIsDelivered, Numbers
<1>9. (IsFiniteSet(ofo) /\ OfoBytesCover)'
  BY <1>3 DEF IndInv, OfoBytesCover
<1> QED
  BY <1>4, <1>5, <1>6, <1>7, <1>8, <1>9 DEF IndInv

\* A packet beyond a gap is buffered under its own number.
LEMMA GapInv ==
  ASSUME IndInv, NEW p, NEW dup \in BOOLEAN, NEW due \in BOOLEAN,
         OnGap(p, dup, due)
  PROVE  IndInv'
<1>1. Take(p, dup)
  BY DEF OnGap
<1>2. /\ mem = "ok"
      /\ p \in Packet /\ p.data = p.pkt_num
      /\ p.pkt_num \in Nat /\ p.pkt_num >= 1 /\ p.pkt_num <= send_pkt_num
      /\ datas' \in SUBSET datas
      /\ UNCHANGED <<filled, fill_done, txq, send_pkt_num, inflight, tx_notified>>
  BY <1>1, TakeFacts
<1>3. /\ p.pkt_num > recv_pkt_num + 1
      /\ nacks' \in SUBSET (nacks \cup {recv_pkt_num})
      /\ UNCHANGED <<recv_pkt_num, delivered_since_pack, delivered, mem, packs>>
  BY DEF OnGap
<1>4. /\ ofo' \in SUBSET (ofo \cup {p})
      /\ \/ ofo' = Buffer(p) /\ ofo_bytes' = ofo_bytes + 1
         \/ ofo' = ofo /\ ofo_bytes' = ofo_bytes
  BY DEF OnGap, Buffer
<1>5. /\ send_pkt_num \in Nat /\ recv_pkt_num \in Nat /\ ofo_bytes \in Nat
      /\ IsFiniteSet(ofo) /\ ofo_bytes >= Cardinality(ofo)
  BY DEF IndInv, TypeOK, OfoBytesCover
<1>6. TypeOK'
  BY <1>2, <1>3, <1>4 DEF IndInv, TypeOK
<1>7. QueueIsRest' /\ InOrderDelivery' /\ AcksAreBehind' /\ CompleteIsDelivered'
  BY <1>2, <1>3 DEF IndInv, QueueIsRest, InOrderDelivery, AcksAreBehind,
                    CompleteIsDelivered
<1>8. PacketsAreSent'
  BY <1>2, <1>4, <1>5 DEF IndInv, PacketsAreSent
<1>9. ReleasedIsDelivered'
  BY <1>2, <1>3 DEF IndInv, ReleasedIsDelivered, Numbers
<1>10. OfoIsAhead'
  BY <1>2, <1>3, <1>4 DEF IndInv, OfoIsAhead
<1>11. (IsFiniteSet(ofo) /\ OfoBytesCover)'
  <2>1. IsFiniteSet(Buffer(p)) /\ Cardinality(Buffer(p)) <= Cardinality(ofo) + 1
    BY <1>5, BufferGrowsByOne
  <2>2. Cardinality(Buffer(p)) \in Nat /\ Cardinality(ofo) \in Nat
    BY <1>5, <2>1, FS_CardinalityType
  <2>3. CASE ofo' = Buffer(p) /\ ofo_bytes' = ofo_bytes + 1
    <3>1. ofo_bytes + 1 >= Cardinality(Buffer(p))
      BY <1>5, <2>1, <2>2
    <3> QED
      BY <2>1, <2>3, <3>1 DEF OfoBytesCover
  <2>4. CASE ofo' = ofo /\ ofo_bytes' = ofo_bytes
    BY <1>5, <2>4 DEF OfoBytesCover
  <2> QED
    BY <1>4, <2>3, <2>4
<1> QED
  BY <1>6, <1>7, <1>8, <1>9, <1>10, <1>11 DEF IndInv

\* fp_maybe_pack acknowledges r or nothing.
LEMMA MaybePackFacts ==
  ASSUME NEW n \in Nat, NEW r, NEW due \in BOOLEAN, fp_maybe_pack(n, r, due)
  PROVE  packs' \in SUBSET (packs \cup {r}) /\ delivered_since_pack' \in Nat
BY DEF fp_maybe_pack

\* s is the k items that follow item m.
Items(s, m, k) ==
  s \in Seq(Nat) /\ Len(s) = k /\ \A i \in 1 .. k : s[i] = m + i

\* Delivering item r+1 after the items 1 .. r, followed by the items
\* r+2 .. r+1+k, leaves the items 1 .. r+1+k.
LEMMA DeliveryExtends ==
  ASSUME NEW s, NEW r \in Nat, Items(s, 0, r),
         NEW t, NEW k \in Nat, Items(t, r + 1, k)
  PROVE  Items(Append(s, r + 1) \o t, 0, r + 1 + k)
<1>0. /\ s \in Seq(Nat) /\ Len(s) = r /\ \A i \in 1 .. r : s[i] = i
      /\ t \in Seq(Nat) /\ Len(t) = k /\ \A i \in 1 .. k : t[i] = r + 1 + i
  BY DEF Items
<1> DEFINE u == Append(s, r + 1)
<1>1. /\ u \in Seq(Nat) /\ Len(u) = r + 1
      /\ \A i \in 1 .. r : u[i] = s[i]
      /\ u[r + 1] = r + 1
  BY <1>0, AppendProperties
<1> HIDE DEF u
<1>2. /\ u \o t \in Seq(Nat)
      /\ Len(u \o t) = r + 1 + k
      /\ \A i \in 1 .. r + 1 + k :
            (u \o t)[i] = IF i <= r + 1 THEN u[i] ELSE t[i - (r + 1)]
  <2>1. /\ u \o t \in Seq(Nat)
        /\ Len(u \o t) = Len(u) + Len(t)
        /\ \A i \in 1 .. Len(u) + Len(t) :
              (u \o t)[i] = IF i <= Len(u) THEN u[i] ELSE t[i - Len(u)]
    BY <1>0, <1>1, ConcatProperties
  <2>2. Len(u) = r + 1 /\ Len(t) = k
    BY <1>0, <1>1
  <2> QED
    BY <2>1, <2>2, Zenon
<1>3. ASSUME NEW i \in 1 .. r + 1 + k
      PROVE  (u \o t)[i] = i
  <2>1. CASE i <= r
    <3>1. (u \o t)[i] = u[i] /\ i \in 1 .. r
      BY <1>2, <2>1
    <3> QED
      BY <1>0, <1>1, <3>1
  <2>2. CASE i = r + 1
    BY <1>1, <1>2, <2>2
  <2>3. CASE i > r + 1
    <3>1. (u \o t)[i] = t[i - (r + 1)]
      BY <1>2, <2>3
    <3>2. i - (r + 1) \in 1 .. k
      BY <2>3
    <3>3. t[i - (r + 1)] = r + 1 + (i - (r + 1))
      BY <1>0, <3>2
    <3> QED
      BY <3>1, <3>3
  <2>4. i <= r \/ i = r + 1 \/ i > r + 1
    OBVIOUS
  <2> QED
    BY <2>1, <2>2, <2>3, <2>4, Zenon
<1> QED
  BY <1>2, <1>3 DEF u, Items

\* The next packet in order, with the flush of the packets it connects.
LEMMA NextInv ==
  ASSUME IndInv, NEW p, NEW dup \in BOOLEAN, NEW due \in BOOLEAN,
         OnNext(p, dup, due)
  PROVE  IndInv'
<1>1. Take(p, dup)
  BY DEF OnNext
<1>2. /\ mem = "ok"
      /\ p \in Packet /\ p.data = p.pkt_num
      /\ p.pkt_num \in Nat /\ p.pkt_num >= 1 /\ p.pkt_num <= send_pkt_num
      /\ datas' \in SUBSET datas
      /\ UNCHANGED <<filled, fill_done, txq, send_pkt_num, inflight, tx_notified>>
  BY <1>1, TakeFacts
<1>3. p.pkt_num = recv_pkt_num + 1 /\ UNCHANGED <<mem, nacks>>
  BY DEF OnNext
<1>4. PICK k \in 0 .. Cardinality(ofo) :
       /\ Run(p.pkt_num, k)
       /\ recv_pkt_num' = p.pkt_num + k
       /\ delivered' = Append(delivered, p.data) \o Flushed(p.pkt_num, k)
       /\ ofo' = {q \in ofo : q.pkt_num > p.pkt_num + k}
       /\ ofo_bytes' = ofo_bytes - k
       /\ fp_maybe_pack(delivered_since_pack + 1 + k, p.pkt_num + k, due)
  BY DEF OnNext
<1>5. /\ send_pkt_num \in Nat /\ recv_pkt_num \in Nat /\ ofo_bytes \in Nat
      /\ delivered_since_pack \in Nat /\ ofo \in SUBSET Packet
      /\ delivered \in Seq(Nat) /\ packs \in SUBSET Nat
      /\ IsFiniteSet(ofo) /\ ofo_bytes >= Cardinality(ofo)
  BY DEF IndInv, TypeOK, OfoBytesCover
<1>6. Cardinality(ofo) \in Nat /\ k \in Nat /\ k <= Cardinality(ofo)
  BY <1>4, <1>5, FS_CardinalityType
<1>7. \A q \in ofo : q.data = q.pkt_num /\ q.pkt_num \in 1 .. send_pkt_num
  BY DEF IndInv, PacketsAreSent
<1>8. /\ packs' \in SUBSET (packs \cup {p.pkt_num + k})
      /\ delivered_since_pack' \in Nat
  <2>1. delivered_since_pack + 1 + k \in Nat
    BY <1>5, <1>6
  <2> QED
    BY <1>4, <2>1, MaybePackFacts
<1>9. /\ Flushed(p.pkt_num, k) \in Seq(Nat)
      /\ Len(Flushed(p.pkt_num, k)) = k
      /\ \A i \in 1 .. k : Flushed(p.pkt_num, k)[i] = recv_pkt_num + 1 + i
  <2>1. \A q \in ofo : q.data = q.pkt_num
    BY <1>7
  <2>2. /\ Flushed(p.pkt_num, k) \in Seq(Nat)
        /\ Len(Flushed(p.pkt_num, k)) = k
        /\ \A i \in 1 .. k : Flushed(p.pkt_num, k)[i] = p.pkt_num + i
    BY <1>2, <1>4, <1>6, <2>1, FlushedItems
  <2> QED
    BY <1>3, <2>2
<1>10. Len(delivered) = recv_pkt_num /\ \A i \in 1 .. recv_pkt_num : delivered[i] = i
  BY <1>2 DEF IndInv, InOrderDelivery
<1>11. /\ delivered' \in Seq(Nat)
       /\ Len(delivered') = recv_pkt_num'
       /\ \A i \in 1 .. recv_pkt_num' : delivered'[i] = i
  <2>1. p.data = recv_pkt_num + 1 /\ recv_pkt_num' = recv_pkt_num + 1 + k
    BY <1>2, <1>3, <1>4
  <2>2. delivered' = Append(delivered, recv_pkt_num + 1) \o Flushed(p.pkt_num, k)
    BY <1>4, <2>1
  <2>3. Items(delivered, 0, recv_pkt_num)
    BY <1>5, <1>10 DEF Items
  <2>4. Items(Flushed(p.pkt_num, k), recv_pkt_num + 1, k)
    BY <1>9 DEF Items
  <2>5. Items(delivered', 0, recv_pkt_num')
    BY <1>5, <1>6, <2>1, <2>2, <2>3, <2>4, DeliveryExtends
  <2> QED
    BY <1>4, <2>5 DEF Items
<1>12. recv_pkt_num' \in Nat /\ recv_pkt_num' >= recv_pkt_num
       /\ recv_pkt_num' <= send_pkt_num
  <2>1. recv_pkt_num' = recv_pkt_num + 1 + k
    BY <1>3, <1>4
  <2>2. CASE k = 0
    BY <1>2, <1>3, <1>5, <2>1, <2>2
  <2>3. CASE k > 0
    <3>1. p.pkt_num + k \in Numbers(ofo)
      BY <1>4, <1>6, <2>3 DEF Run
    <3>2. p.pkt_num + k <= send_pkt_num
      BY <1>5, <1>7, <3>1 DEF Numbers
    <3> QED
      BY <1>3, <1>5, <1>6, <2>1, <3>2
  <2> QED
    BY <1>6, <2>2, <2>3
<1>13. IsFiniteSet(ofo') /\ Cardinality(ofo') + k <= Cardinality(ofo)
  BY <1>2, <1>4, <1>5, <1>6, FlushShrinksBuffer
<1>14. Cardinality(ofo') \in Nat
  BY <1>13, FS_CardinalityType
<1>15. ofo_bytes' \in Nat /\ ofo_bytes' >= Cardinality(ofo')
  BY <1>4, <1>5, <1>6, <1>13, <1>14
<1>16. TypeOK'
  <2>1. packs' \in SUBSET Nat
    BY <1>2, <1>5, <1>6, <1>8
  <2> QED
    BY <1>2, <1>3, <1>4, <1>8, <1>11, <1>12, <1>15, <2>1 DEF IndInv, TypeOK
<1>17. QueueIsRest'
  BY <1>2 DEF IndInv, QueueIsRest
<1>18. PacketsAreSent'
  BY <1>2, <1>4 DEF IndInv, PacketsAreSent
<1>19. AcksAreBehind'
  <2>1. \A a \in packs : a <= recv_pkt_num
    BY <1>2 DEF IndInv, AcksAreBehind
  <2>2. \A a \in packs' : a <= recv_pkt_num'
    BY <1>4, <1>5, <1>8, <1>12, <2>1
  <2> QED
    BY <1>2, <1>12, <2>2 DEF AcksAreBehind
<1>20. InOrderDelivery'
  BY <1>11, <1>12 DEF InOrderDelivery
<1>21. ReleasedIsDelivered'
  <2>1. \A i \in 1 .. send_pkt_num : i > recv_pkt_num => i \in Numbers(inflight)
    BY <1>2 DEF IndInv, ReleasedIsDelivered
  <2>2. \A i \in 1 .. send_pkt_num : i > recv_pkt_num' => i > recv_pkt_num
    BY <1>5, <1>12
  <2> QED
    BY <1>2, <2>1, <2>2 DEF ReleasedIsDelivered, Numbers
<1>22. CompleteIsDelivered'
  <2>1. send_pkt_num <= StreamLen
    <3>1. send_pkt_num + Len(txq) = filled /\ filled \in 0 .. StreamLen
          /\ Len(txq) \in Nat
      BY DEF IndInv, QueueIsRest, TypeOK
    <3> QED
      BY <1>5, <3>1, DataAssumption
  <2>2. tx_notified => recv_pkt_num = StreamLen
    BY <1>2 DEF IndInv, CompleteIsDelivered
  <2>3. tx_notified => recv_pkt_num' = StreamLen
    BY <1>5, <1>12, <2>1, <2>2, DataAssumption
  <2> QED
    BY <1>2, <2>3 DEF CompleteIsDelivered
<1>23. OfoIsAhead'
  <2>1. ASSUME NEW q \in ofo'
        PROVE  q.pkt_num > recv_pkt_num' + 1
    <3>1. q \in ofo /\ q.pkt_num > recv_pkt_num' /\ q.pkt_num \in Nat
      BY <1>4, <1>5 DEF Packet
    <3>2. q.pkt_num # recv_pkt_num' + 1
      <4>1. recv_pkt_num' + 1 \notin Numbers(ofo)
        BY <1>4 DEF Run
      <4> QED
        BY <3>1, <4>1 DEF Numbers
    <3> QED
      BY <1>12, <3>1, <3>2
  <2> QED
    BY <2>1 DEF OfoIsAhead
<1> QED
  BY <1>13, <1>15, <1>16, <1>17, <1>18, <1>19, <1>20, <1>21, <1>22, <1>23
     DEF IndInv, OfoBytesCover

\* The step into undefined behaviour has delivered the in-order packet and
\* leaves the sender and the network's packets alone.
LEMMA UseAfterFreeInv ==
  ASSUME IndInv, NEW p, NEW dup \in BOOLEAN, OnNextUseAfterFree(p, dup)
  PROVE  IndInv'
<1>1. Take(p, dup)
  BY DEF OnNextUseAfterFree
<1>2. /\ mem = "ok"
      /\ p \in Packet /\ p.data = p.pkt_num
      /\ p.pkt_num \in Nat /\ p.pkt_num >= 1 /\ p.pkt_num <= send_pkt_num
      /\ datas' \in SUBSET datas
      /\ UNCHANGED <<filled, fill_done, txq, send_pkt_num, inflight, tx_notified>>
  BY <1>1, TakeFacts
<1>3. /\ p.pkt_num = recv_pkt_num + 1
      /\ mem' \in {"aborted", "corrupt"}
      /\ recv_pkt_num' = p.pkt_num
      /\ UNCHANGED <<ofo, ofo_bytes, delivered_since_pack, packs, nacks>>
  BY DEF OnNextUseAfterFree
<1>4. /\ send_pkt_num \in Nat /\ recv_pkt_num \in Nat /\ delivered \in Seq(Nat)
      /\ packs \in SUBSET Nat /\ StreamLen \in Nat
  BY DataAssumption DEF IndInv, TypeOK
<1>5. Len(delivered) = recv_pkt_num /\ \A i \in 1 .. recv_pkt_num : delivered[i] = i
  BY <1>2 DEF IndInv, InOrderDelivery
<1> DEFINE u == Append(delivered, p.data)
<1>6. /\ u \in Seq(Nat) /\ Len(u) = recv_pkt_num + 1
      /\ \A i \in 1 .. recv_pkt_num : u[i] = delivered[i]
      /\ u[recv_pkt_num + 1] = recv_pkt_num + 1
  BY <1>2, <1>3, <1>4, <1>5, AppendProperties
<1> HIDE DEF u
<1>7. \A i \in 1 .. recv_pkt_num + 1 : u[i] = i
  <2> TAKE i \in 1 .. recv_pkt_num + 1
  <2>1. i \in 1 .. recv_pkt_num \/ i = recv_pkt_num + 1
    BY <1>4
  <2> QED
    BY <1>5, <1>6, <2>1
<1>8. /\ <<0>> \in Seq(Nat) /\ Len(<<0>>) = 1
      /\ u \o <<0>> \in Seq(Nat)
      /\ Len(u \o <<0>>) = Len(u) + Len(<<0>>)
      /\ \A i \in 1 .. Len(u) + Len(<<0>>) : (u \o <<0>>)[i] =
            IF i <= Len(u) THEN u[i] ELSE <<0>>[i - Len(u)]
  <2>1. <<0>> \in Seq(Nat) /\ Len(<<0>>) = 1
    OBVIOUS
  <2> QED
    BY <1>6, <2>1, ConcatProperties
<1>9. /\ delivered' \in Seq(Nat)
      /\ Len(delivered') >= recv_pkt_num + 1
      /\ \A i \in 1 .. recv_pkt_num + 1 : delivered'[i] = i
  <2>1. delivered' = u \/ delivered' = u \o <<0>>
    BY DEF OnNextUseAfterFree, u
  <2>2. CASE delivered' = u
    BY <1>4, <1>6, <1>7, <2>2
  <2>3. CASE delivered' = u \o <<0>>
    <3>1. Len(u \o <<0>>) = recv_pkt_num + 2
      BY <1>4, <1>6, <1>8
    <3>2. \A i \in 1 .. recv_pkt_num + 1 : (u \o <<0>>)[i] = u[i]
      BY <1>4, <1>6, <1>8
    <3> QED
      BY <1>4, <1>7, <1>8, <2>3, <3>1, <3>2
  <2> QED
    BY <2>1, <2>2, <2>3
<1>10. TypeOK'
  BY <1>2, <1>3, <1>9 DEF IndInv, TypeOK
<1>11. QueueIsRest'
  BY <1>2 DEF IndInv, QueueIsRest
<1>12. PacketsAreSent'
  BY <1>2, <1>3 DEF IndInv, PacketsAreSent
<1>13. AcksAreBehind'
  <2>1. \A a \in packs : a <= recv_pkt_num
    BY <1>2 DEF IndInv, AcksAreBehind
  <2>2. \A a \in packs : a <= recv_pkt_num + 1
    BY <1>4, <2>1
  <2> QED
    BY <1>2, <1>3, <2>2 DEF AcksAreBehind
<1>14. InOrderDelivery'
  <2>1. Len(delivered') \in Nat
    BY <1>9
  <2> QED
    BY <1>3, <1>4, <1>9, <2>1 DEF InOrderDelivery
<1>15. ReleasedIsDelivered'
  <2>1. \A i \in 1 .. send_pkt_num : i > recv_pkt_num => i \in Numbers(inflight)
    BY <1>2 DEF IndInv, ReleasedIsDelivered
  <2>2. \A i \in 1 .. send_pkt_num : i > recv_pkt_num' => i > recv_pkt_num
    BY <1>3, <1>4
  <2> QED
    BY <1>2, <2>1, <2>2 DEF ReleasedIsDelivered, Numbers
<1>16. CompleteIsDelivered'
  <2>1. send_pkt_num <= StreamLen
    <3>1. send_pkt_num + Len(txq) = filled /\ filled \in 0 .. StreamLen
          /\ Len(txq) \in Nat
      BY DEF IndInv, QueueIsRest, TypeOK
    <3> QED
      BY <1>4, <3>1
  <2>2. tx_notified => recv_pkt_num = StreamLen
    BY <1>2 DEF IndInv, CompleteIsDelivered
  <2>3. ~tx_notified
    BY <1>2, <1>3, <1>4, <2>1, <2>2
  <2> QED
    BY <1>2, <2>3 DEF CompleteIsDelivered
<1>17. OfoIsAhead' /\ (IsFiniteSet(ofo) /\ OfoBytesCover)'
  BY <1>3 DEF IndInv, OfoIsAhead, OfoBytesCover
<1> QED
  BY <1>10, <1>11, <1>12, <1>13, <1>14, <1>15, <1>16, <1>17 DEF IndInv

\* Steps that touch only acknowledgements or lose datagrams.
LEMMA ReceiverTickInv ==
  ASSUME IndInv, NEW due \in BOOLEAN, ReceiverTick(due)
  PROVE  IndInv'
<1>1. delivered_since_pack \in Nat /\ recv_pkt_num \in Nat
  BY DEF IndInv, TypeOK
<1>2. packs' \in SUBSET (packs \cup {recv_pkt_num}) /\ delivered_since_pack' \in Nat
  BY <1>1, MaybePackFacts DEF ReceiverTick
<1>3. /\ UNCHANGED <<filled, fill_done, txq, send_pkt_num, inflight, tx_notified>>
      /\ UNCHANGED <<recv_pkt_num, ofo, ofo_bytes, delivered, mem, datas, nacks>>
  BY DEF ReceiverTick, senderVars
<1>4. TypeOK'
  BY <1>1, <1>2, <1>3 DEF IndInv, TypeOK
<1>5. QueueIsRest' /\ PacketsAreSent' /\ InOrderDelivery' /\ OfoIsAhead'
  BY <1>3 DEF IndInv, QueueIsRest, PacketsAreSent, InOrderDelivery, OfoIsAhead
<1>6. AcksAreBehind'
  BY <1>1, <1>2, <1>3 DEF IndInv, AcksAreBehind
<1>7. ReleasedIsDelivered' /\ CompleteIsDelivered'
  BY <1>3 DEF IndInv, ReleasedIsDelivered, CompleteIsDelivered, Numbers
<1>8. (IsFiniteSet(ofo) /\ OfoBytesCover)'
  BY <1>3 DEF IndInv, OfoBytesCover
<1> QED
  BY <1>4, <1>5, <1>6, <1>7, <1>8 DEF IndInv

\* Steps of the network and of a corrupt receiver.
LEMMA NetworkInv ==
  ASSUME IndInv,
         \/ \E a \in 0 .. StreamLen : CorruptPack(a)
         \/ Lose
         \/ UNCHANGED vars
  PROVE  IndInv'
<1>1. /\ UNCHANGED <<filled, fill_done, txq, send_pkt_num, inflight, tx_notified>>
      /\ UNCHANGED <<recv_pkt_num, ofo, ofo_bytes, delivered_since_pack,
                     delivered, mem>>
  BY DEF CorruptPack, Lose, senderVars, receiverVars, vars
<1>2. /\ datas' \in SUBSET datas /\ nacks' \in SUBSET nacks
      /\ packs' \in SUBSET Nat
      /\ mem # "corrupt" => packs' \in SUBSET packs
  <2>1. packs \in SUBSET Nat /\ StreamLen \in Nat
    BY DataAssumption DEF IndInv, TypeOK
  <2>2. CASE \E a \in 0 .. StreamLen : CorruptPack(a)
    BY <2>1, <2>2 DEF CorruptPack
  <2>3. CASE Lose
    BY <2>1, <2>3 DEF Lose
  <2>4. CASE UNCHANGED vars
    BY <2>1, <2>4 DEF vars, netVars
  <2> QED
    BY <2>2, <2>3, <2>4
<1>3. TypeOK'
  BY <1>1, <1>2 DEF IndInv, TypeOK
<1>4. QueueIsRest' /\ PacketsAreSent' /\ InOrderDelivery' /\ OfoIsAhead'
  BY <1>1, <1>2 DEF IndInv, QueueIsRest, PacketsAreSent, InOrderDelivery, OfoIsAhead
<1>5. AcksAreBehind'
  BY <1>1, <1>2 DEF IndInv, AcksAreBehind
<1>6. ReleasedIsDelivered' /\ CompleteIsDelivered'
  BY <1>1 DEF IndInv, ReleasedIsDelivered, CompleteIsDelivered, Numbers
<1>7. (IsFiniteSet(ofo) /\ OfoBytesCover)'
  BY <1>1 DEF IndInv, OfoBytesCover
<1> QED
  BY <1>3, <1>4, <1>5, <1>6, <1>7 DEF IndInv

\* Every step of the data plane preserves the inductive invariant.
LEMMA StepInv == IndInv /\ [Next]_vars => IndInv'
<1> SUFFICES ASSUME IndInv, [Next]_vars PROVE IndInv'
  OBVIOUS
<1>1. packs \in SUBSET Nat /\ nacks \in SUBSET Nat
  BY DEF IndInv, TypeOK
<1>2. ASSUME NEW k \in 0 .. FillMax, NEW c \in 0 .. FP_SEND_BUDGET,
             NEW final \in BOOLEAN, NEW stall \in BOOLEAN,
             SenderTick(k, final, c, stall)
      PROVE  IndInv'
  <2>1. k \in Nat /\ c \in Nat
    BY DataAssumption
  <2> QED
    BY <1>2, <2>1, SenderTickInv
<1>3. ASSUME NEW a \in packs, NEW dup \in BOOLEAN, fp_on_pack(a, dup)
      PROVE  IndInv'
  BY <1>1, <1>3, PackInv
<1>4. ASSUME NEW n \in nacks, NEW dup \in BOOLEAN, fp_on_nack(n, dup)
      PROVE  IndInv'
  BY <1>1, <1>4, NackInv
<1>5. ASSUME NEW p \in datas, NEW dup \in BOOLEAN, NEW due \in BOOLEAN,
             fp_on_data(p, dup, due)
      PROVE  IndInv'
  BY <1>5, DuplicateInv, NextInv, UseAfterFreeInv, GapInv DEF fp_on_data
<1>6. ASSUME NEW due \in BOOLEAN, ReceiverTick(due)
      PROVE  IndInv'
  BY <1>6, ReceiverTickInv
<1>7. CASE (\E a \in 0 .. StreamLen : CorruptPack(a)) \/ Lose \/ UNCHANGED vars
  BY <1>7, NetworkInv
<1> QED
  BY <1>2, <1>3, <1>4, <1>5, <1>6, <1>7 DEF Next

\* The inductive invariant holds in every behaviour of the data plane.
THEOREM DataInvariant == Spec => []IndInv
<1>1. Init => IndInv
  BY InitInv
<1>2. IndInv /\ [Next]_vars => IndInv'
  BY StepInv
<1> QED
  BY <1>1, <1>2, PTL DEF Spec

\* The state of both peers and of the network is always well typed; in
\* particular the buffer's counter never becomes negative.
THEOREM TypeCorrect == Spec => []TypeOK
<1>1. IndInv => TypeOK
  BY DEF IndInv
<1> QED
  BY <1>1, DataInvariant, PTL

\* fp_on_data delivers the stream in order, without loss or repetition.
THEOREM InOrderDeliveryHolds == Spec => []InOrderDelivery
<1>1. IndInv => InOrderDelivery
  BY DEF IndInv
<1> QED
  BY <1>1, DataInvariant, PTL

\* fp_on_pack releases a packet only after it has been delivered.
THEOREM ReleasedIsDeliveredHolds == Spec => []ReleasedIsDelivered
<1>1. IndInv => ReleasedIsDelivered
  BY DEF IndInv
<1> QED
  BY <1>1, DataInvariant, PTL

\* on_tx_complete fires only when the receiver has the whole stream.
THEOREM CompleteIsDeliveredHolds == Spec => []CompleteIsDelivered
<1>1. IndInv => CompleteIsDelivered
  BY DEF IndInv
<1> QED
  BY <1>1, DataInvariant, PTL

\* The out-of-order buffer never holds a packet that is due or delivered.
THEOREM OfoIsAheadHolds == Spec => []OfoIsAhead
<1>1. IndInv => OfoIsAhead
  BY DEF IndInv
<1> QED
  BY <1>1, DataInvariant, PTL

\* The counter of the out-of-order buffer covers its content.
THEOREM OfoBytesCoverHolds == Spec => []OfoBytesCover
<1>1. IndInv => OfoBytesCover
  BY DEF IndInv
<1> QED
  BY <1>1, DataInvariant, PTL

\* Two runs of numbers make one, and the end of a run is a run.
LEMMA RunsJoin ==
  ASSUME NEW lo \in Nat, NEW m \in Nat, NEW c \in Nat, lo <= m
  PROVE  (lo + 1 .. m) \cup (m + 1 .. m + c) = lo + 1 .. m + c
  OBVIOUS

LEMMA RunEnds ==
  ASSUME NEW lo \in Nat, NEW hi \in Nat, NEW a \in Nat, lo <= hi
  PROVE  \E l \in 0 .. hi : {n \in lo + 1 .. hi : n > a} = l + 1 .. hi
<1>1. CASE a <= lo
  <2>1. {n \in lo + 1 .. hi : n > a} = lo + 1 .. hi
    BY <1>1
  <2> QED
    BY <2>1
<1>2. CASE lo < a /\ a <= hi
  <2>1. {n \in lo + 1 .. hi : n > a} = a + 1 .. hi
    BY <1>2
  <2> QED
    BY <1>2, <2>1
<1>3. CASE a > hi
  <2>1. {n \in lo + 1 .. hi : n > a} = hi + 1 .. hi
    BY <1>3
  <2> QED
    BY <2>1
<1> QED
  BY <1>1, <1>2, <1>3

\* A tick extends the window at its end, within FP_SEND_CACHE.
LEMMA TickKeepsWindow ==
  ASSUME TypeOK, IsFiniteSet(inflight), InflightIsWindow,
         NEW k \in 0 .. FillMax, NEW c \in 0 .. FP_SEND_BUDGET,
         NEW final \in BOOLEAN, NEW stall \in BOOLEAN,
         SenderTick(k, final, c, stall)
  PROVE  IsFiniteSet(inflight)' /\ InflightIsWindow'
<1> DEFINE q   == txq \o [i \in 1 .. k |-> filled + i]
           cut == {[pkt_num |-> send_pkt_num + i, data |-> q[i]] : i \in 1 .. c}
<1>1. /\ send_pkt_num \in Nat /\ c \in Nat
      /\ send_pkt_num' = send_pkt_num + c /\ inflight' = inflight \cup cut
  BY DataAssumption DEF SenderTick, TypeOK
<1>2. IsFiniteSet(cut) /\ Cardinality(cut) <= c
  <2> DEFINE packet == [i \in 1 .. c |-> [pkt_num |-> send_pkt_num + i, data |-> q[i]]]
  <2>1. IsFiniteSet(1 .. c) /\ Cardinality(1 .. c) = c
    BY <1>1, FS_Interval
  <2>2. packet \in Surjection(1 .. c, cut)
    BY DEF Surjection
  <2> HIDE DEF packet, cut
  <2> QED
    BY <2>1, <2>2, FS_Surjection
<1>3. Numbers(cut) = send_pkt_num + 1 .. send_pkt_num + c
  <2>1. ASSUME NEW m \in Numbers(cut)
        PROVE  m \in send_pkt_num + 1 .. send_pkt_num + c
    <3>1. PICK p \in cut : p.pkt_num = m
      BY <2>1 DEF Numbers
    <3>2. PICK i \in 1 .. c : p = [pkt_num |-> send_pkt_num + i, data |-> q[i]]
      OBVIOUS
    <3>3. m = send_pkt_num + i
      BY <3>1, <3>2
    <3> QED
      BY <1>1, <3>3
  <2>2. ASSUME NEW m \in send_pkt_num + 1 .. send_pkt_num + c
        PROVE  m \in Numbers(cut)
    <3>1. m - send_pkt_num \in 1 .. c /\ send_pkt_num + (m - send_pkt_num) = m
      BY <1>1, <2>2
    <3>2. [pkt_num |-> send_pkt_num + (m - send_pkt_num),
           data |-> q[m - send_pkt_num]] \in cut
      BY <3>1
    <3>3. [pkt_num |-> send_pkt_num + (m - send_pkt_num),
           data |-> q[m - send_pkt_num]].pkt_num = m
      BY <3>1
    <3> HIDE DEF cut
    <3> QED
      BY <3>2, <3>3 DEF Numbers
  <2> QED
    BY <2>1, <2>2
<1>4. c > 0 => Cardinality(inflight) + c <= FP_SEND_CACHE
  BY DEF SenderTick, Burst
<1> HIDE DEF cut
<1>5. Numbers(inflight') = Numbers(inflight) \cup Numbers(cut)
  BY <1>1 DEF Numbers
<1>6. PICK lo \in 0 .. send_pkt_num : Numbers(inflight) = lo + 1 .. send_pkt_num
  BY DEF InflightIsWindow
<1>7. lo \in 0 .. send_pkt_num' /\ Numbers(inflight') = lo + 1 .. send_pkt_num'
  <2>1. lo \in Nat /\ lo <= send_pkt_num
    BY <1>1
  <2>2. (lo + 1 .. send_pkt_num) \cup (send_pkt_num + 1 .. send_pkt_num + c)
          = lo + 1 .. send_pkt_num + c
    BY <1>1, <2>1, RunsJoin
  <2>3. Numbers(inflight') = lo + 1 .. send_pkt_num + c
    BY <1>5, <1>6, <1>3, <2>2
  <2>4. lo \in 0 .. send_pkt_num + c
    BY <1>1, <2>1
  <2> QED
    BY <1>1, <2>3, <2>4
<1>8. /\ IsFiniteSet(inflight')
      /\ Cardinality(inflight') =
           Cardinality(inflight) + Cardinality(cut) - Cardinality(inflight \cap cut)
  BY <1>1, <1>2, FS_Union
<1>9. /\ Cardinality(inflight) \in Nat /\ Cardinality(cut) \in Nat
      /\ Cardinality(inflight \cap cut) \in Nat
  BY <1>2, FS_Intersection, FS_CardinalityType
<1>10. Cardinality(inflight') <= FP_SEND_CACHE
  <2>1. CASE c = 0
    BY <1>2, <1>8, <1>9, <2>1, DataAssumption DEF InflightIsWindow
  <2>2. CASE c > 0
    BY <1>1, <1>2, <1>4, <1>8, <1>9, <2>2, DataAssumption
  <2> QED
    BY <1>1, <2>1, <2>2
<1> QED
  BY <1>7, <1>8, <1>10 DEF InflightIsWindow, Numbers

\* An acknowledgement cuts the window at its start.
LEMMA PackKeepsWindow ==
  ASSUME TypeOK, IsFiniteSet(inflight), InflightIsWindow,
         NEW a \in packs, NEW dup \in BOOLEAN, fp_on_pack(a, dup)
  PROVE  IsFiniteSet(inflight)' /\ InflightIsWindow'
<1>1. /\ inflight' \in SUBSET inflight /\ send_pkt_num' = send_pkt_num
      /\ inflight' = {p \in inflight : p.pkt_num > a} /\ a \in Nat
  BY DEF fp_on_pack, Unacked, TypeOK
<1>2. /\ IsFiniteSet(inflight') /\ Cardinality(inflight') <= Cardinality(inflight)
      /\ Cardinality(inflight) \in Nat /\ Cardinality(inflight') \in Nat
  BY <1>1, FS_Subset, FS_CardinalityType
<1>3. PICK lo \in 0 .. send_pkt_num : Numbers(inflight) = lo + 1 .. send_pkt_num
  BY DEF InflightIsWindow
<1>4. Numbers(inflight') = {n \in Numbers(inflight) : n > a}
  BY <1>1 DEF Numbers
<1>5. send_pkt_num \in Nat
  BY DEF TypeOK
<1>6. \E l \in 0 .. send_pkt_num' : Numbers(inflight') = l + 1 .. send_pkt_num'
  <2>1. lo \in Nat /\ lo <= send_pkt_num
    BY <1>5
  <2>2. PICK l \in 0 .. send_pkt_num :
          {n \in lo + 1 .. send_pkt_num : n > a} = l + 1 .. send_pkt_num
    BY <1>1, <1>5, <2>1, RunEnds
  <2>3. Numbers(inflight') = l + 1 .. send_pkt_num
    BY <1>3, <1>4, <2>2
  <2> QED
    BY <1>1, <2>3
<1>7. Cardinality(inflight') <= FP_SEND_CACHE
  BY <1>2, DataAssumption DEF InflightIsWindow
<1> QED
  BY <1>2, <1>6, <1>7 DEF InflightIsWindow, Numbers

\* The in-flight list is one ascending run of numbers within the window, as
\* the loop of fp_on_pack and the budget of the burst in fp_pump assume.
THEOREM InflightIsWindowHolds == Spec => []InflightIsWindow
<1> DEFINE Window == IsFiniteSet(inflight) /\ InflightIsWindow
<1>1. Init => Window
  <2> SUFFICES ASSUME Init PROVE Window
    OBVIOUS
  <2>1. inflight = {} /\ send_pkt_num = 0
    BY DEF Init
  <2>2. IsFiniteSet({}) /\ Cardinality({}) = 0
    BY FS_EmptySet
  <2>3. Numbers(inflight) = 0 + 1 .. send_pkt_num
    BY <2>1 DEF Numbers
  <2>4. Cardinality(inflight) <= FP_SEND_CACHE
    BY <2>1, <2>2, DataAssumption
  <2> QED
    BY <2>1, <2>2, <2>3, <2>4 DEF InflightIsWindow
<1>2. TypeOK /\ Window /\ [Next]_vars => Window'
  <2> SUFFICES ASSUME TypeOK, Window, [Next]_vars PROVE Window'
    OBVIOUS
  <2>1. ASSUME UNCHANGED <<inflight, send_pkt_num>>
        PROVE  Window'
    BY <2>1 DEF InflightIsWindow, Numbers
  <2>2. ASSUME NEW k \in 0 .. FillMax, NEW c \in 0 .. FP_SEND_BUDGET,
               NEW final \in BOOLEAN, NEW stall \in BOOLEAN,
               SenderTick(k, final, c, stall)
        PROVE  Window'
    BY <2>2, TickKeepsWindow
  <2>3. ASSUME NEW a \in packs, NEW dup \in BOOLEAN, fp_on_pack(a, dup)
        PROVE  Window'
    BY <2>3, PackKeepsWindow
  <2>4. ASSUME NEW n \in nacks, NEW dup \in BOOLEAN, fp_on_nack(n, dup)
        PROVE  Window'
    BY <2>1, <2>4 DEF fp_on_nack, senderVars
  <2>5. ASSUME NEW p \in datas, NEW dup \in BOOLEAN, NEW due \in BOOLEAN,
               fp_on_data(p, dup, due)
        PROVE  Window'
    BY <2>1, <2>5
    DEF fp_on_data, OnDuplicate, OnNext, OnNextUseAfterFree, OnGap, Take,
        senderVars
  <2>6. CASE (\E due \in BOOLEAN : ReceiverTick(due)) \/ Lose
             \/ (\E a \in 0 .. StreamLen : CorruptPack(a)) \/ UNCHANGED vars
    BY <2>1, <2>6 DEF ReceiverTick, Lose, CorruptPack, vars, senderVars
  <2> HIDE DEF Window
  <2> QED
    BY <2>2, <2>3, <2>4, <2>5, <2>6 DEF Next
<1>3. Window => InflightIsWindow
  OBVIOUS
<1> HIDE DEF Window
<1> QED
  BY <1>1, <1>2, <1>3, TypeCorrect, PTL DEF Spec

-----------------------------------------------------------------------------
(***************************************************************************)
(* The refinement.                                                         *)
(***************************************************************************)

\* A sequence of n items that carries i at place i is the stream's beginning.
LEMMA Beginning ==
  ASSUME NEW s \in Seq(Nat), NEW n \in Nat, Len(s) = n,
         \A i \in 1 .. n : s[i] = i
  PROVE  s = [i \in 1 .. n |-> i]
<1>1. DOMAIN s = 1 .. n /\ s = [i \in DOMAIN s |-> s[i]]
  OBVIOUS
<1> QED
  BY <1>1

\* What has been delivered while the receiver is sound.
LEMMA DeliveredIsBeginning ==
  ASSUME IndInv, mem = "ok"
  PROVE  /\ Len(delivered) = recv_pkt_num /\ recv_pkt_num <= filled
         /\ delivered = [i \in 1 .. recv_pkt_num |-> i]
<1>1. /\ delivered \in Seq(Nat) /\ recv_pkt_num \in Nat /\ send_pkt_num \in Nat
      /\ txq \in Seq(Nat) /\ filled \in Nat
  BY DataAssumption DEF IndInv, TypeOK
<1>2. /\ Len(delivered) = recv_pkt_num
      /\ \A i \in 1 .. recv_pkt_num : delivered[i] = i
  BY DEF IndInv, InOrderDelivery
<1>3. recv_pkt_num <= send_pkt_num /\ send_pkt_num + Len(txq) = filled
  BY DEF IndInv, AcksAreBehind, QueueIsRest
<1>4. recv_pkt_num <= filled
  BY <1>1, <1>3
<1> QED
  BY <1>1, <1>2, <1>4, Beginning

\* A tick queues items, or reports completion, or neither.
LEMMA TickRefines ==
  ASSUME IndInv, IndInv', NEW k \in 0 .. FillMax, NEW c \in 0 .. FP_SEND_BUDGET,
         NEW final \in BOOLEAN, NEW stall \in BOOLEAN,
         SenderTick(k, final, c, stall)
  PROVE  [Stream!Next]_(Stream!streamVars)
<1>1. /\ filled' = filled + k /\ FillResult(k, final)
      /\ fill_done' = (fill_done \/ final)
      /\ UNCHANGED <<delivered, mem, recv_pkt_num>>
  BY DEF SenderTick, receiverVars
<1>2. tx_notified' = (tx_notified \/ (fill_done' /\ txq' = <<>> /\ inflight' = {}))
  BY DEF SenderTick, TxDrained
<1>3. filled \in 0 .. StreamLen /\ StreamLen \in Nat /\ k \in Nat
  BY DataAssumption DEF IndInv, TypeOK
<1>4. CASE k > 0
  <2>1. ~fill_done' /\ filled + k <= StreamLen
    BY <1>1, <1>4 DEF FillResult, FillAsked
  <2>2. tx_notified' = tx_notified
    BY <1>2, <2>1, Zenon DEF IndInv, TypeOK
  <2>3. filled' \in filled .. StreamLen
    BY <1>1, <1>3, <2>1
  <2> QED
    BY <1>1, <2>2, <2>3 DEF Stream!Next, Stream!Queue
<1>5. CASE k = 0 /\ tx_notified' = tx_notified
  BY <1>1, <1>3, <1>5 DEF Stream!streamVars
<1>6. CASE k = 0 /\ tx_notified' # tx_notified
  <2>1. tx_notified' = TRUE /\ fill_done'
    <3>1. tx_notified \in BOOLEAN /\ tx_notified' \in BOOLEAN
      BY DEF IndInv, TypeOK
    <3> QED
      BY <1>2, <1>6, <3>1, Zenon
  <2>2. filled' = StreamLen /\ filled' = filled
    BY <1>1, <1>3, <1>6, <2>1 DEF IndInv, QueueIsRest
  <2>3. mem = "corrupt" \/ Len(delivered) >= StreamLen
    <3>1. mem' # "corrupt" => recv_pkt_num' = StreamLen
      BY <2>1 DEF IndInv, CompleteIsDelivered
    <3>2. mem # "corrupt" => recv_pkt_num = StreamLen
      BY <1>1, <3>1
    <3>3. delivered \in Seq(Nat) /\ recv_pkt_num \in Nat
      BY DEF IndInv, TypeOK
    <3>4. recv_pkt_num > 0 => recv_pkt_num <= Len(delivered)
      BY <3>3 DEF IndInv, InOrderDelivery
    <3> QED
      BY <1>3, <3>2, <3>3, <3>4
  <2>4. UNCHANGED <<filled, delivered, mem>>
    BY <1>1, <2>2
  <2> QED
    BY <2>1, <2>2, <2>3, <2>4 DEF Stream!Next, Stream!Complete
<1> QED
  BY <1>3, <1>4, <1>5, <1>6

\* A datagram delivers the next items, breaks the receiver, or is not seen.
LEMMA DataRefines ==
  ASSUME IndInv, IndInv', NEW p \in datas, NEW dup \in BOOLEAN,
         NEW due \in BOOLEAN, fp_on_data(p, dup, due)
  PROVE  [Stream!Next]_(Stream!streamVars)
<1>1. UNCHANGED <<filled, tx_notified>> /\ mem = "ok"
  BY DEF fp_on_data, OnDuplicate, OnNext, OnNextUseAfterFree, OnGap, Take,
         senderVars
<1>2. /\ Len(delivered) = recv_pkt_num /\ recv_pkt_num <= filled
      /\ delivered = [i \in 1 .. recv_pkt_num |-> i]
  BY <1>1, DeliveredIsBeginning
<1>3. /\ recv_pkt_num \in Nat /\ recv_pkt_num' \in Nat /\ filled \in Nat
      /\ delivered \in Seq(Nat) /\ delivered' \in Seq(Nat)
  BY DataAssumption DEF IndInv, TypeOK
<1>4. CASE OnDuplicate(p, dup, due) \/ OnGap(p, dup, due)
  BY <1>1, <1>4 DEF OnDuplicate, OnGap, Stream!streamVars
<1>5. CASE OnNext(p, dup, due)
  <2>1. mem' = "ok" /\ recv_pkt_num' >= recv_pkt_num
    <3>1. PICK k \in 0 .. Cardinality(ofo) : recv_pkt_num' = p.pkt_num + k
      BY <1>5 DEF OnNext
    <3>2. p.pkt_num = recv_pkt_num + 1 /\ mem' = mem
      BY <1>5 DEF OnNext
    <3>3. Cardinality(ofo) \in Nat
      BY FS_CardinalityType DEF IndInv
    <3> QED
      BY <1>1, <1>3, <3>1, <3>2, <3>3
  <2>2. /\ Len(delivered') = recv_pkt_num'
        /\ \A i \in 1 .. recv_pkt_num' : delivered'[i] = i
    BY <2>1 DEF IndInv, InOrderDelivery
  <2>3. delivered' = [i \in 1 .. recv_pkt_num' |-> i]
    BY <1>3, <2>2, Beginning
  <2>4. recv_pkt_num' <= filled'
    <3>1. /\ recv_pkt_num' <= send_pkt_num'
          /\ send_pkt_num' + Len(txq') = filled'
          /\ txq' \in Seq(Nat) /\ send_pkt_num' \in Nat
      BY DEF IndInv, AcksAreBehind, QueueIsRest, TypeOK
    <3> QED
      BY <1>3, <3>1
  <2>5. recv_pkt_num' \in Len(delivered) .. filled
    BY <1>1, <1>2, <1>3, <2>1, <2>4
  <2> QED
    BY <1>1, <2>1, <2>3, <2>5 DEF Stream!Next, Stream!Deliver
<1>6. CASE OnNextUseAfterFree(p, dup)
  <2>1. p.data = Len(delivered) + 1 /\ p.data \in Nat
    BY <1>2, <1>3, <1>6 DEF OnNextUseAfterFree, IndInv, PacketsAreSent
  <2>2. Append(delivered, p.data) = [i \in 1 .. Len(delivered) + 1 |-> i]
    <3> DEFINE s == Append(delivered, p.data)
    <3>1. s \in Seq(Nat) /\ Len(s) = Len(delivered) + 1
      BY <1>3, <2>1, AppendProperties
    <3>2. \A i \in 1 .. Len(delivered) + 1 : s[i] = i
      BY <1>2, <1>3, <2>1
    <3> HIDE DEF s
    <3>3. Len(delivered) + 1 \in Nat
      BY <1>3
    <3> QED
      BY <3>1, <3>2, <3>3, Beginning DEF s
  <2>3. Append(delivered, p.data) \o <<0>> = Append(Append(delivered, p.data), 0)
    BY <1>3, <2>1
  <2>4. Len(delivered) < filled
    <3>1. p.pkt_num \in 1 .. send_pkt_num /\ p.pkt_num = recv_pkt_num + 1
      BY <1>6 DEF OnNextUseAfterFree, IndInv, PacketsAreSent
    <3>2. /\ send_pkt_num + Len(txq) = filled
          /\ txq \in Seq(Nat) /\ send_pkt_num \in Nat
      BY DEF IndInv, QueueIsRest, TypeOK
    <3> QED
      BY <1>2, <1>3, <3>1, <3>2
  <2>5. /\ mem' \in {"aborted", "corrupt"}
        /\ delivered' \in {Append(delivered, p.data),
                           Append(Append(delivered, p.data), 0)}
    BY <1>6, <2>3 DEF OnNextUseAfterFree
  <2> QED
    BY <1>1, <2>2, <2>4, <2>5 DEF Stream!Next, Stream!Break
<1> QED
  BY <1>4, <1>5, <1>6 DEF fp_on_data

\* fillp_conn.h: "in-order bytes delivered to the app" and on_tx_complete only
\* when everything has been: FillpData implements FillpStream.
THEOREM StreamImplemented == Spec => ImplementsStream
<1>1. Init => Stream!Init
  BY DEF Init, Stream!Init
<1>2. IndInv /\ IndInv' /\ [Next]_vars => [Stream!Next]_(Stream!streamVars)
  <2> SUFFICES ASSUME IndInv, IndInv', [Next]_vars
               PROVE  [Stream!Next]_(Stream!streamVars)
    OBVIOUS
  <2>1. ASSUME UNCHANGED <<filled, delivered, tx_notified, mem>>
        PROVE  [Stream!Next]_(Stream!streamVars)
    BY <2>1 DEF Stream!streamVars
  <2>2. ASSUME NEW k \in 0 .. FillMax, NEW c \in 0 .. FP_SEND_BUDGET,
               NEW final \in BOOLEAN, NEW stall \in BOOLEAN,
               SenderTick(k, final, c, stall)
        PROVE  [Stream!Next]_(Stream!streamVars)
    BY <2>2, TickRefines
  <2>3. ASSUME NEW p \in datas, NEW dup \in BOOLEAN, NEW due \in BOOLEAN,
               fp_on_data(p, dup, due)
        PROVE  [Stream!Next]_(Stream!streamVars)
    BY <2>3, DataRefines
  <2>4. ASSUME NEW a \in packs, NEW dup \in BOOLEAN, fp_on_pack(a, dup)
        PROVE  [Stream!Next]_(Stream!streamVars)
    BY <2>1, <2>4 DEF fp_on_pack, receiverVars
  <2>5. ASSUME NEW n \in nacks, NEW dup \in BOOLEAN, fp_on_nack(n, dup)
        PROVE  [Stream!Next]_(Stream!streamVars)
    BY <2>1, <2>5 DEF fp_on_nack, senderVars, receiverVars
  <2>6. ASSUME NEW due \in BOOLEAN, ReceiverTick(due)
        PROVE  [Stream!Next]_(Stream!streamVars)
    BY <2>1, <2>6 DEF ReceiverTick, senderVars
  <2>7. CASE Lose \/ (\E a \in 0 .. StreamLen : CorruptPack(a)) \/ UNCHANGED vars
    BY <2>1, <2>7 DEF Lose, CorruptPack, vars, senderVars, receiverVars
  <2> QED
    BY <2>2, <2>3, <2>4, <2>5, <2>6, <2>7 DEF Next
<1> QED
  BY <1>1, <1>2, DataInvariant, PTL DEF Spec, ImplementsStream, Stream!Spec
============================================================================
