---------------------------- MODULE DFileProofs ----------------------------
(***************************************************************************)
(* Theorems about DFile.                                                   *)
(*                                                                         *)
(* A handler is a function of one engine, so the proof is about values:    *)
(* Good says how engine c of one end, engine d of the other and the two    *)
(* streams between them fit together, Work the same while a handler of c   *)
(* is running.  There is one lemma per handler: it keeps Work, and does no *)
(* more to the transfers of c than its Turn allows.  The actions then only *)
(* put the values back in place.                                           *)
(***************************************************************************)
EXTENDS DFile, WellFoundedInduction, SequenceTheorems, TLAPS

(***************************************************************************)
(* Types, over the block lists B of the two ends.                          *)
(***************************************************************************)
AckFrame == [type : {"ACK"}, ents : UNION {[D -> Nat] : D \in SUBSET Nat}]

Frames == Frame \cup AckFrame

TxPhases == {"NONE", "WAIT_CONFIRM_REQ", "SENDING", "WAIT_DONE", "DONE", "FAILED"}
RxPhases == {"NONE", "IDLE", "WAIT_DATA", "WAIT_DONEACK", "DONE", "FAILED"}

TxSet(F) ==
  [phase : TxPhases, all_confirmed : BOOLEAN, req_received : BOOLEAN,
   done_received : BOOLEAN, next_seq : [F -> Nat], retrans : [F -> Nat],
   acked : [F -> Nat], retransmitted : BOOLEAN,
   ctrl_retries : 0 .. DC_CTRL_MAX_RETRIES + 1]

RxSet(F) ==
  [phase : RxPhases, expected_seq : [F -> Nat], ack_pending : BOOLEAN,
   done_sent : BOOLEAN]

States == {"NEGOTIATING", "READY", "CLOSING", "CRASHED"}

EngineSet(B, e) ==
  [state : States, set_up : BOOLEAN, tx : TxSet(DOMAIN B[e]),
   rx : RxSet(DOMAIN B[Other(e)]), results : [{"tx", "rx"} -> Nat],
   out : Seq(Frames)]

(***************************************************************************)
(* The invariant.  b is the list of blocks of the sending end, t its       *)
(* transfer, x the receiving one.                                          *)
(***************************************************************************)
TxSound(b, t) ==
  /\ t \in TxSet(DOMAIN b)
  /\ \A f \in DOMAIN b : t.retrans[f] <= t.next_seq[f] /\ t.next_seq[f] <= b[f]
  /\ t.phase = "NONE" => \A f \in DOMAIN b : t.next_seq[f] = 0
  /\ t.phase = "WAIT_CONFIRM_REQ" => t.ctrl_retries <= DC_CTRL_MAX_RETRIES

RxSound(b, x) ==
  /\ x \in RxSet(DOMAIN b)
  /\ x.phase = "NONE" => ~x.done_sent /\ \A f \in DOMAIN b : x.expected_seq[f] = 0
  /\ x.done_sent => \A f \in DOMAIN b : x.expected_seq[f] >= b[f]

\* A transfer that is not over has not been reported, the others at most once.
Reports(phase, n) == n <= 1 /\ (phase \notin {"DONE", "FAILED"} => n = 0)

Reported(c) ==
  Reports(c.tx.phase, c.results["tx"]) /\ Reports(c.rx.phase, c.results["rx"])

\* The sender's view of a transfer and the receiver's.
Agree(b, t, x) ==
  /\ \A f \in DOMAIN b : /\ x.expected_seq[f] \in Nat
                         /\ t.acked[f] <= x.expected_seq[f]
                         /\ x.expected_seq[f] <= t.next_seq[f]
  /\ t.done_received \/ t.phase = "DONE" => x.done_sent
  /\ x.phase = "DONE" => t.phase = "DONE"
  /\ x.phase # "NONE" => t.phase # "NONE"

\* What a frame says of the engine c that wrote it.
Says(B, e, c, m) ==
  /\ m \in Frames
  /\ m.type = "DATA" => m.file \in DOMAIN B[e] /\ m.seq < c.tx.next_seq[m.file]
  /\ m.type = "HEADER" => c.tx.phase # "NONE"
  /\ m.type = "DONE_ACK" => c.tx.phase = "DONE"
  /\ m.type = "DONE" => c.rx.done_sent
  /\ m.type = "ACK" =>
       \A f \in DOMAIN m.ents : /\ f \in DOMAIN B[Other(e)]
                                /\ m.ents[f] <= c.rx.expected_seq[f]

\* The blocks on a stream q of a transfer with next_seq n and expected_seq x:
\* each is one the receiver knows or follows its predecessor, and those sent
\* and not yet received are there.
InOrder(x, q) ==
  \A i \in DOMAIN q : q[i].type = "DATA" =>
    \/ q[i].seq <= x[q[i].file]
    \/ \E j \in DOMAIN q : j < i /\ q[j] = Data(q[i].file, q[i].seq - 1)

Covered(b, n, x, q) ==
  \A f \in DOMAIN b : \A s \in Nat :
    s < n[f] => s < x[f] \/ \E i \in DOMAIN q : q[i] = Data(f, s)

Flow(b, n, x, q) == InOrder(x, q) /\ Covered(b, n, x, q)

Alive(c) == c.state \in {"NEGOTIATING", "READY"}

\* Engine c of end e against engine d of the other; q is on its way to d and r
\* to c.  acks: acknowledgements can always be sent.
Good(B, acks, e, c, d, q, r) ==
  /\ c \in EngineSet(B, e)
  /\ TxSound(B[e], c.tx) /\ RxSound(B[Other(e)], c.rx)
  /\ acks => Reported(c)
  /\ q \in Seq(Frames) /\ \A i \in DOMAIN q : Says(B, e, c, q[i])
  /\ Agree(B[e], c.tx, d.rx) /\ Agree(B[Other(e)], d.tx, c.rx)
  /\ Alive(d) => Flow(B[e], c.tx.next_seq, d.rx.expected_seq, q)
  /\ Alive(c) => Flow(B[Other(e)], d.tx.next_seq, c.rx.expected_seq, r)

\* The writer's part of Good while a handler runs: p was on its way before,
\* c.out is what the handler has written so far.
Work(B, acks, e, c, d, p, r) ==
  /\ p \in Seq(Frames) /\ c.state # "CRASHED"
  /\ Good(B, acks, e, c, d, p \o c.out, r)

\* Acknowledgements can always be sent in this environment.
AcksSent == "send ack" \notin Faults

IndInv ==
  /\ env \in Environments
  /\ engine \in [Ends -> EngineSet(Blocks, "phone") \cup EngineSet(Blocks, "daemon")]
  /\ ch \in [Ends -> Seq(Frames)]
  /\ \A e \in Ends :
       /\ Good(Blocks, AcksSent, e, engine[e], engine[Other(e)], ch[Other(e)], ch[e])
       /\ engine[e].out = <<>>
       /\ ~Alive(engine[e]) => ch[e] = <<>>

-----------------------------------------------------------------------------
(***************************************************************************)
(* Constants, frames and sequences of frames.                              *)
(***************************************************************************)

\* The limits are numbers.
LEMMA Limits ==
  /\ DC_SEND_BUDGET \in Nat /\ DC_CTRL_MAX_RETRIES \in Nat
  /\ DFILE_MAX_ACK_ENTRIES \in Nat
BY DFileAssumption

\* The two ends.
LEMMA EndsFacts ==
  /\ "phone" \in Ends /\ "daemon" \in Ends
  /\ \A e \in Ends : Other(e) \in Ends /\ Other(e) # e /\ Other(Other(e)) = e
BY DEF Ends, Other

\* Frames that say nothing of a transfer.
PlainTypes == {"SETTING", "CONFIRM", "REQ", "RST", "EOF"}

\* The frames that the engines write.
LEMMA FrameTypes ==
  /\ \A ty \in {"SETTING", "HEADER", "CONFIRM", "REQ", "DONE", "DONE_ACK", "EOF"} :
       Simple(ty) \in Frames /\ Simple(ty).type = ty
  /\ \A of \in {"tx", "rx"} : Rst(of) \in Frames /\ Rst(of).type = "RST"
  /\ \A f \in Nat, s \in Nat :
       /\ Data(f, s) \in Frames /\ Data(f, s).type = "DATA"
       /\ Data(f, s).file = f /\ Data(f, s).seq = s
<1>1. \A ty \in {"SETTING", "HEADER", "CONFIRM", "REQ", "DONE", "DONE_ACK", "EOF"} :
        Simple(ty) \in Frames /\ Simple(ty).type = ty
  BY DEF Simple, Frames, Frame
<1>2. \A of \in {"tx", "rx"} : Rst(of) \in Frames /\ Rst(of).type = "RST"
  BY DEF Rst, Frames, Frame
<1>3. \A f \in Nat, s \in Nat :
        /\ Data(f, s) \in Frames /\ Data(f, s).type = "DATA"
        /\ Data(f, s).file = f /\ Data(f, s).seq = s
  BY DEF Data, Frames, Frame
<1> QED
  BY <1>1, <1>2, <1>3

\* A frame of type DATA has a file and a number; another type of frame is none.
LEMMA DataFrame ==
  ASSUME NEW m \in Frames, m.type = "DATA"
  PROVE  m.file \in Nat /\ m.seq \in Nat /\ m = Data(m.file, m.seq)
BY DEF Frames, Frame, AckFrame, Data

\* An acknowledgement maps numbers to numbers.
LEMMA AckIsFrame ==
  ASSUME NEW m \in Frames, m.type = "ACK"
  PROVE  /\ DOMAIN m.ents \subseteq Nat
         /\ \A f \in DOMAIN m.ents : m.ents[f] \in Nat
<1>1. m \in AckFrame
  BY DEF Frames, Frame, AckFrame
<1>2. PICK D \in SUBSET Nat : m.ents \in [D -> Nat]
  BY <1>1 DEF AckFrame
<1> QED
  BY <1>2

\* A plain frame says nothing.
LEMMA PlainSays ==
  ASSUME NEW B, NEW e, NEW c, NEW m \in Frames, m.type \in PlainTypes
  PROVE  Says(B, e, c, m) /\ m.type # "DATA"
BY DEF Says, PlainTypes

\* Elements of a concatenation.
LEMMA Joined ==
  ASSUME NEW q \in Seq(Frames), NEW m \in Seq(Frames)
  PROVE  /\ q \o m \in Seq(Frames)
         /\ DOMAIN q = 1 .. Len(q) /\ DOMAIN m = 1 .. Len(m)
         /\ Len(q) \in Nat /\ Len(m) \in Nat
         /\ DOMAIN (q \o m) = 1 .. Len(q) + Len(m)
         /\ \A i \in DOMAIN q : i \in DOMAIN (q \o m) /\ (q \o m)[i] = q[i]
         /\ \A i \in DOMAIN m : /\ i + Len(q) \in DOMAIN (q \o m)
                                /\ (q \o m)[i + Len(q)] = m[i]
         /\ \A i \in DOMAIN (q \o m) :
              \/ i \in DOMAIN q
              \/ i - Len(q) \in DOMAIN m /\ i = (i - Len(q)) + Len(q)
<1>1. /\ q \o m \in Seq(Frames)
      /\ Len(q \o m) = Len(q) + Len(m)
      /\ \A i \in 1 .. Len(q) + Len(m) : (q \o m)[i] =
                     IF i <= Len(q) THEN q[i] ELSE m[i - Len(q)]
  BY ConcatProperties
<1>2. /\ DOMAIN q = 1 .. Len(q) /\ DOMAIN m = 1 .. Len(m)
      /\ Len(q) \in Nat /\ Len(m) \in Nat
      /\ DOMAIN (q \o m) = 1 .. Len(q) + Len(m)
  BY <1>1, LenProperties
<1> DEFINE j == q \o m
<1> HIDE DEF j
<1>3. \A i \in DOMAIN q : i \in DOMAIN j /\ j[i] = q[i]
  BY <1>1, <1>2 DEF j
<1>4. \A i \in DOMAIN m : i + Len(q) \in DOMAIN j /\ j[i + Len(q)] = m[i]
  BY <1>1, <1>2 DEF j
<1>5. \A i \in DOMAIN j : \/ i \in DOMAIN q
                          \/ i - Len(q) \in DOMAIN m /\ i = (i - Len(q)) + Len(q)
  BY <1>2 DEF j
<1> QED
  BY <1>1, <1>2, <1>3, <1>4, <1>5 DEF j

\* What holds of the elements of two sequences holds of their concatenation.
LEMMA AllJoined ==
  ASSUME NEW q \in Seq(Frames), NEW m \in Seq(Frames), NEW S,
         \A i \in DOMAIN q : q[i] \in S, \A i \in DOMAIN m : m[i] \in S
  PROVE  \A i \in DOMAIN (q \o m) : (q \o m)[i] \in S
<1> SUFFICES ASSUME NEW i \in DOMAIN (q \o m) PROVE (q \o m)[i] \in S
  OBVIOUS
<1>1. CASE i \in DOMAIN q
  BY <1>1, Joined
<1>2. CASE i - Len(q) \in DOMAIN m /\ i = (i - Len(q)) + Len(q)
  <2> DEFINE k == i - Len(q)
  <2> HIDE DEF k
  <2>1. k \in DOMAIN m /\ i = k + Len(q)
    BY <1>2 DEF k
  <2>2. (q \o m)[k + Len(q)] = m[k]
    BY <2>1, Joined
  <2> QED
    BY <2>1, <2>2
<1> QED
  BY <1>1, <1>2, Joined

\* Sequences of one frame and of two.
LEMMA Short ==
  /\ <<>> \in Seq(Frames) /\ DOMAIN <<>> = {}
  /\ \A m \in Frames : /\ <<m>> \in Seq(Frames) /\ DOMAIN <<m>> = {1}
                       /\ <<m>>[1] = m
  /\ \A m, n \in Frames : /\ <<m, n>> \in Seq(Frames) /\ DOMAIN <<m, n>> = {1, 2}
                          /\ <<m, n>>[1] = m /\ <<m, n>>[2] = n
<1>1. <<>> \in Seq(Frames) /\ DOMAIN <<>> = {}
  OBVIOUS
<1>2. \A m \in Frames : <<m>> \in Seq(Frames) /\ DOMAIN <<m>> = {1} /\ <<m>>[1] = m
  OBVIOUS
<1>3. ASSUME NEW m \in Frames, NEW n \in Frames
      PROVE /\ <<m, n>> \in Seq(Frames) /\ DOMAIN <<m, n>> = {1, 2}
            /\ <<m, n>>[1] = m /\ <<m, n>>[2] = n
  <2>1. DOMAIN <<m, n>> = 1 .. 2 /\ 1 .. 2 = {1, 2}
    OBVIOUS
  <2> QED
    BY <2>1
<1> QED
  BY <1>1, <1>2, <1>3

-----------------------------------------------------------------------------
(***************************************************************************)
(* The stream of blocks.                                                   *)
(***************************************************************************)

\* Frames that are not data do not disturb it.
LEMMA FlowQuiet ==
  ASSUME NEW b, NEW n, NEW x, NEW q \in Seq(Frames), NEW m \in Seq(Frames),
         Flow(b, n, x, q), \A i \in DOMAIN m : m[i].type # "DATA"
  PROVE  Flow(b, n, x, q \o m)
<1> DEFINE j == q \o m
<1>1. /\ \A i \in DOMAIN q : i \in DOMAIN j /\ j[i] = q[i]
      /\ \A i \in DOMAIN j : j[i].type = "DATA" => i \in DOMAIN q
  <2>1. ASSUME NEW i \in DOMAIN j, j[i].type = "DATA", i \notin DOMAIN q PROVE FALSE
    <3>1. i - Len(q) \in DOMAIN m /\ i = (i - Len(q)) + Len(q)
      BY <2>1, Joined
    <3> DEFINE k == i - Len(q)
    <3> HIDE DEF k
    <3>2. k \in DOMAIN m /\ i = k + Len(q)
      BY <3>1 DEF k
    <3>3. j[k + Len(q)] = m[k]
      BY <3>2, Joined
    <3> QED
      BY <2>1, <3>2, <3>3
  <2> QED
    BY <2>1, Joined
<1> HIDE DEF j
<1>2. InOrder(x, j)
  <2> SUFFICES ASSUME NEW i \in DOMAIN j, j[i].type = "DATA", ~(j[i].seq <= x[j[i].file])
               PROVE \E k \in DOMAIN j : k < i /\ j[k] = Data(j[i].file, j[i].seq - 1)
    BY DEF InOrder
  <2>1. i \in DOMAIN q /\ j[i] = q[i]
    BY <1>1
  <2>2. PICK k \in DOMAIN q : k < i /\ q[k] = Data(q[i].file, q[i].seq - 1)
    BY <2>1 DEF Flow, InOrder
  <2> QED
    BY <1>1, <2>1, <2>2
<1>3. Covered(b, n, x, j)
  <2> SUFFICES ASSUME NEW f \in DOMAIN b, NEW s \in Nat, s < n[f], ~(s < x[f])
               PROVE \E i \in DOMAIN j : j[i] = Data(f, s)
    BY DEF Covered
  <2>1. PICK i \in DOMAIN q : q[i] = Data(f, s)
    BY DEF Flow, Covered
  <2> QED
    BY <1>1, <2>1
<1> QED
  BY <1>2, <1>3 DEF Flow, j

\* A block that is covered, or the first, or the next one, may be sent.
LEMMA FlowData ==
  ASSUME NEW b, NEW n, NEW n1, NEW x, NEW q \in Seq(Frames), NEW f \in DOMAIN b,
         NEW s \in Nat, f \in Nat, x[f] \in Nat, n[f] \in Nat,
         Flow(b, n, x, q), s <= n[f],
         n1[f] <= s + 1 \/ n1[f] <= n[f], n1[f] \in Nat,
         \A g \in DOMAIN b : g # f => n1[g] = n[g]
  PROVE  Flow(b, n1, x, q \o <<Data(f, s)>>)
<1> DEFINE m == <<Data(f, s)>>
           j == q \o m
<1>0. m \in Seq(Frames) /\ DOMAIN m = {1} /\ m[1] = Data(f, s)
  BY FrameTypes, Short
<1> HIDE DEF m
<1>1. /\ \A i \in DOMAIN q : i \in DOMAIN j /\ j[i] = q[i] /\ i < 1 + Len(q)
      /\ 1 + Len(q) \in DOMAIN j /\ j[1 + Len(q)] = Data(f, s)
      /\ \A i \in DOMAIN j : i \in DOMAIN q \/ i = 1 + Len(q)
  <2>1. \A i \in DOMAIN q : i \in DOMAIN j /\ j[i] = q[i] /\ i < 1 + Len(q)
    BY <1>0, Joined
  <2>2. 1 + Len(q) \in DOMAIN j /\ j[1 + Len(q)] = Data(f, s)
    BY <1>0, Joined
  <2>3. \A i \in DOMAIN j : i \in DOMAIN q \/ i = 1 + Len(q)
    BY <1>0, Joined
  <2> QED
    BY <2>1, <2>2, <2>3
<1> HIDE DEF j
<1>2. ~(s <= x[f]) => \E k \in DOMAIN q : q[k] = Data(f, s - 1)
  <2> SUFFICES ASSUME ~(s <= x[f]) PROVE \E k \in DOMAIN q : q[k] = Data(f, s - 1)
    OBVIOUS
  <2>1. s - 1 \in Nat /\ s - 1 < n[f] /\ ~(s - 1 < x[f])
    OBVIOUS
  <2> QED
    BY <2>1 DEF Flow, Covered
<1>3. InOrder(x, j)
  <2> SUFFICES ASSUME NEW i \in DOMAIN j, j[i].type = "DATA", ~(j[i].seq <= x[j[i].file])
               PROVE \E k \in DOMAIN j : k < i /\ j[k] = Data(j[i].file, j[i].seq - 1)
    BY DEF InOrder
  <2>1. CASE i \in DOMAIN q
    <3>1. j[i] = q[i]
      BY <2>1, <1>1
    <3>2. PICK k \in DOMAIN q : k < i /\ q[k] = Data(q[i].file, q[i].seq - 1)
      BY <2>1, <3>1 DEF Flow, InOrder
    <3> QED
      BY <1>1, <3>1, <3>2
  <2>2. CASE i = 1 + Len(q)
    <3>1. j[i].file = f /\ j[i].seq = s
      BY <2>2, <1>1, FrameTypes
    <3>2. PICK k \in DOMAIN q : q[k] = Data(f, s - 1)
      BY <1>2, <3>1
    <3> QED
      BY <1>1, <2>2, <3>1, <3>2
  <2> QED
    BY <1>1, <2>1, <2>2
<1>4. Covered(b, n1, x, j)
  <2> SUFFICES ASSUME NEW g \in DOMAIN b, NEW u \in Nat, u < n1[g], ~(u < x[g])
               PROVE \E i \in DOMAIN j : j[i] = Data(g, u)
    BY DEF Covered
  <2>1. CASE g = f /\ u = s
    BY <2>1, <1>1
  <2>2. CASE ~(g = f /\ u = s)
    <3>1. u < n[g]
      BY <2>2
    <3>2. PICK i \in DOMAIN q : q[i] = Data(g, u)
      BY <3>1 DEF Flow, Covered
    <3> QED
      BY <1>1, <3>2
  <2> QED
    BY <2>1, <2>2
<1> QED
  BY <1>3, <1>4 DEF Flow, j, m

\* m is the blocks a .. z - 1 of file f.
IsRun(m, f, a, z) ==
  /\ m \in Seq(Frames) /\ DOMAIN m = 1 .. (z - a)
  /\ \A i \in 1 .. (z - a) : m[i] = Data(f, a + i - 1) /\ a + i - 1 \in Nat

\* A run of new blocks.
LEMMA RunIs ==
  ASSUME NEW f \in Nat, NEW a \in Nat, NEW z \in Nat, a <= z
  PROVE  IsRun(DataRun(f, a, z), f, a, z)
<1>1. \A i \in 1 .. (z - a) : Data(f, a + i - 1) \in Frames /\ a + i - 1 \in Nat
  BY FrameTypes
<1>2. z - a \in Nat
  OBVIOUS
<1> DEFINE n == z - a
           run == [i \in 1 .. n |-> Data(f, a + i - 1)]
<1>3. DataRun(f, a, z) = run
  BY DEF DataRun
<1>4. DOMAIN run = 1 .. n /\ \A i \in 1 .. n : run[i] = Data(f, a + i - 1)
  OBVIOUS
<1> HIDE DEF n
<1>5. run \in Seq(Frames)
  BY <1>1, <1>2 DEF n
<1> QED
  BY <1>1, <1>3, <1>4, <1>5 DEF n, IsRun

\* The blocks a .. z - 1 may be sent when a is the next one.
LEMMA FlowRun ==
  ASSUME NEW b, NEW n, NEW n1, NEW x, NEW q \in Seq(Frames), NEW f \in DOMAIN b,
         NEW a \in Nat, NEW z \in Nat, a <= z, f \in Nat, x[f] \in Nat,
         Flow(b, n, x, q), n[f] = a, n1[f] = z,
         \A g \in DOMAIN b : g # f => n1[g] = n[g]
  PROVE  Flow(b, n1, x, q \o DataRun(f, a, z))
<1> DEFINE m == DataRun(f, a, z)
           j == q \o m
<1>0. /\ m \in Seq(Frames) /\ DOMAIN m = 1 .. (z - a)
      /\ \A i \in 1 .. (z - a) : m[i] = Data(f, a + i - 1) /\ a + i - 1 \in Nat
  <2>1. IsRun(m, f, a, z)
    BY RunIs
  <2> QED
    BY <2>1 DEF IsRun
<1> HIDE DEF m
<1>1. /\ \A i \in DOMAIN q : i \in DOMAIN j /\ j[i] = q[i] /\ i < 1 + Len(q)
      /\ \A i \in 1 .. (z - a) : /\ i + Len(q) \in DOMAIN j
                                 /\ j[i + Len(q)] = Data(f, a + i - 1)
      /\ \A i \in DOMAIN j : i \in DOMAIN q \/ \E k \in 1 .. (z - a) : i = k + Len(q)
      /\ Len(q) \in Nat
  <2>1. \A i \in DOMAIN q : i \in DOMAIN j /\ j[i] = q[i] /\ i < 1 + Len(q)
    BY <1>0, Joined
  <2>2. \A i \in 1 .. (z - a) : i + Len(q) \in DOMAIN j /\ j[i + Len(q)] = Data(f, a + i - 1)
    BY <1>0, Joined
  <2>3. \A i \in DOMAIN j : i \in DOMAIN q \/ \E k \in 1 .. (z - a) : i = k + Len(q)
    BY <1>0, Joined
  <2> QED
    BY <2>1, <2>2, <2>3, Joined, <1>0
<1> HIDE DEF j
<1>2. ~(a <= x[f]) => \E k \in DOMAIN q : q[k] = Data(f, a - 1)
  <2> SUFFICES ASSUME ~(a <= x[f]) PROVE \E k \in DOMAIN q : q[k] = Data(f, a - 1)
    OBVIOUS
  <2>1. a - 1 \in Nat /\ a - 1 < n[f] /\ ~(a - 1 < x[f])
    OBVIOUS
  <2> QED
    BY <2>1 DEF Flow, Covered
<1>3. InOrder(x, j)
  <2> SUFFICES ASSUME NEW i \in DOMAIN j, j[i].type = "DATA", ~(j[i].seq <= x[j[i].file])
               PROVE \E k \in DOMAIN j : k < i /\ j[k] = Data(j[i].file, j[i].seq - 1)
    BY DEF InOrder
  <2>1. CASE i \in DOMAIN q
    <3>1. j[i] = q[i]
      BY <2>1, <1>1
    <3>2. PICK k \in DOMAIN q : k < i /\ q[k] = Data(q[i].file, q[i].seq - 1)
      BY <2>1, <3>1 DEF Flow, InOrder
    <3> QED
      BY <1>1, <3>1, <3>2
  <2>2. ASSUME NEW k \in 1 .. (z - a), i = k + Len(q)
        PROVE \E k2 \in DOMAIN j : k2 < i /\ j[k2] = Data(j[i].file, j[i].seq - 1)
    <3>1. j[i].file = f /\ j[i].seq = a + k - 1
      BY <2>2, <1>0, <1>1, FrameTypes
    <3>2. CASE k = 1
      <4>1. PICK k2 \in DOMAIN q : q[k2] = Data(f, a - 1)
        BY <1>2, <3>1, <3>2
      <4>2. j[i].seq - 1 = a - 1
        BY <3>1, <3>2
      <4> QED
        BY <1>1, <2>2, <3>1, <3>2, <4>1, <4>2
    <3>3. CASE k # 1
      <4>1. k - 1 \in 1 .. (z - a) /\ a + (k - 1) - 1 = (a + k - 1) - 1
        BY <3>3
      <4>2. j[(k - 1) + Len(q)] = Data(f, a + (k - 1) - 1) /\ (k - 1) + Len(q) \in DOMAIN j
        BY <4>1, <1>1
      <4>3. (k - 1) + Len(q) < i
        BY <2>2, <1>1
      <4> QED
        BY <3>1, <4>1, <4>2, <4>3
    <3> QED
      BY <3>2, <3>3
  <2> QED
    BY <1>1, <2>1, <2>2
<1>4. Covered(b, n1, x, j)
  <2> SUFFICES ASSUME NEW g \in DOMAIN b, NEW u \in Nat, u < n1[g], ~(u < x[g])
               PROVE \E i \in DOMAIN j : j[i] = Data(g, u)
    BY DEF Covered
  <2>1. CASE g = f /\ u >= a
    <3>1. u - a + 1 \in 1 .. (z - a) /\ a + (u - a + 1) - 1 = u
      BY <2>1
    <3>2. /\ j[(u - a + 1) + Len(q)] = Data(f, a + (u - a + 1) - 1)
          /\ (u - a + 1) + Len(q) \in DOMAIN j
      BY <3>1, <1>1
    <3> QED
      BY <2>1, <3>1, <3>2
  <2>2. CASE ~(g = f /\ u >= a)
    <3>1. u < n[g]
      BY <2>2
    <3>2. PICK i \in DOMAIN q : q[i] = Data(g, u)
      BY <3>1 DEF Flow, Covered
    <3> QED
      BY <1>1, <3>2
  <2> QED
    BY <2>1, <2>2
<1> QED
  BY <1>3, <1>4 DEF Flow, j, m

\* The first frame of a stream, and what is left without it.
LEMMA Rest ==
  ASSUME NEW q \in Seq(Frames), q # <<>>
  PROVE  /\ Head(q) = q[1] /\ 1 \in DOMAIN q /\ Tail(q) \in Seq(Frames)
         /\ DOMAIN q = 1 .. Len(q) /\ Len(q) \in Nat
         /\ \A i \in DOMAIN Tail(q) : i + 1 \in DOMAIN q /\ Tail(q)[i] = q[i + 1]
         /\ \A i \in DOMAIN q : i = 1 \/ (i - 1 \in DOMAIN Tail(q) /\ Tail(q)[i - 1] = q[i])
         /\ DOMAIN Tail(q) \subseteq Nat
<1>1. /\ Head(q) \in Frames /\ Tail(q) \in Seq(Frames) /\ Len(Tail(q)) = Len(q) - 1
      /\ \A i \in 1 .. Len(Tail(q)) : Tail(q)[i] = q[i + 1]
  BY HeadTailProperties
<1>2. DOMAIN q = 1 .. Len(q) /\ DOMAIN Tail(q) = 1 .. Len(Tail(q)) /\ Len(q) \in Nat
      /\ Len(q) # 0
  BY <1>1, LenProperties, EmptySeq
<1>3. Head(q) = q[1]
  OBVIOUS
<1>4. \A i \in DOMAIN Tail(q) : i + 1 \in DOMAIN q /\ Tail(q)[i] = q[i + 1]
  BY <1>1, <1>2
<1>5. \A i \in DOMAIN q : i = 1 \/ (i - 1 \in DOMAIN Tail(q) /\ Tail(q)[i - 1] = q[i])
  BY <1>1, <1>2
<1> QED
  BY <1>1, <1>2, <1>3, <1>4, <1>5

\* The stream without its first frame, when that is no data or is known to the
\* receiver by then.
LEMMA FlowRest ==
  ASSUME NEW b, NEW n, NEW x, NEW x1, NEW q \in Seq(Frames), q # <<>>,
         Flow(b, n, x, q),
         \A i \in DOMAIN q : q[i].type = "DATA" => q[i].file \in DOMAIN b,
         \A f \in DOMAIN b : f \in Nat /\ x[f] \in Nat /\ x1[f] \in Nat /\ x[f] <= x1[f],
         Head(q).type = "DATA" => Head(q).seq < x1[Head(q).file]
  PROVE  Flow(b, n, x1, Tail(q))
<1> DEFINE j == Tail(q)
<1>1. /\ Head(q) = q[1] /\ 1 \in DOMAIN q /\ j \in Seq(Frames)
      /\ \A i \in DOMAIN j : i + 1 \in DOMAIN q /\ j[i] = q[i + 1]
      /\ \A i \in DOMAIN q : i = 1 \/ (i - 1 \in DOMAIN j /\ j[i - 1] = q[i])
      /\ DOMAIN j \subseteq Nat /\ DOMAIN q \subseteq Nat
  BY Rest
<1>2. \A i \in DOMAIN q : q[i] \in Frames
  OBVIOUS
<1> HIDE DEF j
<1>3. InOrder(x1, j)
  <2> SUFFICES ASSUME NEW i \in DOMAIN j, j[i].type = "DATA", ~(j[i].seq <= x1[j[i].file])
               PROVE \E k \in DOMAIN j : k < i /\ j[k] = Data(j[i].file, j[i].seq - 1)
    BY DEF InOrder
  <2> DEFINE mm == j[i]
  <2>1. i + 1 \in DOMAIN q /\ mm = q[i + 1] /\ mm \in Frames /\ i \in Nat
    BY <1>1, <1>2
  <2>2. mm.file \in DOMAIN b /\ mm.seq \in Nat
    BY <2>1, DataFrame
  <2>3. ~(mm.seq <= x[mm.file])
    BY <2>2
  <2>4. PICK k \in DOMAIN q : k < i + 1 /\ q[k] = Data(mm.file, mm.seq - 1)
    BY <2>1, <2>3 DEF Flow, InOrder
  <2>5. mm.seq - 1 \in Nat /\ mm.file \in Nat
    BY <2>2, <2>3
  <2>6. k # 1
    <3> SUFFICES ASSUME k = 1 PROVE FALSE
      OBVIOUS
    <3>1. Head(q) = Data(mm.file, mm.seq - 1)
      BY <1>1, <2>4
    <3>2. mm.seq - 1 < x1[mm.file]
      BY <3>1, <2>5, FrameTypes
    <3> QED
      BY <3>2, <2>2
  <2>7. k - 1 \in DOMAIN j /\ j[k - 1] = q[k] /\ k - 1 < i
    BY <2>6, <1>1, <2>4, <2>1
  <2> QED
    BY <2>7, <2>4
<1>4. Covered(b, n, x1, j)
  <2> SUFFICES ASSUME NEW g \in DOMAIN b, NEW u \in Nat, u < n[g], ~(u < x1[g])
               PROVE \E i \in DOMAIN j : j[i] = Data(g, u)
    BY DEF Covered
  <2>1. ~(u < x[g])
    OBVIOUS
  <2>2. PICK i \in DOMAIN q : q[i] = Data(g, u)
    BY <2>1 DEF Flow, Covered
  <2>3. i # 1
    <3> SUFFICES ASSUME i = 1 PROVE FALSE
      OBVIOUS
    <3>1. Head(q) = Data(g, u)
      BY <1>1, <2>2
    <3> QED
      BY <3>1, FrameTypes
  <2> QED
    BY <1>1, <2>2, <2>3
<1> QED
  BY <1>3, <1>4 DEF Flow, j

-----------------------------------------------------------------------------
(***************************************************************************)
(* Handlers that send no data and write no block.                          *)
(***************************************************************************)

\* Frames added to what a handler has written.
LEMMA Regroup ==
  \A p, o, m \in Seq(Frames) : (p \o o) \o m = p \o (o \o m)
BY ConcatAssociative, SMTT(30)

\* What a handler may do to the phase of a transfer: one that is not over goes on
\* or ends, one that is over stays as it is.
Onward(a, b) == b = a \/ (~Over(a) /\ b # "NONE")

\* The same, with nothing written or verified.
RxOnward(x, x1) ==
  /\ Onward(x.phase, x1.phase)
  /\ x1.expected_seq = x.expected_seq /\ x1.done_sent = x.done_sent

\* Nothing else happens to the transfers of c.
Moves(c, c1) == Onward(c.tx.phase, c1.tx.phase) /\ RxOnward(c.rx, c1.rx)

\* A transfer may also begin.
TxTurn(a, b) == Onward(a, b) \/ (a = "NONE" /\ ~Over(b))

Accepts(x, x1) ==
  /\ x.phase = "NONE" /\ x1.phase \notin {"NONE", "DONE"}
  /\ x1.expected_seq = x.expected_seq /\ x1.done_sent = x.done_sent

Writes(b, x, x1) ==
  /\ ~Over(x.phase) /\ x1.phase = x.phase /\ x1.done_sent = x.done_sent
  /\ \E f \in DOMAIN b : /\ x.expected_seq[f] < b[f]
                         /\ x1.expected_seq = [x.expected_seq EXCEPT ![f] = @ + 1]

Verifies(b, x, x1) ==
  /\ ~Over(x.phase) /\ ~Over(x1.phase)
  /\ ~x.done_sent /\ x1.done_sent /\ x1.expected_seq = x.expected_seq
  /\ \A f \in DOMAIN b : x.expected_seq[f] >= b[f]

\* All that one step does to a transfer that is received.
RxTurn(b, x, x1) ==
  RxOnward(x, x1) \/ Accepts(x, x1) \/ Writes(b, x, x1) \/ Verifies(b, x, x1)

\* One handler after another.
LEMMA OnwardAgain ==
  \A a, b, c : Onward(a, a) /\ (Onward(a, b) /\ Onward(b, c) => Onward(a, c))
BY DEF Onward, Over

\* What a frame says stays true as its writer goes on.
LEMMA SaysStays ==
  ASSUME NEW B, NEW e, NEW c, NEW c1, NEW m, Says(B, e, c, m),
         c \in EngineSet(B, e), c1 \in EngineSet(B, e),
         \A f \in DOMAIN B[e] : c.tx.next_seq[f] <= c1.tx.next_seq[f],
         \A f \in DOMAIN B[Other(e)] : c.rx.expected_seq[f] <= c1.rx.expected_seq[f],
         c.tx.phase = "DONE" => c1.tx.phase = "DONE",
         c.tx.phase # "NONE" => c1.tx.phase # "NONE",
         c.rx.done_sent => c1.rx.done_sent
  PROVE  Says(B, e, c1, m)
<1>1. /\ \A f \in DOMAIN B[e] : c.tx.next_seq[f] \in Nat /\ c1.tx.next_seq[f] \in Nat
      /\ \A f \in DOMAIN B[Other(e)] : /\ c.rx.expected_seq[f] \in Nat
                                       /\ c1.rx.expected_seq[f] \in Nat
  BY DEF EngineSet, TxSet, RxSet
<1>2. m \in Frames
  BY DEF Says
<1>3. ASSUME m.type = "DATA"
      PROVE m.file \in DOMAIN B[e] /\ m.seq < c1.tx.next_seq[m.file]
  BY <1>1, <1>2, <1>3, DataFrame DEF Says
<1>4. ASSUME m.type = "ACK", NEW f \in DOMAIN m.ents
      PROVE f \in DOMAIN B[Other(e)] /\ m.ents[f] <= c1.rx.expected_seq[f]
  <2>1. m.ents[f] \in Nat
    BY <1>2, <1>4, AckIsFrame
  <2> QED
    BY <1>1, <1>4, <2>1 DEF Says
<1>5. m.type = "DONE_ACK" => c1.tx.phase = "DONE"
  BY DEF Says
<1>6. m.type = "DONE" => c1.rx.done_sent
  BY DEF Says
<1>7. m.type = "HEADER" => c1.tx.phase # "NONE"
  BY DEF Says
<1> QED
  BY <1>2, <1>3, <1>4, <1>5, <1>6, <1>7 DEF Says

\* A step that leaves the block numbers alone and adds frames m without data.
LEMMA Calm ==
  ASSUME NEW B, NEW acks, NEW e, NEW c, NEW c1, NEW d, NEW p, NEW r,
         NEW m \in Seq(Frames), Work(B, acks, e, c, d, p, r),
         c1 \in EngineSet(B, e), c1.state # "CRASHED",
         TxSound(B[e], c1.tx), RxSound(B[Other(e)], c1.rx), acks => Reported(c1),
         Agree(B[e], c1.tx, d.rx), Agree(B[Other(e)], d.tx, c1.rx),
         c1.tx.next_seq = c.tx.next_seq, c1.rx.expected_seq = c.rx.expected_seq,
         c.tx.phase = "DONE" => c1.tx.phase = "DONE",
         c.tx.phase # "NONE" => c1.tx.phase # "NONE",
         c.rx.done_sent => c1.rx.done_sent,
         c1.out = c.out \o m,
         \A i \in DOMAIN m : Says(B, e, c1, m[i]) /\ m[i].type # "DATA",
         Alive(c1) => Alive(c)
  PROVE  Work(B, acks, e, c1, d, p, r)
<1> DEFINE q == p \o c.out
           q1 == p \o c1.out
<1>1. /\ p \in Seq(Frames) /\ c \in EngineSet(B, e) /\ q \in Seq(Frames)
      /\ \A i \in DOMAIN q : Says(B, e, c, q[i])
  BY DEF Work, Good
<1>2. c.out \in Seq(Frames)
  BY <1>1 DEF EngineSet
<1>3. q1 = q \o m
  <2> DEFINE o == c.out
  <2>1. o \in Seq(Frames) /\ p \in Seq(Frames) /\ m \in Seq(Frames)
    BY <1>1, <1>2
  <2>2. q = p \o o /\ q1 = p \o (o \o m)
    OBVIOUS
  <2> HIDE DEF o, q, q1
  <2>3. (p \o o) \o m = p \o (o \o m)
    BY <2>1, Regroup, Zenon
  <2> QED
    BY <2>2, <2>3
<1>4. Good(B, acks, e, c, d, q, r)
  BY DEF Work
<1> HIDE DEF q, q1
<1>5. \A i \in DOMAIN q : Says(B, e, c1, q[i])
  <2>1. /\ \A f \in DOMAIN B[e] : c.tx.next_seq[f] <= c1.tx.next_seq[f]
        /\ \A f \in DOMAIN B[Other(e)] : c.rx.expected_seq[f] <= c1.rx.expected_seq[f]
    BY <1>1 DEF EngineSet, TxSet, RxSet
  <2> QED
    BY <2>1, <1>1, SaysStays
<1>6. q1 \in Seq(Frames) /\ \A i \in DOMAIN q1 : Says(B, e, c1, q1[i])
  <2> DEFINE S == {z \in Frames : Says(B, e, c1, z)}
  <2>1. \A i \in DOMAIN q : q[i] \in S
    BY <1>5 DEF Says
  <2>2. \A i \in DOMAIN m : m[i] \in S
    BY DEF Says
  <2> HIDE DEF S
  <2>3. q1 \in Seq(Frames) /\ \A i \in DOMAIN q1 : q1[i] \in S
    BY <1>1, <1>3, <2>1, <2>2, AllJoined, Joined
  <2> QED
    BY <2>3 DEF S
<1>7. Alive(d) => Flow(B[e], c1.tx.next_seq, d.rx.expected_seq, q1)
  BY <1>1, <1>3, <1>4, FlowQuiet DEF Good
<1>8. Alive(c1) => Flow(B[Other(e)], d.tx.next_seq, c1.rx.expected_seq, r)
  BY <1>4 DEF Good
<1>9. Good(B, acks, e, c1, d, q1, r)
  BY <1>6, <1>7, <1>8 DEF Good
<1> QED
  BY <1>1, <1>9 DEF Work, q1

\* What Work gives: the parts that handlers look at.
LEMMA WorkHas ==
  ASSUME NEW B, NEW acks, NEW e, NEW c, NEW d, NEW p, NEW r,
         Work(B, acks, e, c, d, p, r)
  PROVE  /\ c \in EngineSet(B, e) /\ c.state # "CRASHED"
         /\ TxSound(B[e], c.tx) /\ RxSound(B[Other(e)], c.rx)
         /\ acks => Reported(c)
         /\ Agree(B[e], c.tx, d.rx) /\ Agree(B[Other(e)], d.tx, c.rx)
         /\ c.out \in Seq(Frames)
         /\ c.tx \in TxSet(DOMAIN B[e]) /\ c.rx \in RxSet(DOMAIN B[Other(e)])
BY DEF Work, Good, EngineSet

\* The sender's part changes.
LEMMA TxStep ==
  ASSUME NEW B, NEW acks, NEW e, NEW c, NEW c1, NEW d, NEW p, NEW r,
         NEW m \in Seq(Frames), Work(B, acks, e, c, d, p, r),
         c1 \in EngineSet(B, e), c1.state = c.state, c1.rx = c.rx,
         c1.results["rx"] = c.results["rx"],
         acks => Reports(c1.tx.phase, c1.results["tx"]),
         TxSound(B[e], c1.tx), Agree(B[e], c1.tx, d.rx),
         c1.tx.next_seq = c.tx.next_seq,
         c.tx.phase = "DONE" => c1.tx.phase = "DONE",
         c.tx.phase # "NONE" => c1.tx.phase # "NONE",
         c1.out = c.out \o m,
         \A i \in DOMAIN m : Says(B, e, c1, m[i]) /\ m[i].type # "DATA"
  PROVE  Work(B, acks, e, c1, d, p, r)
<1>1. RxSound(B[Other(e)], c1.rx) /\ Agree(B[Other(e)], d.tx, c1.rx) /\ c1.state # "CRASHED"
  BY WorkHas
<1>2. acks => Reported(c1)
  BY WorkHas DEF Reported
<1>3. Alive(c1) => Alive(c)
  BY DEF Alive
<1> QED
  BY <1>1, <1>2, <1>3, Calm

\* The receiver's part changes.
LEMMA RxStep ==
  ASSUME NEW B, NEW acks, NEW e, NEW c, NEW c1, NEW d, NEW p, NEW r,
         NEW m \in Seq(Frames), Work(B, acks, e, c, d, p, r),
         c1 \in EngineSet(B, e), c1.state = c.state, c1.tx = c.tx,
         c1.results["tx"] = c.results["tx"],
         acks => Reports(c1.rx.phase, c1.results["rx"]),
         RxSound(B[Other(e)], c1.rx), Agree(B[Other(e)], d.tx, c1.rx),
         c1.rx.expected_seq = c.rx.expected_seq,
         c.rx.done_sent => c1.rx.done_sent,
         c1.out = c.out \o m,
         \A i \in DOMAIN m : Says(B, e, c1, m[i]) /\ m[i].type # "DATA"
  PROVE  Work(B, acks, e, c1, d, p, r)
<1>1. TxSound(B[e], c1.tx) /\ Agree(B[e], c1.tx, d.rx) /\ c1.state # "CRASHED"
  BY WorkHas
<1>2. acks => Reported(c1)
  BY WorkHas DEF Reported
<1>3. Alive(c1) => Alive(c)
  BY DEF Alive
<1> QED
  BY <1>1, <1>2, <1>3, Calm

\* c1 is c with the frames m written.
Sent(B, e, c, m, c1) ==
  /\ c1 \in EngineSet(B, e) /\ c1.state = c.state /\ c1.set_up = c.set_up
  /\ c1.tx = c.tx /\ c1.rx = c.rx /\ c1.results = c.results
  /\ c1.out = c.out \o m

\* dc_send changes what has been written and nothing else.
LEMMA SendFields ==
  ASSUME NEW B, NEW e, NEW c \in EngineSet(B, e), NEW m \in Seq(Frames)
  PROVE  Sent(B, e, c, m, dc_send(c, m))
<1>1. c.out \in Seq(Frames)
  BY DEF EngineSet
<1> DEFINE o == c.out \o m
<1>2. o \in Seq(Frames)
  BY <1>1
<1> HIDE DEF o
<1>3. dc_send(c, m) = [c EXCEPT !.out = o]
  BY DEF dc_send, o, EngineSet
<1> QED
  BY <1>2, <1>3 DEF Sent, EngineSet, o

\* Frames that say nothing can be sent at any time.
LEMMA SendPlain ==
  ASSUME NEW B, NEW acks, NEW e, NEW c, NEW d, NEW p, NEW r,
         NEW m \in Seq(Frames), Work(B, acks, e, c, d, p, r),
         \A i \in DOMAIN m : m[i].type \in PlainTypes
  PROVE  Work(B, acks, e, dc_send(c, m), d, p, r)
<1> DEFINE c1 == dc_send(c, m)
<1>1. c \in EngineSet(B, e)
  BY WorkHas
<1>2. /\ c1 \in EngineSet(B, e) /\ c1.state = c.state /\ c1.tx = c.tx
      /\ c1.rx = c.rx /\ c1.results = c.results /\ c1.out = c.out \o m
  BY <1>1, SendFields DEF Sent
<1> HIDE DEF c1
<1>3. \A i \in DOMAIN m : Says(B, e, c1, m[i]) /\ m[i].type # "DATA"
  BY PlainSays
<1>4. /\ TxSound(B[e], c1.tx) /\ Agree(B[e], c1.tx, d.rx)
      /\ (acks => Reports(c1.tx.phase, c1.results["tx"]))
      /\ c1.results["rx"] = c.results["rx"] /\ c1.tx.next_seq = c.tx.next_seq
      /\ (c.tx.phase = "DONE" => c1.tx.phase = "DONE")
      /\ (c.tx.phase # "NONE" => c1.tx.phase # "NONE")
  BY <1>2, WorkHas DEF Reported
<1>5. Work(B, acks, e, c1, d, p, r)
  BY <1>2, <1>3, <1>4, TxStep
<1> QED
  BY <1>5 DEF c1

\* c1 is c after the transfer it sends has ended in phase.
TxEnded(B, e, c, phase, c1) ==
  /\ c1 \in EngineSet(B, e)
  /\ c1.state = c.state /\ c1.set_up = c.set_up /\ c1.rx = c.rx
  /\ c1.tx = [c.tx EXCEPT !.phase = phase]
  /\ c1.results["tx"] = (IF c.set_up THEN c.results["tx"] + 1 ELSE c.results["tx"])
  /\ c1.results["rx"] = c.results["rx"] /\ c1.out = c.out

\* The sender's transfer ends and is reported.
LEMMA ReportTx ==
  ASSUME NEW B, NEW e, NEW c \in EngineSet(B, e), NEW phase \in {"DONE", "FAILED"}
  PROVE  TxEnded(B, e, c, phase, Report(c, "tx", phase))
<1> DEFINE t == [c.tx EXCEPT !.phase = phase]
           s == [c.results EXCEPT !["tx"] = IF c.set_up THEN @ + 1 ELSE @]
<1>1. Report(c, "tx", phase) = [c EXCEPT !.tx = t, !.results = s]
  BY DEF EngineSet, Report
<1>2. t \in TxSet(DOMAIN B[e])
  BY DEF EngineSet, TxSet, TxPhases
<1>3. /\ s \in [{"tx", "rx"} -> Nat] /\ s["rx"] = c.results["rx"]
      /\ s["tx"] = (IF c.set_up THEN c.results["tx"] + 1 ELSE c.results["tx"])
  BY DEF EngineSet
<1> HIDE DEF t, s
<1>4. /\ [c EXCEPT !.tx = t, !.results = s] \in EngineSet(B, e)
      /\ [c EXCEPT !.tx = t, !.results = s].state = c.state
      /\ [c EXCEPT !.tx = t, !.results = s].set_up = c.set_up
      /\ [c EXCEPT !.tx = t, !.results = s].rx = c.rx
      /\ [c EXCEPT !.tx = t, !.results = s].tx = t
      /\ [c EXCEPT !.tx = t, !.results = s].results = s
      /\ [c EXCEPT !.tx = t, !.results = s].out = c.out
  BY <1>2, <1>3 DEF EngineSet
<1> QED
  BY <1>1, <1>3, <1>4 DEF t, TxEnded

\* c1 is c after the transfer it receives has ended in phase.
RxEnded(B, e, c, phase, c1) ==
  /\ c1 \in EngineSet(B, e)
  /\ c1.state = c.state /\ c1.set_up = c.set_up /\ c1.tx = c.tx
  /\ c1.rx = [c.rx EXCEPT !.phase = phase]
  /\ c1.results["rx"] = (IF c.set_up THEN c.results["rx"] + 1 ELSE c.results["rx"])
  /\ c1.results["tx"] = c.results["tx"] /\ c1.out = c.out

\* The receiver's transfer ends and is reported.
LEMMA ReportRx ==
  ASSUME NEW B, NEW e, NEW c \in EngineSet(B, e), NEW phase \in {"DONE", "FAILED"}
  PROVE  RxEnded(B, e, c, phase, Report(c, "rx", phase))
<1> DEFINE t == [c.rx EXCEPT !.phase = phase]
           s == [c.results EXCEPT !["rx"] = IF c.set_up THEN @ + 1 ELSE @]
<1>1. Report(c, "rx", phase) = [c EXCEPT !.rx = t, !.results = s]
  BY DEF EngineSet, Report
<1>2. t \in RxSet(DOMAIN B[Other(e)])
  BY DEF EngineSet, RxSet, RxPhases
<1>3. /\ s \in [{"tx", "rx"} -> Nat] /\ s["tx"] = c.results["tx"]
      /\ s["rx"] = (IF c.set_up THEN c.results["rx"] + 1 ELSE c.results["rx"])
  BY DEF EngineSet
<1> HIDE DEF t, s
<1>4. /\ [c EXCEPT !.rx = t, !.results = s] \in EngineSet(B, e)
      /\ [c EXCEPT !.rx = t, !.results = s].state = c.state
      /\ [c EXCEPT !.rx = t, !.results = s].set_up = c.set_up
      /\ [c EXCEPT !.rx = t, !.results = s].tx = c.tx
      /\ [c EXCEPT !.rx = t, !.results = s].rx = t
      /\ [c EXCEPT !.rx = t, !.results = s].results = s
      /\ [c EXCEPT !.rx = t, !.results = s].out = c.out
  BY <1>2, <1>3 DEF EngineSet
<1> QED
  BY <1>1, <1>3, <1>4 DEF t, RxEnded

\* The report of a transfer that is not over is the first.
LEMMA FirstReport ==
  ASSUME NEW phase, NEW n, Reports(phase, n), phase \notin {"DONE", "FAILED"},
         NEW set_up \in BOOLEAN, NEW phase1 \in {"DONE", "FAILED"}
  PROVE  Reports(phase1, IF set_up THEN n + 1 ELSE n)
BY DEF Reports

\* A send transfer that changes its phase only.
LEMMA TxPhase ==
  ASSUME NEW b, NEW t, NEW phase \in TxPhases \ {"NONE", "WAIT_CONFIRM_REQ"},
         NEW x, TxSound(b, t), Agree(b, t, x), t.phase = "DONE" => phase = "DONE",
         phase = "DONE" => x.done_sent, NEW t1, t1 = [t EXCEPT !.phase = phase]
  PROVE  /\ TxSound(b, t1) /\ Agree(b, t1, x) /\ t1.phase = phase
         /\ t1.next_seq = t.next_seq
<1>1. t \in TxSet(DOMAIN b)
  BY DEF TxSound
<1>2. /\ t1 \in TxSet(DOMAIN b) /\ t1.phase = phase /\ t1.next_seq = t.next_seq
      /\ t1.retrans = t.retrans /\ t1.acked = t.acked
      /\ t1.done_received = t.done_received
  BY <1>1 DEF TxSet
<1>3. TxSound(b, t1)
  BY <1>2 DEF TxSound
<1>4. Agree(b, t1, x)
  BY <1>2 DEF Agree
<1> QED
  BY <1>2, <1>3, <1>4

\* A receive transfer that changes its phase only.
LEMMA RxPhase ==
  ASSUME NEW b, NEW x, NEW phase \in RxPhases \ {"NONE"}, NEW t,
         RxSound(b, x), Agree(b, t, x), x.phase # "NONE",
         phase = "DONE" => t.phase = "DONE",
         NEW x1, x1 = [x EXCEPT !.phase = phase]
  PROVE  /\ RxSound(b, x1) /\ Agree(b, t, x1) /\ x1.phase = phase
         /\ x1.expected_seq = x.expected_seq /\ x1.done_sent = x.done_sent
<1>1. x \in RxSet(DOMAIN b)
  BY DEF RxSound
<1>2. /\ x1 \in RxSet(DOMAIN b) /\ x1.phase = phase
      /\ x1.expected_seq = x.expected_seq /\ x1.done_sent = x.done_sent
  BY <1>1 DEF RxSet
<1>3. RxSound(b, x1)
  BY <1>2 DEF RxSound
<1>4. Agree(b, t, x1)
  BY <1>2 DEF Agree
<1> QED
  BY <1>2, <1>3, <1>4

\* trans_fail of the transfer that c sends.
LEMMA FailTx ==
  ASSUME NEW B, NEW acks, NEW e, NEW c, NEW d, NEW p, NEW r, NEW rst \in BOOLEAN,
         Work(B, acks, e, c, d, p, r)
  PROVE  LET c1 == trans_fail(c, "tx", rst) IN
         /\ Work(B, acks, e, c1, d, p, r)
         /\ c1.state = c.state /\ c1.set_up = c.set_up /\ c1.rx = c.rx
         /\ Onward(c.tx.phase, c1.tx.phase)
<1> DEFINE c1 == trans_fail(c, "tx", rst)
           c0 == Report(c, "tx", "FAILED")
           m == IF rst THEN <<Rst("tx")>> ELSE <<>>
<1>0. c \in EngineSet(B, e) /\ c.set_up \in BOOLEAN /\ c.results["tx"] \in Nat
  BY WorkHas DEF EngineSet
<1>1. CASE Over(c.tx.phase)
  <2>1. c1 = c
    BY <1>1 DEF trans_fail
  <2> QED
    BY <2>1, OnwardAgain
<1>2. CASE ~Over(c.tx.phase)
  <2>1. c1 = dc_send(c0, m)
    BY <1>2 DEF trans_fail
  <2>2. /\ c0 \in EngineSet(B, e)
        /\ c0.state = c.state /\ c0.set_up = c.set_up /\ c0.rx = c.rx
        /\ c0.tx = [c.tx EXCEPT !.phase = "FAILED"]
        /\ c0.results["tx"] = (IF c.set_up THEN c.results["tx"] + 1 ELSE c.results["tx"])
        /\ c0.results["rx"] = c.results["rx"] /\ c0.out = c.out
    <3>1. TxEnded(B, e, c, "FAILED", c0)
      BY <1>0, ReportTx
    <3> QED
      BY <3>1 DEF TxEnded
  <2>3. m \in Seq(Frames) /\ \A i \in DOMAIN m : m[i].type \in PlainTypes
    BY FrameTypes, Short DEF PlainTypes
  <2> HIDE DEF c0, c1, m
  <2>4. /\ c1 \in EngineSet(B, e) /\ c1.state = c0.state /\ c1.set_up = c0.set_up
        /\ c1.rx = c0.rx /\ c1.tx = c0.tx /\ c1.results = c0.results
        /\ c1.out = c0.out \o m
    <3>1. Sent(B, e, c0, m, c1)
      BY <2>1, <2>2, <2>3, SendFields
    <3> QED
      BY <3>1 DEF Sent
  <2>5. /\ TxSound(B[e], c1.tx) /\ Agree(B[e], c1.tx, d.rx) /\ c1.tx.phase = "FAILED"
        /\ c1.tx.next_seq = c.tx.next_seq
    <3>1. "FAILED" \in TxPhases \ {"NONE", "WAIT_CONFIRM_REQ"} /\ c.tx.phase # "DONE"
      BY <1>2 DEF TxPhases, Over
    <3> QED
      BY <2>2, <2>4, <3>1, WorkHas, TxPhase
  <2>6. acks => Reports(c1.tx.phase, c1.results["tx"])
    <3>1. /\ acks => Reports(c.tx.phase, c.results["tx"])
          /\ c.tx.phase \notin {"DONE", "FAILED"}
      BY <1>2, WorkHas DEF Reported, Over
    <3>2. acks => Reports("FAILED", IF c.set_up THEN c.results["tx"] + 1 ELSE c.results["tx"])
      BY <1>0, <3>1, FirstReport
    <3> QED
      BY <2>2, <2>4, <2>5, <3>2
  <2>7. \A i \in DOMAIN m : Says(B, e, c1, m[i]) /\ m[i].type # "DATA"
    BY <2>3, PlainSays
  <2>8. /\ c1.state = c.state /\ c1.rx = c.rx /\ c1.results["rx"] = c.results["rx"]
        /\ c1.out = c.out \o m /\ c1.set_up = c.set_up
        /\ c.tx.phase = "DONE" => c1.tx.phase = "DONE"
    BY <1>2, <2>2, <2>4 DEF Over
  <2>9. Work(B, acks, e, c1, d, p, r)
    BY <2>3, <2>4, <2>5, <2>6, <2>7, <2>8, TxStep
  <2>10. Onward(c.tx.phase, c1.tx.phase)
    BY <1>2, <2>5 DEF Onward
  <2> QED
    BY <2>8, <2>9, <2>10 DEF c1
<1> QED
  BY <1>1, <1>2

\* With RST.
LEMMA TxResets ==
  ASSUME NEW B, NEW acks, NEW e, NEW c, NEW d, NEW p, NEW r,
         Work(B, acks, e, c, d, p, r)
  PROVE  LET c1 == trans_fail(c, "tx", TRUE) IN
         /\ Work(B, acks, e, c1, d, p, r) /\ c1.rx = c.rx
         /\ Onward(c.tx.phase, c1.tx.phase)
<1> DEFINE rst == TRUE
<1>1. rst \in BOOLEAN
  OBVIOUS
<1> HIDE DEF rst
<1>2. LET c1 == trans_fail(c, "tx", rst) IN
      /\ Work(B, acks, e, c1, d, p, r) /\ c1.rx = c.rx
      /\ Onward(c.tx.phase, c1.tx.phase)
  BY <1>1, FailTx
<1> QED
  BY <1>2 DEF rst

\* Without.
LEMMA TxEnds ==
  ASSUME NEW B, NEW acks, NEW e, NEW c, NEW d, NEW p, NEW r,
         Work(B, acks, e, c, d, p, r)
  PROVE  LET c1 == trans_fail(c, "tx", FALSE) IN
         /\ Work(B, acks, e, c1, d, p, r) /\ c1.rx = c.rx
         /\ Onward(c.tx.phase, c1.tx.phase)
<1> DEFINE rst == FALSE
<1>1. rst \in BOOLEAN
  OBVIOUS
<1> HIDE DEF rst
<1>2. LET c1 == trans_fail(c, "tx", rst) IN
      /\ Work(B, acks, e, c1, d, p, r) /\ c1.rx = c.rx
      /\ Onward(c.tx.phase, c1.tx.phase)
  BY <1>1, FailTx
<1> QED
  BY <1>2 DEF rst

\* trans_fail of the transfer that c receives.
LEMMA FailRx ==
  ASSUME NEW B, NEW acks, NEW e, NEW c, NEW d, NEW p, NEW r, NEW rst \in BOOLEAN,
         Work(B, acks, e, c, d, p, r)
  PROVE  LET c1 == trans_fail(c, "rx", rst) IN
         /\ Work(B, acks, e, c1, d, p, r)
         /\ c1.state = c.state /\ c1.set_up = c.set_up /\ c1.tx = c.tx
         /\ RxOnward(c.rx, c1.rx)
<1> DEFINE c1 == trans_fail(c, "rx", rst)
           c0 == Report(c, "rx", "FAILED")
           m == IF rst THEN <<Rst("rx")>> ELSE <<>>
<1>0. c \in EngineSet(B, e) /\ c.set_up \in BOOLEAN /\ c.results["rx"] \in Nat
  BY WorkHas DEF EngineSet
<1>1. CASE Over(c.rx.phase)
  <2>1. c1 = c
    BY <1>1 DEF trans_fail
  <2> QED
    BY <2>1, OnwardAgain DEF RxOnward
<1>2. CASE ~Over(c.rx.phase)
  <2>1. c1 = dc_send(c0, m)
    BY <1>2 DEF trans_fail
  <2>2. /\ c0 \in EngineSet(B, e)
        /\ c0.state = c.state /\ c0.set_up = c.set_up /\ c0.tx = c.tx
        /\ c0.rx = [c.rx EXCEPT !.phase = "FAILED"]
        /\ c0.results["rx"] = (IF c.set_up THEN c.results["rx"] + 1 ELSE c.results["rx"])
        /\ c0.results["tx"] = c.results["tx"] /\ c0.out = c.out
    <3>1. RxEnded(B, e, c, "FAILED", c0)
      BY <1>0, ReportRx
    <3> QED
      BY <3>1 DEF RxEnded
  <2>3. m \in Seq(Frames) /\ \A i \in DOMAIN m : m[i].type \in PlainTypes
    BY FrameTypes, Short DEF PlainTypes
  <2> HIDE DEF c0, c1, m
  <2>4. /\ c1 \in EngineSet(B, e) /\ c1.state = c0.state /\ c1.set_up = c0.set_up
        /\ c1.rx = c0.rx /\ c1.tx = c0.tx /\ c1.results = c0.results
        /\ c1.out = c0.out \o m
    <3>1. Sent(B, e, c0, m, c1)
      BY <2>1, <2>2, <2>3, SendFields
    <3> QED
      BY <3>1 DEF Sent
  <2>5. /\ RxSound(B[Other(e)], c1.rx) /\ Agree(B[Other(e)], d.tx, c1.rx)
        /\ c1.rx.phase = "FAILED"
        /\ c1.rx.expected_seq = c.rx.expected_seq /\ c1.rx.done_sent = c.rx.done_sent
    <3>1. "FAILED" \in RxPhases \ {"NONE"} /\ c.rx.phase # "NONE"
      BY <1>2 DEF RxPhases, Over
    <3> QED
      BY <2>2, <2>4, <3>1, WorkHas, RxPhase
  <2>6. acks => Reports(c1.rx.phase, c1.results["rx"])
    <3>1. /\ acks => Reports(c.rx.phase, c.results["rx"])
          /\ c.rx.phase \notin {"DONE", "FAILED"}
      BY <1>2, WorkHas DEF Reported, Over
    <3>2. acks => Reports("FAILED", IF c.set_up THEN c.results["rx"] + 1 ELSE c.results["rx"])
      BY <1>0, <3>1, FirstReport
    <3> QED
      BY <2>2, <2>4, <2>5, <3>2
  <2>7. \A i \in DOMAIN m : Says(B, e, c1, m[i]) /\ m[i].type # "DATA"
    BY <2>3, PlainSays
  <2>8. /\ c1.state = c.state /\ c1.tx = c.tx /\ c1.results["tx"] = c.results["tx"]
        /\ c1.out = c.out \o m /\ c1.set_up = c.set_up
        /\ c.rx.done_sent => c1.rx.done_sent
    BY <2>2, <2>4, <2>5
  <2>9. Work(B, acks, e, c1, d, p, r)
    BY <2>3, <2>4, <2>5, <2>6, <2>7, <2>8, RxStep
  <2>10. RxOnward(c.rx, c1.rx)
    BY <1>2, <2>5 DEF Onward, RxOnward
  <2> QED
    BY <2>8, <2>9, <2>10 DEF c1
<1> QED
  BY <1>1, <1>2

\* With RST.
LEMMA RxResets ==
  ASSUME NEW B, NEW acks, NEW e, NEW c, NEW d, NEW p, NEW r,
         Work(B, acks, e, c, d, p, r)
  PROVE  LET c1 == trans_fail(c, "rx", TRUE) IN
         /\ Work(B, acks, e, c1, d, p, r) /\ c1.tx = c.tx
         /\ RxOnward(c.rx, c1.rx)
<1> DEFINE rst == TRUE
<1>1. rst \in BOOLEAN
  OBVIOUS
<1> HIDE DEF rst
<1>2. LET c1 == trans_fail(c, "rx", rst) IN
      /\ Work(B, acks, e, c1, d, p, r) /\ c1.tx = c.tx
      /\ RxOnward(c.rx, c1.rx)
  BY <1>1, FailRx
<1> QED
  BY <1>2 DEF rst

\* Without.
LEMMA RxEnds ==
  ASSUME NEW B, NEW acks, NEW e, NEW c, NEW d, NEW p, NEW r,
         Work(B, acks, e, c, d, p, r)
  PROVE  LET c1 == trans_fail(c, "rx", FALSE) IN
         /\ Work(B, acks, e, c1, d, p, r) /\ c1.tx = c.tx
         /\ RxOnward(c.rx, c1.rx)
<1> DEFINE rst == FALSE
<1>1. rst \in BOOLEAN
  OBVIOUS
<1> HIDE DEF rst
<1>2. LET c1 == trans_fail(c, "rx", rst) IN
      /\ Work(B, acks, e, c1, d, p, r) /\ c1.tx = c.tx
      /\ RxOnward(c.rx, c1.rx)
  BY <1>1, FailRx
<1> QED
  BY <1>2 DEF rst

\* shutdown_common.
LEMMA ShutdownWorks ==
  ASSUME NEW B, NEW acks, NEW e, NEW c, NEW d, NEW p, NEW r,
         Work(B, acks, e, c, d, p, r)
  PROVE  /\ Work(B, acks, e, shutdown_common(c), d, p, r)
         /\ shutdown_common(c).state = "CLOSING"
         /\ Moves(c, shutdown_common(c))
<1> DEFINE c1 == trans_fail(c, "tx", FALSE)
           c2 == trans_fail(c1, "rx", FALSE)
           c3 == [c2 EXCEPT !.state = "CLOSING"]
           m == <<Simple("EOF")>>
<1>1. CASE c.state = "CLOSING"
  <2>1. shutdown_common(c) = c
    BY <1>1 DEF shutdown_common
  <2> QED
    BY <1>1, <2>1, OnwardAgain DEF Moves, RxOnward
<1>2. CASE c.state # "CLOSING"
  <2>1. shutdown_common(c) = dc_send(c3, m)
    BY <1>2 DEF shutdown_common
  <2>2. /\ Work(B, acks, e, c1, d, p, r)
        /\ Onward(c.tx.phase, c1.tx.phase) /\ c1.rx = c.rx
    BY TxEnds
  <2> HIDE DEF c1
  <2>3. /\ Work(B, acks, e, c2, d, p, r)
        /\ RxOnward(c1.rx, c2.rx) /\ c2.tx = c1.tx
    BY <2>2, RxEnds
  <2> HIDE DEF c2
  <2>4. /\ c2 \in EngineSet(B, e) /\ c2.out \in Seq(Frames)
        /\ TxSound(B[e], c2.tx) /\ RxSound(B[Other(e)], c2.rx)
        /\ acks => Reported(c2)
        /\ Agree(B[e], c2.tx, d.rx) /\ Agree(B[Other(e)], d.tx, c2.rx)
    BY <2>3, WorkHas
  <2>5. /\ c3 \in EngineSet(B, e) /\ c3.state = "CLOSING" /\ c3.tx = c2.tx
        /\ c3.rx = c2.rx /\ c3.results = c2.results /\ c3.out = c2.out
    BY <2>4 DEF EngineSet, States
  <2> HIDE DEF c3
  <2>6. ~Alive(c3) /\ (acks => Reported(c3)) /\ c3.state # "CRASHED"
    BY <2>4, <2>5 DEF Alive, Reported
  <2>7. <<>> \in Seq(Frames) /\ DOMAIN <<>> = {} /\ c3.out = c2.out \o <<>>
    BY <2>4, <2>5, Short, ConcatEmptySeq
  <2>8. Work(B, acks, e, c3, d, p, r)
    <3> DEFINE z == <<>>
    <3>1. z \in Seq(Frames) /\ c3.out = c2.out \o z
          /\ \A i \in DOMAIN z : Says(B, e, c3, z[i]) /\ z[i].type # "DATA"
      BY <2>7
    <3> HIDE DEF z
    <3>2. /\ TxSound(B[e], c3.tx) /\ RxSound(B[Other(e)], c3.rx)
          /\ Agree(B[e], c3.tx, d.rx) /\ Agree(B[Other(e)], d.tx, c3.rx)
          /\ c3.tx.next_seq = c2.tx.next_seq /\ c3.rx.expected_seq = c2.rx.expected_seq
          /\ (c2.tx.phase = "DONE" => c3.tx.phase = "DONE")
          /\ (c2.tx.phase # "NONE" => c3.tx.phase # "NONE")
          /\ (c2.rx.done_sent => c3.rx.done_sent)
      BY <2>4, <2>5
    <3> QED
      BY <2>3, <2>5, <2>6, <3>1, <3>2, Calm
  <2>9. m \in Seq(Frames) /\ \A i \in DOMAIN m : m[i].type \in PlainTypes
    BY FrameTypes, Short DEF PlainTypes
  <2> HIDE DEF m
  <2>10. Work(B, acks, e, dc_send(c3, m), d, p, r)
    BY <2>8, <2>9, SendPlain
  <2>11. Sent(B, e, c3, m, dc_send(c3, m))
    BY <2>5, <2>9, SendFields
  <2> DEFINE c4 == dc_send(c3, m)
  <2> HIDE DEF c4
  <2>12. c4.state = "CLOSING" /\ c4.tx = c1.tx /\ c4.rx = c2.rx
    BY <2>3, <2>5, <2>11 DEF Sent, c4
  <2>13. Moves(c, c4)
    BY <2>2, <2>3, <2>12 DEF Moves
  <2> QED
    BY <2>1, <2>10, <2>12, <2>13 DEF c4
<1> QED
  BY <1>1, <1>2

\* A single plain frame.
LEMMA SendOne ==
  ASSUME NEW B, NEW acks, NEW e, NEW c, NEW d, NEW p, NEW r,
         NEW m \in Frames, m.type \in PlainTypes, Work(B, acks, e, c, d, p, r)
  PROVE  LET c1 == dc_send(c, <<m>>) IN
         /\ Work(B, acks, e, c1, d, p, r)
         /\ c1.tx = c.tx /\ c1.rx = c.rx /\ c1.state = c.state
         /\ c1.set_up = c.set_up /\ c1.results = c.results
<1> DEFINE z == <<m>>
<1>1. z \in Seq(Frames) /\ \A i \in DOMAIN z : z[i].type \in PlainTypes
  BY Short
<1> HIDE DEF z
<1>2. Work(B, acks, e, dc_send(c, z), d, p, r)
  BY <1>1, SendPlain
<1>3. /\ dc_send(c, z).tx = c.tx /\ dc_send(c, z).rx = c.rx
      /\ dc_send(c, z).state = c.state /\ dc_send(c, z).set_up = c.set_up
      /\ dc_send(c, z).results = c.results
  BY <1>1, WorkHas, SendFields DEF Sent
<1> QED
  BY <1>2, <1>3 DEF z

\* A header, for a transfer that there is.
LEMMA SendHeader ==
  ASSUME NEW B, NEW acks, NEW e, NEW c, NEW d, NEW p, NEW r,
         Work(B, acks, e, c, d, p, r), c.tx.phase # "NONE"
  PROVE  LET c1 == dc_send(c, <<Simple("HEADER")>>) IN
         /\ Work(B, acks, e, c1, d, p, r)
         /\ c1.tx = c.tx /\ c1.rx = c.rx /\ c1.state = c.state
         /\ c1.set_up = c.set_up /\ c1.results = c.results
<1> DEFINE z == <<Simple("HEADER")>>
           c1 == dc_send(c, z)
<1>1. Simple("HEADER") \in Frames /\ Simple("HEADER").type = "HEADER"
  BY FrameTypes
<1>2. z \in Seq(Frames) /\ \A i \in DOMAIN z : z[i] = Simple("HEADER")
  BY <1>1, Short
<1> HIDE DEF z
<1>3. Sent(B, e, c, z, c1)
  BY <1>2, WorkHas, SendFields
<1> HIDE DEF c1
<1>4. /\ c1 \in EngineSet(B, e) /\ c1.state = c.state /\ c1.tx = c.tx
      /\ c1.rx = c.rx /\ c1.results = c.results /\ c1.out = c.out \o z
      /\ c1.set_up = c.set_up
  BY <1>3 DEF Sent
<1>5. \A i \in DOMAIN z : Says(B, e, c1, z[i]) /\ z[i].type # "DATA"
  BY <1>1, <1>2, <1>4 DEF Says
<1>6. /\ TxSound(B[e], c1.tx) /\ Agree(B[e], c1.tx, d.rx)
      /\ (acks => Reports(c1.tx.phase, c1.results["tx"]))
      /\ c1.results["rx"] = c.results["rx"] /\ c1.tx.next_seq = c.tx.next_seq
      /\ (c.tx.phase = "DONE" => c1.tx.phase = "DONE")
      /\ (c.tx.phase # "NONE" => c1.tx.phase # "NONE")
  BY <1>4, WorkHas DEF Reported
<1>7. Work(B, acks, e, c1, d, p, r)
  BY <1>2, <1>4, <1>5, <1>6, TxStep
<1> QED
  BY <1>4, <1>7 DEF c1, z

\* Refuse.
LEMMA RefuseWorks ==
  ASSUME NEW B, NEW acks, NEW e, NEW c, NEW d, NEW p, NEW r,
         Work(B, acks, e, c, d, p, r)
  PROVE  /\ Work(B, acks, e, Refuse(c), d, p, r)
         /\ Refuse(c).state = "CLOSING"
         /\ Moves(c, Refuse(c))
<1> DEFINE c1 == dc_send(c, <<Rst("rx")>>)
<1>1. Rst("rx") \in Frames /\ Rst("rx").type \in PlainTypes
  BY FrameTypes DEF PlainTypes
<1>2. Work(B, acks, e, c1, d, p, r) /\ c1.tx = c.tx /\ c1.rx = c.rx
  BY <1>1, SendOne
<1> HIDE DEF c1
<1>3. /\ Work(B, acks, e, shutdown_common(c1), d, p, r)
      /\ shutdown_common(c1).state = "CLOSING"
      /\ Moves(c1, shutdown_common(c1))
  BY <1>2, ShutdownWorks
<1>4. Moves(c, shutdown_common(c1))
  BY <1>2, <1>3 DEF Moves
<1> QED
  BY <1>3, <1>4 DEF Refuse, c1

\* The transfer that c sends becomes t1.
LEMMA EditTx ==
  ASSUME NEW B, NEW acks, NEW e, NEW c, NEW d, NEW p, NEW r, NEW t1, NEW c1,
         Work(B, acks, e, c, d, p, r), c1 = [c EXCEPT !.tx = t1],
         TxSound(B[e], t1), Agree(B[e], t1, d.rx), t1.next_seq = c.tx.next_seq,
         c.tx.phase = "DONE" => t1.phase = "DONE",
         c.tx.phase # "NONE" => t1.phase # "NONE",
         acks => Reports(t1.phase, c.results["tx"])
  PROVE  /\ Work(B, acks, e, c1, d, p, r)
         /\ c1.state = c.state /\ c1.set_up = c.set_up /\ c1.tx = t1
         /\ c1.rx = c.rx /\ c1.results = c.results
<1>1. c \in EngineSet(B, e) /\ c.out \in Seq(Frames)
  BY WorkHas
<1>2. t1 \in TxSet(DOMAIN B[e])
  BY DEF TxSound
<1>3. /\ c1 \in EngineSet(B, e) /\ c1.state = c.state /\ c1.set_up = c.set_up
      /\ c1.tx = t1 /\ c1.rx = c.rx /\ c1.results = c.results /\ c1.out = c.out
  BY <1>1, <1>2 DEF EngineSet
<1> DEFINE z == <<>>
<1>4. z \in Seq(Frames) /\ DOMAIN z = {} /\ c1.out = c.out \o z
  BY <1>1, <1>3, Short, ConcatEmptySeq
<1>5. \A i \in DOMAIN z : Says(B, e, c1, z[i]) /\ z[i].type # "DATA"
  BY <1>4
<1> HIDE DEF z
<1>6. c1.results["rx"] = c.results["rx"] /\ (acks => Reports(c1.tx.phase, c1.results["tx"]))
  BY <1>3
<1>7. /\ TxSound(B[e], c1.tx) /\ Agree(B[e], c1.tx, d.rx) /\ c1.tx.next_seq = c.tx.next_seq
      /\ (c.tx.phase = "DONE" => c1.tx.phase = "DONE")
      /\ (c.tx.phase # "NONE" => c1.tx.phase # "NONE")
  BY <1>3
<1>8. Work(B, acks, e, c1, d, p, r)
  BY <1>3, <1>4, <1>5, <1>6, <1>7, TxStep
<1> QED
  BY <1>3, <1>8

\* The transfer that c receives becomes x1.
LEMMA EditRx ==
  ASSUME NEW B, NEW acks, NEW e, NEW c, NEW d, NEW p, NEW r, NEW x1, NEW c1,
         Work(B, acks, e, c, d, p, r), c1 = [c EXCEPT !.rx = x1],
         RxSound(B[Other(e)], x1), Agree(B[Other(e)], d.tx, x1),
         x1.expected_seq = c.rx.expected_seq,
         c.rx.done_sent => x1.done_sent,
         acks => Reports(x1.phase, c.results["rx"])
  PROVE  /\ Work(B, acks, e, c1, d, p, r)
         /\ c1.state = c.state /\ c1.set_up = c.set_up /\ c1.tx = c.tx
         /\ c1.rx = x1 /\ c1.results = c.results
<1>1. c \in EngineSet(B, e) /\ c.out \in Seq(Frames)
  BY WorkHas
<1>2. x1 \in RxSet(DOMAIN B[Other(e)])
  BY DEF RxSound
<1>3. /\ c1 \in EngineSet(B, e) /\ c1.state = c.state /\ c1.set_up = c.set_up
      /\ c1.tx = c.tx /\ c1.rx = x1 /\ c1.results = c.results /\ c1.out = c.out
  BY <1>1, <1>2 DEF EngineSet
<1> DEFINE z == <<>>
<1>4. z \in Seq(Frames) /\ DOMAIN z = {} /\ c1.out = c.out \o z
  BY <1>1, <1>3, Short, ConcatEmptySeq
<1>5. \A i \in DOMAIN z : Says(B, e, c1, z[i]) /\ z[i].type # "DATA"
  BY <1>4
<1> HIDE DEF z
<1>6. c1.results["tx"] = c.results["tx"] /\ (acks => Reports(c1.rx.phase, c1.results["rx"]))
  BY <1>3
<1>7. /\ RxSound(B[Other(e)], c1.rx) /\ Agree(B[Other(e)], d.tx, c1.rx)
      /\ c1.rx.expected_seq = c.rx.expected_seq
      /\ (c.rx.done_sent => c1.rx.done_sent)
  BY <1>3
<1>8. Work(B, acks, e, c1, d, p, r)
  BY <1>3, <1>4, <1>5, <1>6, <1>7, RxStep
<1> QED
  BY <1>3, <1>8

-----------------------------------------------------------------------------
(***************************************************************************)
(* The sender's handlers.                                                  *)
(***************************************************************************)

\* send_files_impl: the new transfer starts where there was none.
LEMMA SendFilesWorks ==
  ASSUME NEW acks, NEW e, NEW c, NEW d, NEW p, NEW r, NEW bad,
         Work(Blocks, acks, e, c, d, p, r)
  PROVE  LET c1 == send_files_impl(e, c, bad) IN
         /\ Work(Blocks, acks, e, c1, d, p, r)
         /\ c1.state = c.state /\ c1.set_up = c.set_up /\ c1.rx = c.rx
         /\ c1.results["rx"] = c.results["rx"]
         /\ TxTurn(c.tx.phase, c1.tx.phase)
<1> DEFINE c1 == send_files_impl(e, c, bad)
           t == NewTx(e, "WAIT_CONFIRM_REQ")
           c0 == [c EXCEPT !.tx = t]
           b == Blocks[e]
<1>1. CASE c1 = c
  BY <1>1, OnwardAgain DEF TxTurn
<1>2. CASE c1 # c
  <2>1. c1 = dc_send(c0, <<Simple("HEADER")>>) /\ c.tx.phase = "NONE"
    BY <1>2 DEF send_files_impl
  <2>2. /\ TxSound(b, c.tx) /\ Agree(b, c.tx, d.rx) /\ c.tx \in TxSet(DOMAIN b)
        /\ acks => Reported(c)
    BY WorkHas
  <2>3. c.tx.next_seq \in [DOMAIN b -> Nat] /\ \A f \in DOMAIN b : c.tx.next_seq[f] = 0
    BY <2>1, <2>2 DEF TxSound, TxSet
  <2>4. /\ t \in TxSet(DOMAIN b) /\ t.phase = "WAIT_CONFIRM_REQ"
        /\ t.next_seq = [f \in DOMAIN b |-> 0] /\ t.retrans = [f \in DOMAIN b |-> 0]
        /\ t.acked = [f \in DOMAIN b |-> 0] /\ t.done_received = FALSE
        /\ t.ctrl_retries = 0
    BY Limits DEF NewTx, TxSet, TxPhases, Files
  <2> HIDE DEF t, b
  <2>5. t.next_seq = c.tx.next_seq
    BY <2>3, <2>4
  <2>6. TxSound(b, t)
    BY <2>2, <2>4, <2>5, Limits DEF TxSound
  <2>7. Agree(b, t, d.rx)
    <3>1. d.rx.phase # "DONE"
      BY <2>1, <2>2 DEF Agree
    <3>2. \A f \in DOMAIN b : d.rx.expected_seq[f] \in Nat /\ d.rx.expected_seq[f] <= t.next_seq[f]
      BY <2>2, <2>5 DEF Agree
    <3>3. \A f \in DOMAIN b : t.acked[f] <= d.rx.expected_seq[f]
      <4> SUFFICES ASSUME NEW f \in DOMAIN b PROVE t.acked[f] <= d.rx.expected_seq[f]
        OBVIOUS
      <4>1. d.rx.expected_seq[f] \in Nat
        BY <2>2 DEF Agree
      <4>2. c.tx.acked[f] <= d.rx.expected_seq[f] /\ d.rx.expected_seq[f] <= c.tx.next_seq[f]
        BY <2>2 DEF Agree
      <4>3. c.tx.acked[f] \in Nat /\ c.tx.next_seq[f] = 0 /\ t.acked[f] = 0
        BY <2>2, <2>3, <2>4 DEF TxSet
      <4> QED
        BY <4>1, <4>2, <4>3
    <3> QED
      BY <2>4, <3>1, <3>2, <3>3 DEF Agree
  <2>8. acks => Reports(t.phase, c.results["tx"])
    BY <2>1, <2>2, <2>4 DEF Reports, Reported
  <2>9. /\ Work(Blocks, acks, e, c0, d, p, r) /\ c0.state = c.state
        /\ c0.set_up = c.set_up /\ c0.rx = c.rx /\ c0.results = c.results
        /\ c0.tx = t
    BY <2>1, <2>5, <2>6, <2>7, <2>8, EditTx DEF b
  <2>10. c0.tx.phase = "WAIT_CONFIRM_REQ"
    BY <2>4, <2>9
  <2> HIDE DEF c0, c1
  <2>11. /\ Work(Blocks, acks, e, c1, d, p, r) /\ c1.state = c0.state
         /\ c1.set_up = c0.set_up /\ c1.rx = c0.rx /\ c1.results = c0.results
         /\ c1.tx = c0.tx
    BY <2>1, <2>9, <2>10, SendHeader
  <2>12. TxTurn(c.tx.phase, c1.tx.phase)
    BY <2>1, <2>10, <2>11 DEF TxTurn, Over
  <2> QED
    BY <2>9, <2>11, <2>12 DEF c1
<1> QED
  BY <1>1, <1>2

\* handle_tx_ctrl: CONFIRM and REQ.
LEMMA CtrlWorks ==
  ASSUME NEW acks, NEW e, NEW c, NEW d, NEW p, NEW r, NEW type,
         Work(Blocks, acks, e, c, d, p, r)
  PROVE  LET h == handle_tx_ctrl(c, type) IN
         /\ Work(Blocks, acks, e, h, d, p, r)
         /\ Onward(c.tx.phase, h.tx.phase) /\ h.rx = c.rx
<1> DEFINE t0 == [c.tx EXCEPT !.all_confirmed = @ \/ type = "CONFIRM",
                              !.req_received = @ \/ type = "REQ"]
           t1 == IF t0.all_confirmed /\ t0.req_received
                 THEN [t0 EXCEPT !.phase = "SENDING"] ELSE t0
           b == Blocks[e]
<1>1. CASE c.tx.phase # "WAIT_CONFIRM_REQ"
  BY <1>1, OnwardAgain DEF handle_tx_ctrl
<1>2. CASE c.tx.phase = "WAIT_CONFIRM_REQ"
  <2>1. handle_tx_ctrl(c, type) = [c EXCEPT !.tx = t1]
    BY <1>2 DEF handle_tx_ctrl
  <2>2. /\ TxSound(b, c.tx) /\ Agree(b, c.tx, d.rx) /\ c.tx \in TxSet(DOMAIN b)
        /\ acks => Reported(c)
    BY WorkHas
  <2>3. t0 \in TxSet(DOMAIN b)
    BY <2>2 DEF TxSet
  <2>4. /\ t0.next_seq = c.tx.next_seq /\ t0.retrans = c.tx.retrans
        /\ t0.acked = c.tx.acked /\ t0.done_received = c.tx.done_received
        /\ t0.phase = c.tx.phase /\ t0.ctrl_retries = c.tx.ctrl_retries
    BY <2>2 DEF TxSet
  <2> HIDE DEF t0
  <2>5. t1 \in TxSet(DOMAIN b)
    BY <2>3 DEF TxSet, TxPhases
  <2>6. /\ t1.next_seq = c.tx.next_seq /\ t1.retrans = c.tx.retrans
        /\ t1.acked = c.tx.acked /\ t1.done_received = c.tx.done_received
        /\ t1.phase \in {"WAIT_CONFIRM_REQ", "SENDING"}
        /\ t1.ctrl_retries = c.tx.ctrl_retries
    BY <1>2, <2>3, <2>4 DEF TxSet
  <2> HIDE DEF t1
  <2>7. TxSound(b, t1)
    BY <1>2, <2>2, <2>5, <2>6 DEF TxSound
  <2>8. Agree(b, t1, d.rx)
    BY <1>2, <2>2, <2>6 DEF Agree
  <2>9. acks => Reports(t1.phase, c.results["tx"])
    BY <1>2, <2>2, <2>6 DEF Reports, Reported
  <2>10. c.tx.phase # "DONE"
    BY <1>2
  <2> DEFINE c1 == [c EXCEPT !.tx = t1]
  <2>11. Work(Blocks, acks, e, c1, d, p, r) /\ c1.tx = t1 /\ c1.rx = c.rx
    BY <2>6, <2>7, <2>8, <2>9, <2>10, EditTx DEF b
  <2>12. handle_tx_ctrl(c, type) = c1
    BY <2>1
  <2> HIDE DEF c1
  <2>13. Onward(c.tx.phase, c1.tx.phase)
    BY <1>2, <2>6, <2>11 DEF Onward, Over
  <2> QED
    BY <2>11, <2>12, <2>13
<1> QED
  BY <1>1, <1>2

\* tx_finish, once the receiver has sent its DONE.
LEMMA TxFinishWorks ==
  ASSUME NEW acks, NEW e, NEW c, NEW d, NEW p, NEW r, NEW bad,
         Work(Blocks, acks, e, c, d, p, r), c.tx.done_received
  PROVE  LET h == tx_finish(c, bad) IN
         /\ Work(Blocks, acks, e, h, d, p, r) /\ h.rx = c.rx
         /\ c.tx.phase # "NONE" => Onward(c.tx.phase, h.tx.phase)
<1> DEFINE c0 == Report(c, "tx", "DONE")
           m == <<Simple("DONE_ACK")>>
           c1 == dc_send(c0, m)
           b == Blocks[e]
<1>0. /\ c \in EngineSet(Blocks, e) /\ c.set_up \in BOOLEAN
      /\ TxSound(b, c.tx) /\ Agree(b, c.tx, d.rx) /\ (acks => Reported(c))
  BY WorkHas DEF EngineSet
<1>1. CASE c.tx.phase \in {"DONE", "FAILED"}
  BY <1>1, OnwardAgain DEF tx_finish
<1>2. CASE c.tx.phase \notin {"DONE", "FAILED"} /\ bad = "send doneack"
  <2>1. tx_finish(c, bad) = trans_fail(c, "tx", FALSE)
    BY <1>2 DEF tx_finish
  <2> QED
    BY <2>1, TxEnds
<1>3. CASE c.tx.phase \notin {"DONE", "FAILED"} /\ bad # "send doneack"
  <2>1. tx_finish(c, bad) = c1
    BY <1>3 DEF tx_finish
  <2>2. TxEnded(Blocks, e, c, "DONE", c0)
    BY <1>0, ReportTx
  <2>3. Simple("DONE_ACK") \in Frames /\ Simple("DONE_ACK").type = "DONE_ACK"
    BY FrameTypes
  <2>4. m \in Seq(Frames) /\ \A i \in DOMAIN m : m[i] = Simple("DONE_ACK")
    BY <2>3, Short
  <2> HIDE DEF c0, m
  <2>5. c0 \in EngineSet(Blocks, e)
    BY <2>2 DEF TxEnded
  <2>6. Sent(Blocks, e, c0, m, c1)
    BY <2>4, <2>5, SendFields
  <2> HIDE DEF c1
  <2>7. /\ c1 \in EngineSet(Blocks, e) /\ c1.state = c.state /\ c1.rx = c.rx
        /\ c1.tx = [c.tx EXCEPT !.phase = "DONE"] /\ c1.out = c.out \o m
        /\ c1.results["rx"] = c.results["rx"]
        /\ c1.results["tx"] = (IF c.set_up THEN c.results["tx"] + 1 ELSE c.results["tx"])
    BY <2>2, <2>6 DEF TxEnded, Sent
  <2>8. /\ TxSound(b, c1.tx) /\ Agree(b, c1.tx, d.rx) /\ c1.tx.phase = "DONE"
        /\ c1.tx.next_seq = c.tx.next_seq
    <3>1. "DONE" \in TxPhases \ {"NONE", "WAIT_CONFIRM_REQ"} /\ d.rx.done_sent
      BY <1>0 DEF TxPhases, Agree
    <3> QED
      BY <1>0, <2>7, <3>1, TxPhase
  <2>9. acks => Reports(c1.tx.phase, c1.results["tx"])
    <3>1. acks => Reports(c.tx.phase, c.results["tx"])
      BY <1>0 DEF Reported
    <3>2. acks => Reports("DONE", IF c.set_up THEN c.results["tx"] + 1 ELSE c.results["tx"])
      BY <1>0, <1>3, <3>1, FirstReport
    <3> QED
      BY <2>7, <2>8, <3>2
  <2>10. \A i \in DOMAIN m : Says(Blocks, e, c1, m[i]) /\ m[i].type # "DATA"
    BY <2>3, <2>4, <2>8 DEF Says
  <2>11. Work(Blocks, acks, e, c1, d, p, r)
    BY <2>4, <2>7, <2>8, <2>9, <2>10, TxStep DEF b
  <2>12. c.tx.phase # "NONE" => Onward(c.tx.phase, c1.tx.phase)
    BY <1>3, <2>8 DEF Onward, Over
  <2> QED
    BY <2>1, <2>7, <2>11, <2>12
<1> QED
  BY <1>1, <1>2, <1>3

\* The finish condition.
LEMMA FinishWorks ==
  ASSUME NEW acks, NEW e, NEW c, NEW d, NEW p, NEW r, NEW bad,
         Work(Blocks, acks, e, c, d, p, r)
  PROVE  LET h == Finish(e, c, bad) IN
         /\ Work(Blocks, acks, e, h, d, p, r) /\ h.rx = c.rx
         /\ c.tx.phase # "NONE" => Onward(c.tx.phase, h.tx.phase)
<1>1. CASE c.tx.done_received /\ tx_all_acked(e, c.tx)
  BY <1>1, TxFinishWorks DEF Finish
<1>2. CASE ~(c.tx.done_received /\ tx_all_acked(e, c.tx))
  BY <1>2, OnwardAgain DEF Finish
<1> QED
  BY <1>1, <1>2

\* handle_done: the frame says that the receiver has sent its DONE.
LEMMA DoneWorks ==
  ASSUME NEW acks, NEW e, NEW c, NEW d, NEW p, NEW r, NEW bad,
         Work(Blocks, acks, e, c, d, p, r), d.rx.done_sent
  PROVE  LET h == handle_done(e, c, bad) IN
         /\ Work(Blocks, acks, e, h, d, p, r)
         /\ Onward(c.tx.phase, h.tx.phase) /\ h.rx = c.rx
<1> DEFINE ph == IF c.tx.phase = "SENDING" THEN "WAIT_DONE" ELSE c.tx.phase
           t1 == [c.tx EXCEPT !.done_received = TRUE, !.phase = ph]
           c1 == [c EXCEPT !.tx.done_received = TRUE,
                           !.tx.phase = IF @ = "SENDING" THEN "WAIT_DONE" ELSE @]
           b == Blocks[e]
<1>1. CASE Over(c.tx.phase)
  BY <1>1, OnwardAgain DEF handle_done
<1>2. CASE ~Over(c.tx.phase)
  <2>1. handle_done(e, c, bad) = Finish(e, c1, bad)
    BY <1>2 DEF handle_done
  <2>2. /\ TxSound(b, c.tx) /\ Agree(b, c.tx, d.rx) /\ c.tx \in TxSet(DOMAIN b)
        /\ (acks => Reported(c)) /\ c \in EngineSet(Blocks, e)
    BY WorkHas
  <2>3. c1 = [c EXCEPT !.tx = t1]
    BY <2>2 DEF EngineSet, TxSet
  <2>4. /\ t1 \in TxSet(DOMAIN b) /\ t1.phase = ph /\ t1.next_seq = c.tx.next_seq
        /\ t1.retrans = c.tx.retrans /\ t1.acked = c.tx.acked
        /\ t1.ctrl_retries = c.tx.ctrl_retries
    BY <2>2 DEF TxSet, TxPhases
  <2>5. /\ ph \notin {"NONE", "DONE", "FAILED"} /\ c.tx.phase \notin {"NONE", "DONE", "FAILED"}
        /\ ph = "WAIT_CONFIRM_REQ" => c.tx.phase = "WAIT_CONFIRM_REQ"
    BY <1>2 DEF Over
  <2> HIDE DEF t1, c1, ph
  <2>6. TxSound(b, t1)
    BY <2>2, <2>4, <2>5 DEF TxSound
  <2>7. Agree(b, t1, d.rx)
    BY <2>2, <2>4, <2>5 DEF Agree
  <2>8. acks => Reports(t1.phase, c.results["tx"])
    BY <2>2, <2>4, <2>5 DEF Reports, Reported
  <2>9. Work(Blocks, acks, e, c1, d, p, r) /\ c1.tx = t1 /\ c1.rx = c.rx
    BY <2>3, <2>4, <2>5, <2>6, <2>7, <2>8, EditTx DEF b
  <2>10. c1.tx.phase # "NONE" /\ Onward(c.tx.phase, c1.tx.phase)
    BY <2>4, <2>5, <2>9 DEF Onward, Over
  <2> DEFINE h == Finish(e, c1, bad)
  <2>11. /\ Work(Blocks, acks, e, h, d, p, r) /\ h.rx = c1.rx
         /\ Onward(c1.tx.phase, h.tx.phase)
    BY <2>9, <2>10, FinishWorks
  <2> HIDE DEF h
  <2>12. Onward(c.tx.phase, h.tx.phase)
    BY <2>10, <2>11, OnwardAgain
  <2> QED
    BY <2>1, <2>9, <2>11, <2>12 DEF h
<1> QED
  BY <1>1, <1>2

\* handle_ack: nothing is acknowledged that the receiver has not written.
LEMMA AckWorks ==
  ASSUME NEW acks, NEW e, NEW c, NEW d, NEW p, NEW r, NEW bad, NEW ents,
         Work(Blocks, acks, e, c, d, p, r),
         \A f \in DOMAIN ents : ents[f] \in Nat /\ ents[f] <= d.rx.expected_seq[f]
  PROVE  LET h == handle_ack(e, c, ents, bad) IN
         /\ Work(Blocks, acks, e, h, d, p, r)
         /\ Onward(c.tx.phase, h.tx.phase) /\ h.rx = c.rx
<1> DEFINE b == Blocks[e]
           up(g, f) == IF f \in DOMAIN ents THEN Max2(g[f], ents[f]) ELSE g[f]
           A == [f \in DOMAIN b |-> up(c.tx.acked, f)]
           R == [f \in DOMAIN b |-> up(c.tx.retrans, f)]
           t1 == [c.tx EXCEPT !.acked = A, !.retrans = R]
           c1 == [c EXCEPT !.tx = t1]
<1>1. CASE c.tx.phase \notin {"SENDING", "WAIT_DONE"}
  BY <1>1, OnwardAgain DEF handle_ack
<1>2. CASE c.tx.phase \in {"SENDING", "WAIT_DONE"}
  <2>1. handle_ack(e, c, ents, bad) = Finish(e, c1, bad)
    BY <1>2 DEF handle_ack, Files
  <2>2. /\ TxSound(b, c.tx) /\ Agree(b, c.tx, d.rx) /\ c.tx \in TxSet(DOMAIN b)
        /\ (acks => Reported(c)) /\ c \in EngineSet(Blocks, e)
    BY WorkHas
  <2>3. ASSUME NEW f \in DOMAIN b
        PROVE /\ A[f] \in Nat /\ A[f] <= d.rx.expected_seq[f]
              /\ R[f] \in Nat /\ R[f] <= c.tx.next_seq[f]
    <3>1. /\ c.tx.acked[f] \in Nat /\ c.tx.retrans[f] \in Nat /\ c.tx.next_seq[f] \in Nat
          /\ c.tx.retrans[f] <= c.tx.next_seq[f]
      BY <2>2 DEF TxSet, TxSound
    <3>2. /\ d.rx.expected_seq[f] \in Nat /\ c.tx.acked[f] <= d.rx.expected_seq[f]
          /\ d.rx.expected_seq[f] <= c.tx.next_seq[f]
      BY <2>2 DEF Agree
    <3>3. CASE f \in DOMAIN ents
      <4>1. ents[f] \in Nat /\ ents[f] <= d.rx.expected_seq[f]
        BY <3>3
      <4>2. A[f] = Max2(c.tx.acked[f], ents[f]) /\ R[f] = Max2(c.tx.retrans[f], ents[f])
        BY <3>3
      <4> QED
        BY <3>1, <3>2, <4>1, <4>2 DEF Max2
    <3>4. CASE f \notin DOMAIN ents
      BY <3>1, <3>2, <3>4
    <3> QED
      BY <3>3, <3>4
  <2>4. A \in [DOMAIN b -> Nat] /\ R \in [DOMAIN b -> Nat]
    BY <2>3
  <2> HIDE DEF A, R
  <2>5. /\ t1 \in TxSet(DOMAIN b) /\ t1.phase = c.tx.phase /\ t1.next_seq = c.tx.next_seq
        /\ t1.retrans = R /\ t1.acked = A /\ t1.done_received = c.tx.done_received
        /\ t1.ctrl_retries = c.tx.ctrl_retries
    BY <2>2, <2>4 DEF TxSet
  <2> HIDE DEF t1
  <2>6. TxSound(b, t1)
    BY <1>2, <2>2, <2>3, <2>5 DEF TxSound
  <2>7. Agree(b, t1, d.rx)
    BY <2>2, <2>3, <2>5 DEF Agree
  <2>8. acks => Reports(t1.phase, c.results["tx"])
    BY <2>2, <2>5 DEF Reported
  <2>9. Work(Blocks, acks, e, c1, d, p, r) /\ c1.tx = t1 /\ c1.rx = c.rx
    BY <2>5, <2>6, <2>7, <2>8, EditTx DEF b
  <2> DEFINE h == Finish(e, c1, bad)
  <2>10. handle_ack(e, c, ents, bad) = h
    BY <2>1
  <2> HIDE DEF c1
  <2>11. Work(Blocks, acks, e, h, d, p, r) /\ h.rx = c1.rx
         /\ (c1.tx.phase # "NONE" => Onward(c1.tx.phase, h.tx.phase))
    BY <2>9, FinishWorks
  <2> HIDE DEF h
  <2>12. c1.tx.phase = c.tx.phase /\ c.tx.phase # "NONE" /\ c1.rx = c.rx
    BY <1>2, <2>5, <2>9
  <2> QED
    BY <2>10, <2>11, <2>12
<1> QED
  BY <1>1, <1>2

\* TickHeader: the header is sent again, or given up.
LEMMA HeaderWorks ==
  ASSUME NEW acks, NEW e, NEW c, NEW d, NEW p, NEW r, NEW late, NEW bad,
         Work(Blocks, acks, e, c, d, p, r)
  PROVE  LET h == TickHeader(c, late, bad) IN
         /\ Work(Blocks, acks, e, h, d, p, r)
         /\ Onward(c.tx.phase, h.tx.phase) /\ h.rx = c.rx
<1> DEFINE b == Blocks[e]
           k == c.tx.ctrl_retries + 1
           t1 == [c.tx EXCEPT !.ctrl_retries = k]
           c1 == [c EXCEPT !.tx.ctrl_retries = @ + 1]
           t2 == [t1 EXCEPT !.phase = "FAILED"]
<1>1. CASE c.tx.phase # "WAIT_CONFIRM_REQ" \/ "ctrl" \notin late
  BY <1>1, OnwardAgain DEF TickHeader
<1>2. CASE ~(c.tx.phase # "WAIT_CONFIRM_REQ" \/ "ctrl" \notin late)
  <2>1. TickHeader(c, late, bad) =
          CASE c1.tx.ctrl_retries > DC_CTRL_MAX_RETRIES -> trans_fail(c1, "tx", TRUE)
            [] c1.tx.ctrl_retries <= DC_CTRL_MAX_RETRIES /\ bad = "send header" ->
                 trans_fail(c1, "tx", FALSE)
            [] OTHER -> dc_send(c1, <<Simple("HEADER")>>)
    BY <1>2 DEF TickHeader
  <2>2. /\ TxSound(b, c.tx) /\ Agree(b, c.tx, d.rx) /\ c.tx \in TxSet(DOMAIN b)
        /\ (acks => Reported(c)) /\ c \in EngineSet(Blocks, e)
    BY WorkHas
  <2>3. c1 = [c EXCEPT !.tx = t1]
    BY <2>2 DEF EngineSet, TxSet
  <2>4. k \in 0 .. DC_CTRL_MAX_RETRIES + 1
    BY <1>2, <2>2, Limits DEF TxSound, TxSet
  <2> HIDE DEF k
  <2>5. /\ t1 \in TxSet(DOMAIN b) /\ t1.phase = "WAIT_CONFIRM_REQ"
        /\ t1.next_seq = c.tx.next_seq /\ t1.retrans = c.tx.retrans
        /\ t1.acked = c.tx.acked /\ t1.done_received = c.tx.done_received
        /\ t1.ctrl_retries = k
    BY <1>2, <2>2, <2>4 DEF TxSet
  <2>6. Agree(b, t1, d.rx)
    BY <1>2, <2>2, <2>5 DEF Agree
  <2>7. acks => Reports(t1.phase, c.results["tx"])
    BY <1>2, <2>2, <2>5 DEF Reports, Reported
  <2> HIDE DEF t1, c1
  <2>8. CASE k > DC_CTRL_MAX_RETRIES
    <3> DEFINE c2 == Report(c1, "tx", "FAILED")
               m == <<Rst("tx")>>
               c3 == dc_send(c2, m)
    <3>1. /\ c1 \in EngineSet(Blocks, e) /\ c1.state = c.state /\ c1.set_up = c.set_up
          /\ c1.tx = t1 /\ c1.rx = c.rx /\ c1.results = c.results /\ c1.out = c.out
      BY <2>2, <2>3, <2>5 DEF EngineSet
    <3>2. TickHeader(c, late, bad) = c3
      <4>1. TickHeader(c, late, bad) = trans_fail(c1, "tx", TRUE)
        <5> DEFINE X == trans_fail(c1, "tx", TRUE)
                   Y == trans_fail(c1, "tx", FALSE)
                   Z == dc_send(c1, <<Simple("HEADER")>>)
        <5>1. c1.tx.ctrl_retries = k /\ k \in Nat /\ DC_CTRL_MAX_RETRIES \in Nat
          BY <2>4, <2>5, <3>1, Limits
        <5> HIDE DEF X, Y, Z
        <5>2. TickHeader(c, late, bad) =
                CASE k > DC_CTRL_MAX_RETRIES -> X
                  [] k <= DC_CTRL_MAX_RETRIES /\ bad = "send header" -> Y
                  [] OTHER -> Z
          BY <2>1, <5>1 DEF X, Y, Z
        <5> DEFINE over == k > DC_CTRL_MAX_RETRIES
                   again == k <= DC_CTRL_MAX_RETRIES /\ bad = "send header"
        <5>3. over /\ ~again
          <6>1. k \in Int /\ DC_CTRL_MAX_RETRIES \in Int
            BY <5>1
          <6>2. k > DC_CTRL_MAX_RETRIES
            BY <2>8
          <6>3. ~(k <= DC_CTRL_MAX_RETRIES)
            BY <6>1, <6>2
          <6> QED
            BY <6>2, <6>3
        <5>4. TickHeader(c, late, bad) = CASE over -> X [] again -> Y [] OTHER -> Z
          BY <5>2
        <5> HIDE DEF over, again
        <5>5. TickHeader(c, late, bad) = X
          BY <5>3, <5>4
        <5> QED
          BY <5>5 DEF X
      <4>2. trans_fail(c1, "tx", TRUE) = c3
        BY <2>5, <3>1 DEF trans_fail, Over
      <4> QED
        BY <4>1, <4>2
    <3>3. TxEnded(Blocks, e, c1, "FAILED", c2)
      BY <3>1, ReportTx
    <3>4. m \in Seq(Frames) /\ \A i \in DOMAIN m : m[i].type \in PlainTypes
      BY FrameTypes, Short DEF PlainTypes
    <3> HIDE DEF c2, m
    <3>5. Sent(Blocks, e, c2, m, c3)
      BY <3>3, <3>4, SendFields DEF TxEnded
    <3> HIDE DEF c3
    <3>6. /\ c3 \in EngineSet(Blocks, e) /\ c3.state = c.state /\ c3.rx = c.rx
          /\ c3.tx = t2 /\ c3.out = c.out \o m
          /\ c3.results["rx"] = c.results["rx"]
          /\ c3.results["tx"] = (IF c.set_up THEN c.results["tx"] + 1 ELSE c.results["tx"])
      BY <3>1, <3>3, <3>5 DEF TxEnded, Sent
    <3>7. /\ t2 \in TxSet(DOMAIN b) /\ t2.phase = "FAILED"
          /\ t2.next_seq = c.tx.next_seq /\ t2.retrans = c.tx.retrans
          /\ t2.acked = c.tx.acked /\ t2.done_received = c.tx.done_received
      BY <2>5 DEF TxSet, TxPhases
    <3> HIDE DEF t2
    <3>8. TxSound(b, c3.tx)
      BY <2>2, <3>6, <3>7 DEF TxSound
    <3>9. Agree(b, c3.tx, d.rx)
      BY <1>2, <2>2, <3>6, <3>7 DEF Agree
    <3>10. acks => Reports(c3.tx.phase, c3.results["tx"])
      <4>1. acks => Reports(c.tx.phase, c.results["tx"])
        BY <2>2 DEF Reported
      <4>2. c.set_up \in BOOLEAN /\ c.tx.phase \notin {"DONE", "FAILED"}
        BY <1>2, <2>2 DEF EngineSet
      <4>3. acks => Reports("FAILED", IF c.set_up THEN c.results["tx"] + 1 ELSE c.results["tx"])
        BY <4>1, <4>2, FirstReport
      <4> QED
        BY <3>6, <3>7, <4>3
    <3>11. \A i \in DOMAIN m : Says(Blocks, e, c3, m[i]) /\ m[i].type # "DATA"
      BY <3>4, PlainSays
    <3>12. /\ c.tx.phase # "DONE" /\ c3.tx.phase # "NONE"
           /\ c3.tx.next_seq = c.tx.next_seq
      BY <1>2, <3>6, <3>7
    <3>13. Work(Blocks, acks, e, c3, d, p, r)
      BY <3>4, <3>6, <3>8, <3>9, <3>10, <3>11, <3>12, TxStep DEF b
    <3>14. Onward(c.tx.phase, c3.tx.phase) /\ c3.rx = c.rx
      BY <1>2, <3>6, <3>12 DEF Onward, Over
    <3> QED
      BY <3>2, <3>13, <3>14
  <2>9. CASE ~(k > DC_CTRL_MAX_RETRIES)
    <3>1. TxSound(b, t1)
      BY <1>2, <2>2, <2>5, <2>9, <2>4, Limits DEF TxSound
    <3>2. Work(Blocks, acks, e, c1, d, p, r) /\ c1.tx = t1 /\ c1.rx = c.rx
      <4>1. c.tx.phase # "DONE"
        BY <1>2
      <4> QED
        BY <2>3, <2>5, <2>6, <2>7, <3>1, <4>1, EditTx DEF b
    <3>3. CASE bad = "send header"
      <4>1. TickHeader(c, late, bad) = trans_fail(c1, "tx", FALSE)
        <5> DEFINE X == trans_fail(c1, "tx", TRUE)
                   Y == trans_fail(c1, "tx", FALSE)
                   Z == dc_send(c1, <<Simple("HEADER")>>)
        <5>1. c1.tx.ctrl_retries = k /\ k \in Nat /\ DC_CTRL_MAX_RETRIES \in Nat
          BY <2>4, <2>5, <3>2, Limits
        <5> HIDE DEF X, Y, Z
        <5>2. TickHeader(c, late, bad) =
                CASE k > DC_CTRL_MAX_RETRIES -> X
                  [] k <= DC_CTRL_MAX_RETRIES /\ bad = "send header" -> Y
                  [] OTHER -> Z
          BY <2>1, <5>1 DEF X, Y, Z
        <5> DEFINE over == k > DC_CTRL_MAX_RETRIES
                   again == k <= DC_CTRL_MAX_RETRIES /\ bad = "send header"
        <5>3. again /\ ~over
          <6>1. k \in Int /\ DC_CTRL_MAX_RETRIES \in Int
            BY <5>1
          <6>2. ~(k > DC_CTRL_MAX_RETRIES)
            BY <2>9
          <6>3. k <= DC_CTRL_MAX_RETRIES
            BY <6>1, <6>2
          <6> QED
            BY <3>3, <6>2, <6>3
        <5>4. TickHeader(c, late, bad) = CASE over -> X [] again -> Y [] OTHER -> Z
          BY <5>2
        <5> HIDE DEF over, again
        <5>5. TickHeader(c, late, bad) = Y
          BY <5>3, <5>4
        <5> QED
          BY <5>5 DEF Y
      <4> DEFINE g == trans_fail(c1, "tx", FALSE)
      <4>2. /\ Work(Blocks, acks, e, g, d, p, r) /\ g.rx = c1.rx
            /\ Onward(c1.tx.phase, g.tx.phase)
        BY <3>2, TxEnds
      <4>3. TickHeader(c, late, bad) = g
        BY <4>1
      <4> HIDE DEF g
      <4>4. c1.tx.phase = c.tx.phase
        BY <1>2, <2>5, <3>2
      <4> QED
        BY <3>2, <4>2, <4>3, <4>4
    <3>4. CASE bad # "send header"
      <4>1. TickHeader(c, late, bad) = dc_send(c1, <<Simple("HEADER")>>)
        <5> DEFINE X == trans_fail(c1, "tx", TRUE)
                   Y == trans_fail(c1, "tx", FALSE)
                   Z == dc_send(c1, <<Simple("HEADER")>>)
        <5>1. c1.tx.ctrl_retries = k /\ k \in Nat /\ DC_CTRL_MAX_RETRIES \in Nat
          BY <2>4, <2>5, <3>2, Limits
        <5> HIDE DEF X, Y, Z
        <5>2. TickHeader(c, late, bad) =
                CASE k > DC_CTRL_MAX_RETRIES -> X
                  [] k <= DC_CTRL_MAX_RETRIES /\ bad = "send header" -> Y
                  [] OTHER -> Z
          BY <2>1, <5>1 DEF X, Y, Z
        <5> DEFINE over == k > DC_CTRL_MAX_RETRIES
                   again == k <= DC_CTRL_MAX_RETRIES /\ bad = "send header"
        <5>3. ~over /\ ~again
          BY <2>9, <3>4, <5>1
        <5>4. TickHeader(c, late, bad) = CASE over -> X [] again -> Y [] OTHER -> Z
          BY <5>2
        <5> HIDE DEF over, again
        <5>5. TickHeader(c, late, bad) = Z
          BY <5>3, <5>4
        <5> QED
          BY <5>5 DEF Z
      <4> DEFINE g == dc_send(c1, <<Simple("HEADER")>>)
      <4>2. c1.tx.phase = c.tx.phase /\ c1.tx.phase # "NONE"
        BY <1>2, <2>5, <3>2
      <4>3. Work(Blocks, acks, e, g, d, p, r) /\ g.rx = c1.rx /\ g.tx = c1.tx
        BY <3>2, <4>2, SendHeader
      <4>4. TickHeader(c, late, bad) = g
        BY <4>1
      <4> HIDE DEF g
      <4> QED
        BY <3>2, <4>2, <4>3, <4>4, OnwardAgain
    <3> QED
      BY <3>3, <3>4
  <2> QED
    BY <2>8, <2>9
<1> QED
  BY <1>1, <1>2

\* TickTimeouts.
LEMMA TimeoutsWork ==
  ASSUME NEW acks, NEW e, NEW c, NEW d, NEW p, NEW r, NEW late,
         Work(Blocks, acks, e, c, d, p, r)
  PROVE  LET h == TickTimeouts(c, late) IN
         Work(Blocks, acks, e, h, d, p, r) /\ Moves(c, h)
<1> DEFINE c1 == IF "tx" \in late THEN trans_fail(c, "tx", TRUE) ELSE c
           c2 == IF "rx" \in late THEN trans_fail(c1, "rx", TRUE) ELSE c1
<1>1. /\ Work(Blocks, acks, e, c1, d, p, r)
      /\ Onward(c.tx.phase, c1.tx.phase) /\ c1.rx = c.rx
  <2> DEFINE g == trans_fail(c, "tx", TRUE)
  <2>1. Work(Blocks, acks, e, g, d, p, r) /\ Onward(c.tx.phase, g.tx.phase) /\ g.rx = c.rx
    BY TxResets
  <2>2. c1 = g \/ c1 = c
    OBVIOUS
  <2> HIDE DEF g, c1
  <2> QED
    BY <2>1, <2>2, OnwardAgain
<1> HIDE DEF c1
<1>2. /\ Work(Blocks, acks, e, c2, d, p, r)
      /\ RxOnward(c1.rx, c2.rx) /\ c2.tx = c1.tx
  <2> DEFINE g == trans_fail(c1, "rx", TRUE)
  <2>1. Work(Blocks, acks, e, g, d, p, r) /\ RxOnward(c1.rx, g.rx) /\ g.tx = c1.tx
    BY <1>1, RxResets
  <2>2. c2 = g \/ c2 = c1
    OBVIOUS
  <2> HIDE DEF g, c2
  <2> QED
    BY <1>1, <2>1, <2>2, OnwardAgain DEF RxOnward
<1>3. TickTimeouts(c, late) = c2
  BY DEF TickTimeouts, c1
<1> HIDE DEF c2
<1>4. Moves(c, c2)
  BY <1>1, <1>2 DEF Moves
<1> QED
  BY <1>2, <1>3, <1>4

\* handle_rst.
LEMMA RstWorks ==
  ASSUME NEW acks, NEW e, NEW c, NEW d, NEW p, NEW r,
         Work(Blocks, acks, e, c, d, p, r)
  PROVE  Work(Blocks, acks, e, handle_rst(c), d, p, r) /\ Moves(c, handle_rst(c))
<1> DEFINE g == trans_fail(c, "tx", FALSE)
           k == trans_fail(c, "rx", FALSE)
<1>1. Work(Blocks, acks, e, g, d, p, r) /\ g.rx = c.rx /\ Onward(c.tx.phase, g.tx.phase)
  BY TxEnds
<1>2. Work(Blocks, acks, e, k, d, p, r) /\ k.tx = c.tx /\ RxOnward(c.rx, k.rx)
  BY RxEnds
<1>3. handle_rst(c) = g \/ handle_rst(c) = k
  BY DEF handle_rst
<1> HIDE DEF g, k
<1>4. Moves(c, g) /\ Moves(c, k)
  BY <1>1, <1>2, OnwardAgain DEF Moves, RxOnward
<1> QED
  BY <1>1, <1>2, <1>3, <1>4

-----------------------------------------------------------------------------
(***************************************************************************)
(* The receiver's handlers.                                                *)
(***************************************************************************)

\* m is an acknowledgement of blocks of b that x has.
IsAckOf(b, x, m) ==
  /\ m \in Frames /\ m.type = "ACK" /\ DOMAIN m.ents \subseteq DOMAIN b
  /\ \A f \in DOMAIN m.ents : m.ents[f] = x.expected_seq[f]

\* The list of an acknowledgement says what has been written.
LEMMA EntriesAre ==
  ASSUME NEW e, NEW x \in RxSet(DOMAIN Blocks[Other(e)]),
         DOMAIN Blocks[Other(e)] \subseteq Nat
  PROVE  IsAckOf(Blocks[Other(e)], x, Ack(AckEntries(e, x)))
<1> DEFINE begun == {f \in DOMAIN Blocks[Other(e)] : x.expected_seq[f] > 0}
           D == {f \in begun :
                   Cardinality({g \in begun : g < f}) < DFILE_MAX_ACK_ENTRIES}
           a == AckEntries(e, x)
<1>1. a = [f \in D |-> x.expected_seq[f]]
  BY DEF AckEntries, Files
<1>2. D \subseteq DOMAIN Blocks[Other(e)]
  OBVIOUS
<1> HIDE DEF D, a
<1>3. DOMAIN a = D /\ \A f \in D : a[f] = x.expected_seq[f] /\ a[f] \in Nat
  BY <1>1, <1>2 DEF RxSet
<1>4. a \in [D -> Nat] /\ D \in SUBSET Nat
  BY <1>1, <1>2, <1>3
<1>5. a \in UNION {[D2 -> Nat] : D2 \in SUBSET Nat}
  BY <1>4
<1>6. Ack(a) \in Frames /\ Ack(a).type = "ACK" /\ Ack(a).ents = a
  BY <1>5 DEF Ack, Frames, AckFrame
<1> QED
  BY <1>2, <1>3, <1>6 DEF a, IsAckOf

\* A failure that acks allows, and a phase that allows a first report.
Allowed(acks, bad) == acks => bad # "send ack"

Open(acks, phase) == acks => phase \notin {"DONE", "FAILED"}

\* rx_flush_ack.
LEMMA FlushWorks ==
  ASSUME NEW acks, NEW e, NEW c, NEW d, NEW p, NEW r, NEW bad,
         Work(Blocks, acks, e, c, d, p, r), DOMAIN Blocks[Other(e)] \subseteq Nat,
         Allowed(acks, bad)
  PROVE  LET h == rx_flush_ack(e, c, bad) IN
         /\ Work(Blocks, acks, e, h, d, p, r)
         /\ Open(acks, c.rx.phase) => Open(acks, h.rx.phase)
         /\ h.tx = c.tx /\ RxOnward(c.rx, h.rx)
<1> DEFINE b == Blocks[Other(e)]
           x1 == [c.rx EXCEPT !.ack_pending = FALSE]
           c1 == [c EXCEPT !.rx.ack_pending = FALSE]
           a == AckEntries(e, c.rx)
           m == <<Ack(a)>>
           c2 == dc_send(c1, m)
<1>1. /\ c \in EngineSet(Blocks, e) /\ c.rx \in RxSet(DOMAIN b) /\ RxSound(b, c.rx)
      /\ Agree(b, d.tx, c.rx) /\ (acks => Reported(c))
  BY WorkHas
<1>2. c1 = [c EXCEPT !.rx = x1]
  BY <1>1 DEF EngineSet, RxSet
<1>3. /\ x1 \in RxSet(DOMAIN b) /\ x1.phase = c.rx.phase
      /\ x1.expected_seq = c.rx.expected_seq /\ x1.done_sent = c.rx.done_sent
  BY <1>1 DEF RxSet
<1> HIDE DEF x1, c1
<1>4. RxSound(b, x1) /\ Agree(b, d.tx, x1)
  BY <1>1, <1>3 DEF RxSound, Agree
<1>5. (acks => Reports(x1.phase, c.results["rx"])) /\ (c.rx.done_sent => x1.done_sent)
  BY <1>1, <1>3 DEF Reported
<1>6. /\ Work(Blocks, acks, e, c1, d, p, r) /\ c1.rx = x1 /\ c1.tx = c.tx
      /\ c1.state = c.state /\ c1.results = c.results
  BY <1>2, <1>3, <1>4, <1>5, EditRx DEF b
<1>7. CASE DOMAIN a = {}
  <2>1. rx_flush_ack(e, c, bad) = c1
    BY <1>7 DEF rx_flush_ack, c1
  <2>2. RxOnward(c.rx, c1.rx)
    BY <1>3, <1>6, OnwardAgain DEF RxOnward
  <2> QED
    BY <2>1, <2>2, <1>3, <1>6
<1>8. CASE DOMAIN a # {} /\ bad = "send ack"
  <2>1. rx_flush_ack(e, c, bad) = trans_fail(c1, "rx", FALSE)
    BY <1>8 DEF rx_flush_ack, c1
  <2> DEFINE g == trans_fail(c1, "rx", FALSE)
  <2>2. Work(Blocks, acks, e, g, d, p, r) /\ RxOnward(c1.rx, g.rx) /\ g.tx = c1.tx
    BY <1>6, RxEnds
  <2>3. rx_flush_ack(e, c, bad) = g
    BY <2>1
  <2> HIDE DEF g
  <2>4. ~acks
    BY <1>8 DEF Allowed
  <2>5. Open(acks, g.rx.phase)
    BY <2>4 DEF Open
  <2>6. RxOnward(c.rx, g.rx)
    BY <1>3, <1>6, <2>2 DEF RxOnward
  <2> QED
    BY <1>6, <2>2, <2>3, <2>5, <2>6
<1>9. CASE DOMAIN a # {} /\ bad # "send ack"
  <2>1. rx_flush_ack(e, c, bad) = c2
    BY <1>9 DEF rx_flush_ack, c1
  <2> DEFINE aa == Ack(a)
  <2>2. IsAckOf(b, c.rx, aa)
    BY <1>1, EntriesAre DEF b
  <2> HIDE DEF aa
  <2>3. m \in Seq(Frames) /\ \A i \in DOMAIN m : m[i] = aa
    <3>1. aa \in Frames /\ m = <<aa>>
      BY <2>2 DEF IsAckOf, aa
    <3> HIDE DEF m
    <3> QED
      BY <3>1, Short
  <2> HIDE DEF m, a
  <2>4. Sent(Blocks, e, c1, m, c2)
    BY <1>6, <2>3, WorkHas, SendFields
  <2> HIDE DEF c2
  <2>5. /\ c2 \in EngineSet(Blocks, e) /\ c2.state = c1.state /\ c2.tx = c1.tx
        /\ c2.rx = x1 /\ c2.results = c1.results /\ c2.out = c1.out \o m
    BY <1>6, <2>4 DEF Sent
  <2>6. Says(Blocks, e, c2, aa) /\ aa.type # "DATA"
    <3>1. c2.rx.expected_seq = c.rx.expected_seq
      BY <1>3, <2>5
    <3>2. \A f \in DOMAIN b : c.rx.expected_seq[f] \in Nat
      BY <1>1 DEF RxSet
    <3> DEFINE g == c2.rx.expected_seq
               h == aa.ents
    <3>3. \A f \in DOMAIN h : f \in DOMAIN b /\ h[f] = g[f] /\ g[f] \in Nat
      BY <2>2, <3>1, <3>2 DEF IsAckOf
    <3> HIDE DEF g, h
    <3>4. \A f \in DOMAIN h : f \in DOMAIN b /\ h[f] <= g[f]
      BY <3>3
    <3>5. \A f \in DOMAIN aa.ents : f \in DOMAIN b /\ aa.ents[f] <= c2.rx.expected_seq[f]
      BY <3>4 DEF g, h
    <3> QED
      BY <2>2, <3>5 DEF Says, IsAckOf
  <2>7. \A i \in DOMAIN m : Says(Blocks, e, c2, m[i]) /\ m[i].type # "DATA"
    BY <2>3, <2>6
  <2>8. /\ RxSound(b, c2.rx) /\ Agree(b, d.tx, c2.rx)
        /\ c2.rx.expected_seq = c1.rx.expected_seq
        /\ (c1.rx.done_sent => c2.rx.done_sent)
        /\ c2.results["tx"] = c1.results["tx"]
        /\ (acks => Reports(c2.rx.phase, c2.results["rx"]))
    BY <1>4, <1>5, <1>6, <2>5
  <2>9. Work(Blocks, acks, e, c2, d, p, r)
    BY <1>6, <2>3, <2>5, <2>7, <2>8, RxStep DEF b
  <2>10. RxOnward(c.rx, c2.rx) /\ c2.tx = c.tx
    BY <1>3, <1>6, <2>5, OnwardAgain DEF RxOnward
  <2> QED
    BY <1>3, <2>1, <2>5, <2>9, <2>10
<1> QED
  BY <1>7, <1>8, <1>9

\* rx_send_done, for files that are all written.
LEMMA SendDoneWorks ==
  ASSUME NEW acks, NEW e, NEW c, NEW d, NEW p, NEW r, NEW bad,
         Work(Blocks, acks, e, c, d, p, r), AllWritten(e, c.rx),
         Open(acks, c.rx.phase), c.rx.phase # "NONE"
  PROVE  LET h == rx_send_done(e, c, bad) IN
         /\ Work(Blocks, acks, e, h, d, p, r) /\ h.tx = c.tx
         /\ ~Over(c.rx.phase) /\ ~c.rx.done_sent =>
              RxOnward(c.rx, h.rx) \/ Verifies(Blocks[Other(e)], c.rx, h.rx)
<1> DEFINE b == Blocks[Other(e)]
           x1 == [c.rx EXCEPT !.done_sent = TRUE, !.phase = "WAIT_DONEACK"]
           c1 == [c EXCEPT !.rx.done_sent = TRUE, !.rx.phase = "WAIT_DONEACK"]
           m == <<Simple("DONE")>>
           c2 == dc_send(c1, m)
<1>1. CASE bad = "verify"
  <2> DEFINE c3 == dc_send(c, <<Rst("rx")>>)
  <2>1. rx_send_done(e, c, bad) = trans_fail(c3, "rx", FALSE)
    BY <1>1 DEF rx_send_done
  <2>2. Rst("rx") \in Frames /\ Rst("rx").type \in PlainTypes
    BY FrameTypes DEF PlainTypes
  <2>3. Work(Blocks, acks, e, c3, d, p, r) /\ c3.tx = c.tx /\ c3.rx = c.rx
    BY <2>2, SendOne
  <2> HIDE DEF c3
  <2> DEFINE g == trans_fail(c3, "rx", FALSE)
  <2>4. Work(Blocks, acks, e, g, d, p, r) /\ g.tx = c3.tx /\ RxOnward(c3.rx, g.rx)
    BY <2>3, RxEnds
  <2>5. rx_send_done(e, c, bad) = g
    BY <2>1
  <2> HIDE DEF g
  <2> QED
    BY <2>3, <2>4, <2>5
<1>2. CASE bad = "send done"
  <2>1. rx_send_done(e, c, bad) = trans_fail(c, "rx", FALSE)
    BY <1>2 DEF rx_send_done
  <2> DEFINE g == trans_fail(c, "rx", FALSE)
  <2>2. Work(Blocks, acks, e, g, d, p, r) /\ g.tx = c.tx /\ RxOnward(c.rx, g.rx)
    BY RxEnds
  <2>3. rx_send_done(e, c, bad) = g
    BY <2>1
  <2> HIDE DEF g
  <2> QED
    BY <2>2, <2>3
<1>3. CASE bad # "verify" /\ bad # "send done"
  <2>1. rx_send_done(e, c, bad) = c2
    BY <1>3 DEF rx_send_done
  <2>2. /\ c \in EngineSet(Blocks, e) /\ c.rx \in RxSet(DOMAIN b) /\ RxSound(b, c.rx)
        /\ Agree(b, d.tx, c.rx) /\ (acks => Reported(c))
    BY WorkHas
  <2>3. c1 = [c EXCEPT !.rx = x1]
    BY <2>2 DEF EngineSet, RxSet
  <2>4. /\ x1 \in RxSet(DOMAIN b) /\ x1.phase = "WAIT_DONEACK"
        /\ x1.expected_seq = c.rx.expected_seq /\ x1.done_sent = TRUE
    BY <2>2 DEF RxSet, RxPhases
  <2> HIDE DEF x1, c1
  <2>5. RxSound(b, x1) /\ Agree(b, d.tx, x1)
    <3>1. \A f \in DOMAIN b : x1.expected_seq[f] >= b[f]
      BY <2>4 DEF AllWritten, Files
    <3>2. RxSound(b, x1)
      BY <2>4, <3>1 DEF RxSound
    <3>3. Agree(b, d.tx, x1)
      BY <2>2, <2>4 DEF Agree
    <3> QED
      BY <3>2, <3>3
  <2>6. acks => Reports(x1.phase, c.results["rx"])
    BY <2>2, <2>4 DEF Reports, Reported, Open
  <2>7. c.rx.done_sent => x1.done_sent
    BY <2>4
  <2>8. /\ Work(Blocks, acks, e, c1, d, p, r) /\ c1.rx = x1 /\ c1.results = c.results
        /\ c1.tx = c.tx
    BY <2>3, <2>4, <2>5, <2>6, <2>7, EditRx DEF b
  <2>9. Simple("DONE") \in Frames /\ Simple("DONE").type = "DONE"
    BY FrameTypes
  <2>10. m \in Seq(Frames) /\ \A i \in DOMAIN m : m[i] = Simple("DONE")
    BY <2>9, Short
  <2> HIDE DEF m
  <2>11. Sent(Blocks, e, c1, m, c2)
    BY <2>8, <2>10, WorkHas, SendFields
  <2> HIDE DEF c2
  <2>12. /\ c2 \in EngineSet(Blocks, e) /\ c2.state = c1.state /\ c2.tx = c1.tx
         /\ c2.rx = x1 /\ c2.results = c1.results /\ c2.out = c1.out \o m
    BY <2>8, <2>11 DEF Sent
  <2>13. \A i \in DOMAIN m : Says(Blocks, e, c2, m[i]) /\ m[i].type # "DATA"
    BY <2>4, <2>9, <2>10, <2>12 DEF Says
  <2>14. /\ RxSound(b, c2.rx) /\ Agree(b, d.tx, c2.rx)
         /\ c2.rx.expected_seq = c1.rx.expected_seq
         /\ (c1.rx.done_sent => c2.rx.done_sent)
         /\ c2.results["tx"] = c1.results["tx"]
         /\ (acks => Reports(c2.rx.phase, c2.results["rx"]))
    BY <2>5, <2>6, <2>8, <2>12
  <2>15. Work(Blocks, acks, e, c2, d, p, r)
    BY <2>8, <2>10, <2>12, <2>13, <2>14, RxStep DEF b
  <2>16. ~Over(c.rx.phase) /\ ~c.rx.done_sent => Verifies(b, c.rx, c2.rx)
    <3>1. \A f \in DOMAIN b : c.rx.expected_seq[f] >= b[f]
      BY DEF AllWritten, Files
    <3> QED
      BY <2>4, <2>12, <3>1 DEF Verifies, Over
  <2> QED
    BY <2>1, <2>8, <2>12, <2>15, <2>16
<1> QED
  BY <1>1, <1>2, <1>3

\* TickReceive: acknowledgements, then DONE.
LEMMA ReceiveTickWorks ==
  ASSUME NEW acks, NEW e, NEW c, NEW d, NEW p, NEW r, NEW bad,
         Work(Blocks, acks, e, c, d, p, r), DOMAIN Blocks[Other(e)] \subseteq Nat,
         Allowed(acks, bad)
  PROVE  LET h == TickReceive(e, c, bad) IN
         /\ Work(Blocks, acks, e, h, d, p, r) /\ h.tx = c.tx
         /\ acks => RxOnward(c.rx, h.rx) \/ Verifies(Blocks[Other(e)], c.rx, h.rx)
<1> DEFINE c1 == IF c.rx.ack_pending THEN rx_flush_ack(e, c, bad) ELSE c
<1>1. CASE c.rx.phase # "WAIT_DATA"
  BY <1>1, OnwardAgain DEF TickReceive, RxOnward
<1>2. CASE c.rx.phase = "WAIT_DATA"
  <2>1. /\ Work(Blocks, acks, e, c1, d, p, r) /\ Open(acks, c1.rx.phase)
        /\ c1.tx = c.tx /\ RxOnward(c.rx, c1.rx)
    <3> DEFINE g == rx_flush_ack(e, c, bad)
    <3>1. /\ Work(Blocks, acks, e, g, d, p, r)
          /\ Open(acks, c.rx.phase) => Open(acks, g.rx.phase)
          /\ g.tx = c.tx /\ RxOnward(c.rx, g.rx)
      BY FlushWorks
    <3>2. Open(acks, c.rx.phase)
      BY <1>2 DEF Open
    <3>3. c1 = g \/ c1 = c
      OBVIOUS
    <3> HIDE DEF c1, g
    <3> QED
      BY <3>1, <3>2, <3>3, OnwardAgain DEF RxOnward
  <2>2. TickReceive(e, c, bad) =
          IF ~c1.rx.done_sent /\ Files(Other(e)) # {} /\ AllWritten(e, c1.rx)
          THEN rx_send_done(e, c1, bad) ELSE c1
    BY <1>2 DEF TickReceive
  <2> HIDE DEF c1
  <2>5. c1.rx.phase # "NONE" /\ (acks => ~Over(c1.rx.phase))
    BY <1>2, <2>1 DEF RxOnward, Onward, Over, Open
  <2>3. CASE ~c1.rx.done_sent /\ Files(Other(e)) # {} /\ AllWritten(e, c1.rx)
    <3> DEFINE h == rx_send_done(e, c1, bad)
               b == Blocks[Other(e)]
    <3>1. /\ Work(Blocks, acks, e, h, d, p, r) /\ h.tx = c1.tx
          /\ ~Over(c1.rx.phase) /\ ~c1.rx.done_sent =>
               RxOnward(c1.rx, h.rx) \/ Verifies(b, c1.rx, h.rx)
      BY <2>1, <2>3, <2>5, SendDoneWorks
    <3>2. TickReceive(e, c, bad) = h
      BY <2>2, <2>3
    <3> HIDE DEF h
    <3>3. acks => RxOnward(c.rx, h.rx) \/ Verifies(b, c.rx, h.rx)
      <4>1. RxOnward(c1.rx, h.rx) => RxOnward(c.rx, h.rx)
        BY <2>1, OnwardAgain DEF RxOnward
      <4>2. Verifies(b, c1.rx, h.rx) => Verifies(b, c.rx, h.rx)
        BY <1>2, <2>1 DEF RxOnward, Verifies, Over
      <4> QED
        BY <2>3, <2>5, <3>1, <4>1, <4>2
    <3> QED
      BY <2>1, <3>1, <3>2, <3>3
  <2>4. CASE ~(~c1.rx.done_sent /\ Files(Other(e)) # {} /\ AllWritten(e, c1.rx))
    <3>1. TickReceive(e, c, bad) = c1
      BY <2>2, <2>4
    <3> QED
      BY <2>1, <3>1
  <2> QED
    BY <2>3, <2>4
<1> QED
  BY <1>1, <1>2

\* handle_doneack: the frame says that the sender is done.
LEMMA DoneAckWorks ==
  ASSUME NEW acks, NEW e, NEW c, NEW d, NEW p, NEW r,
         Work(Blocks, acks, e, c, d, p, r), d.tx.phase = "DONE"
  PROVE  LET h == handle_doneack(c) IN
         Work(Blocks, acks, e, h, d, p, r) /\ h.tx = c.tx /\ RxOnward(c.rx, h.rx)
<1> DEFINE b == Blocks[Other(e)]
           c1 == Report(c, "rx", "DONE")
           z == <<>>
<1>1. CASE c.rx.phase # "WAIT_DONEACK"
  BY <1>1, OnwardAgain DEF handle_doneack, RxOnward
<1>2. CASE c.rx.phase = "WAIT_DONEACK"
  <2>1. handle_doneack(c) = c1
    BY <1>2 DEF handle_doneack
  <2>2. /\ c \in EngineSet(Blocks, e) /\ RxSound(b, c.rx) /\ c.set_up \in BOOLEAN
        /\ Agree(b, d.tx, c.rx) /\ (acks => Reported(c)) /\ c.out \in Seq(Frames)
    BY WorkHas DEF EngineSet
  <2>3. RxEnded(Blocks, e, c, "DONE", c1)
    BY <2>2, ReportRx
  <2> HIDE DEF c1
  <2>4. /\ c1 \in EngineSet(Blocks, e) /\ c1.state = c.state /\ c1.tx = c.tx
        /\ c1.rx = [c.rx EXCEPT !.phase = "DONE"] /\ c1.out = c.out
        /\ c1.results["tx"] = c.results["tx"]
        /\ c1.results["rx"] = (IF c.set_up THEN c.results["rx"] + 1 ELSE c.results["rx"])
    BY <2>3 DEF RxEnded
  <2>5. /\ RxSound(b, c1.rx) /\ Agree(b, d.tx, c1.rx) /\ c1.rx.phase = "DONE"
        /\ c1.rx.expected_seq = c.rx.expected_seq /\ c1.rx.done_sent = c.rx.done_sent
    <3>1. "DONE" \in RxPhases \ {"NONE"} /\ c.rx.phase # "NONE"
      BY <1>2 DEF RxPhases
    <3> QED
      BY <2>2, <2>4, <3>1, RxPhase
  <2>6. acks => Reports(c1.rx.phase, c1.results["rx"])
    <3>1. acks => Reports(c.rx.phase, c.results["rx"])
      BY <2>2 DEF Reported
    <3>2. acks => Reports("DONE", IF c.set_up THEN c.results["rx"] + 1 ELSE c.results["rx"])
      BY <1>2, <2>2, <3>1, FirstReport
    <3> QED
      BY <2>4, <2>5, <3>2
  <2>7. z \in Seq(Frames) /\ DOMAIN z = {} /\ c1.out = c.out \o z
    BY <2>2, <2>4, Short, ConcatEmptySeq
  <2>8. \A i \in DOMAIN z : Says(Blocks, e, c1, z[i]) /\ z[i].type # "DATA"
    BY <2>7
  <2> HIDE DEF z
  <2>9. c.rx.done_sent => c1.rx.done_sent
    BY <2>5
  <2>10. Work(Blocks, acks, e, c1, d, p, r)
    BY <2>4, <2>5, <2>6, <2>7, <2>8, <2>9, RxStep DEF b
  <2>11. RxOnward(c.rx, c1.rx)
    BY <1>2, <2>5 DEF RxOnward, Onward, Over
  <2> QED
    BY <2>1, <2>4, <2>10, <2>11
<1> QED
  BY <1>1, <1>2

\* trans_fail of a transfer that has just been opened.
LEMMA FailedNow ==
  ASSUME NEW B, NEW acks, NEW e, NEW c, NEW d, NEW p, NEW r,
         Work(B, acks, e, c, d, p, r), c.rx.phase = "IDLE"
  PROVE  trans_fail(c, "rx", FALSE).rx.phase = "FAILED"
<1> DEFINE c0 == Report(c, "rx", "FAILED")
           z == <<>>
<1>1. c \in EngineSet(B, e)
  BY WorkHas
<1>2. RxEnded(B, e, c, "FAILED", c0)
  BY <1>1, ReportRx
<1>3. trans_fail(c, "rx", FALSE) = dc_send(c0, z)
  BY DEF trans_fail, Over
<1>4. z \in Seq(Frames)
  BY Short
<1> HIDE DEF c0, z
<1>5. c0 \in EngineSet(B, e) /\ c0.rx = [c.rx EXCEPT !.phase = "FAILED"]
  BY <1>2 DEF RxEnded
<1>6. Sent(B, e, c0, z, dc_send(c0, z))
  BY <1>4, <1>5, SendFields
<1>7. dc_send(c0, z).rx = c0.rx
  BY <1>6 DEF Sent
<1>8. c0.rx.phase = "FAILED"
  <2>1. c.rx \in RxSet(DOMAIN B[Other(e)])
    BY <1>1 DEF EngineSet
  <2> QED
    BY <1>5, <2>1 DEF RxSet
<1> QED
  BY <1>3, <1>7, <1>8

\* rx_header_complete on a transfer that has just been opened.
LEMMA CompleteWorks ==
  ASSUME NEW acks, NEW e, NEW c, NEW d, NEW p, NEW r, NEW bad,
         Work(Blocks, acks, e, c, d, p, r), c.rx.phase = "IDLE"
  PROVE  LET h == rx_header_complete(e, c, bad) IN
         /\ Work(Blocks, acks, e, h, d, p, r)
         /\ TxTurn(c.tx.phase, h.tx.phase)
         /\ RxOnward(c.rx, h.rx) /\ h.rx.phase # "DONE"
<1> DEFINE b == Blocks[Other(e)]
           c0 == on_file_list(e, c, bad)
           x1 == [c0.rx EXCEPT !.phase = "WAIT_DATA"]
           c1 == [c0 EXCEPT !.rx.phase = "WAIT_DATA"]
           m == <<Simple("CONFIRM"), Simple("REQ")>>
<1>1. CASE ~c.set_up
  <2>1. rx_header_complete(e, c, bad) = trans_fail(c, "rx", FALSE)
    BY <1>1 DEF rx_header_complete
  <2> DEFINE g == trans_fail(c, "rx", FALSE)
  <2>2. Work(Blocks, acks, e, g, d, p, r) /\ g.tx = c.tx /\ RxOnward(c.rx, g.rx)
    BY RxEnds
  <2>3. g.rx.phase = "FAILED"
    BY FailedNow
  <2>4. rx_header_complete(e, c, bad) = g
    BY <2>1
  <2> HIDE DEF g
  <2> QED
    BY <2>2, <2>3, <2>4, OnwardAgain DEF TxTurn
<1>2. CASE c.set_up /\ bad = "create"
  <2> DEFINE c3 == dc_send(c, <<Rst("rx")>>)
  <2>1. rx_header_complete(e, c, bad) = trans_fail(c3, "rx", FALSE)
    BY <1>2 DEF rx_header_complete
  <2>2. Rst("rx") \in Frames /\ Rst("rx").type \in PlainTypes
    BY FrameTypes DEF PlainTypes
  <2>3. Work(Blocks, acks, e, c3, d, p, r) /\ c3.tx = c.tx /\ c3.rx = c.rx
    BY <2>2, SendOne
  <2> HIDE DEF c3
  <2> DEFINE g == trans_fail(c3, "rx", FALSE)
  <2>4. Work(Blocks, acks, e, g, d, p, r) /\ g.tx = c3.tx /\ RxOnward(c3.rx, g.rx)
    BY <2>3, RxEnds
  <2>5. g.rx.phase = "FAILED"
    BY <2>3, FailedNow
  <2>6. rx_header_complete(e, c, bad) = g
    BY <2>1
  <2> HIDE DEF g
  <2> QED
    BY <2>3, <2>4, <2>5, <2>6, OnwardAgain DEF TxTurn
<1>3. /\ Work(Blocks, acks, e, c0, d, p, r) /\ c0.rx = c.rx
      /\ TxTurn(c.tx.phase, c0.tx.phase)
  <2> DEFINE cs == send_files_impl(e, c, bad)
  <2>1. /\ Work(Blocks, acks, e, cs, d, p, r) /\ cs.rx = c.rx
        /\ TxTurn(c.tx.phase, cs.tx.phase)
    BY SendFilesWorks
  <2>2. c0 = cs \/ c0 = c
    BY DEF on_file_list
  <2> HIDE DEF c0, cs
  <2> QED
    BY <2>1, <2>2, OnwardAgain DEF TxTurn
<1>4. CASE c.set_up /\ bad = "send confirm"
  <2> DEFINE g == trans_fail(c0, "rx", FALSE)
  <2>1. rx_header_complete(e, c, bad) = g
    BY <1>4 DEF rx_header_complete
  <2> HIDE DEF c0
  <2>2. Work(Blocks, acks, e, g, d, p, r) /\ g.tx = c0.tx /\ RxOnward(c0.rx, g.rx)
    BY <1>3, RxEnds
  <2>3. g.rx.phase = "FAILED"
    BY <1>3, FailedNow
  <2> HIDE DEF g
  <2> QED
    BY <1>3, <2>1, <2>2, <2>3
<1>5. CASE c.set_up /\ bad = "send req"
  <2> DEFINE c3 == dc_send(c0, <<Simple("CONFIRM")>>)
             g == trans_fail(c3, "rx", FALSE)
  <2>1. rx_header_complete(e, c, bad) = g
    BY <1>5 DEF rx_header_complete
  <2>2. Simple("CONFIRM") \in Frames /\ Simple("CONFIRM").type \in PlainTypes
    BY FrameTypes DEF PlainTypes
  <2> HIDE DEF c0
  <2>3. Work(Blocks, acks, e, c3, d, p, r) /\ c3.tx = c0.tx /\ c3.rx = c0.rx
    BY <1>3, <2>2, SendOne
  <2> HIDE DEF c3
  <2>4. Work(Blocks, acks, e, g, d, p, r) /\ g.tx = c3.tx /\ RxOnward(c3.rx, g.rx)
    BY <2>3, RxEnds
  <2>5. g.rx.phase = "FAILED"
    BY <1>3, <2>3, FailedNow
  <2> HIDE DEF g
  <2> QED
    BY <1>3, <2>1, <2>3, <2>4, <2>5
<1>6. CASE c.set_up /\ bad \notin {"create", "send confirm", "send req"}
  <2>1. rx_header_complete(e, c, bad) = dc_send(c1, m)
    BY <1>6 DEF rx_header_complete
  <2>3. c1 = [c0 EXCEPT !.rx = x1]
    <3>1. c0 \in EngineSet(Blocks, e) /\ c0.rx \in RxSet(DOMAIN b)
      BY <1>3, WorkHas
    <3> HIDE DEF c0
    <3> QED
      BY <3>1 DEF EngineSet, RxSet
  <2> HIDE DEF c0, c1
  <2>4. RxSound(b, c0.rx) /\ Agree(b, d.tx, c0.rx) /\ (acks => Reported(c0))
    BY <1>3, WorkHas
  <2>5. /\ RxSound(b, x1) /\ Agree(b, d.tx, x1) /\ x1.phase = "WAIT_DATA"
        /\ x1.expected_seq = c0.rx.expected_seq /\ x1.done_sent = c0.rx.done_sent
    <3>1. "WAIT_DATA" \in RxPhases \ {"NONE"} /\ c0.rx.phase # "NONE"
      BY <1>3 DEF RxPhases
    <3> QED
      BY <2>4, <3>1, RxPhase
  <2>6. acks => Reports(x1.phase, c0.results["rx"])
    BY <1>3, <2>4, <2>5 DEF Reported, Reports
  <2>7. c0.rx.done_sent => x1.done_sent
    BY <2>5
  <2> HIDE DEF x1
  <2>8. Work(Blocks, acks, e, c1, d, p, r) /\ c1.rx = x1 /\ c1.tx = c0.tx
    BY <1>3, <2>3, <2>5, <2>4, <2>6, <2>7, EditRx DEF b
  <2>9. /\ Simple("CONFIRM") \in Frames /\ Simple("CONFIRM").type \in PlainTypes
        /\ Simple("REQ") \in Frames /\ Simple("REQ").type \in PlainTypes
    BY FrameTypes DEF PlainTypes
  <2>10. m \in Seq(Frames) /\ \A i \in DOMAIN m : m[i].type \in PlainTypes
    BY <2>9, Short
  <2> HIDE DEF m
  <2> DEFINE c2 == dc_send(c1, m)
  <2>11. Work(Blocks, acks, e, c2, d, p, r)
    BY <2>8, <2>10, SendPlain
  <2>12. Sent(Blocks, e, c1, m, c2)
    BY <2>8, <2>10, WorkHas, SendFields
  <2>13. rx_header_complete(e, c, bad) = c2
    BY <2>1
  <2> HIDE DEF c2
  <2>14. c2.tx = c0.tx /\ c2.rx = x1
    BY <2>8, <2>12 DEF Sent
  <2>15. RxOnward(c.rx, x1)
    BY <1>3, <2>5 DEF RxOnward, Onward, Over
  <2> QED
    BY <1>3, <2>5, <2>11, <2>13, <2>14, <2>15
<1> QED
  BY <1>1, <1>2, <1>4, <1>5, <1>6

\* handle_file_header: the transfer is opened with nothing received, which is
\* what a connection without one has.
LEMMA FileHeaderWorks ==
  ASSUME NEW acks, NEW e, NEW c, NEW d, NEW p, NEW r, NEW bad,
         Work(Blocks, acks, e, c, d, p, r), d.tx.phase # "NONE"
  PROVE  LET h == handle_file_header(e, c, bad) IN
         /\ Work(Blocks, acks, e, h, d, p, r)
         /\ TxTurn(c.tx.phase, h.tx.phase)
         /\ RxOnward(c.rx, h.rx) \/ Accepts(c.rx, h.rx)
<1> DEFINE b == Blocks[Other(e)]
           x1 == NewRx(e, "IDLE")
           c1 == [c EXCEPT !.rx = x1]
<1>1. CASE c.rx.phase # "NONE"
  BY <1>1, OnwardAgain DEF handle_file_header, TxTurn, RxOnward
<1>2. CASE c.rx.phase = "NONE"
  <2>1. handle_file_header(e, c, bad) = rx_header_complete(e, c1, bad)
    BY <1>2 DEF handle_file_header
  <2>2. /\ RxSound(b, c.rx) /\ Agree(b, d.tx, c.rx) /\ c.rx \in RxSet(DOMAIN b)
        /\ (acks => Reported(c))
    BY WorkHas
  <2>3. ~c.rx.done_sent /\ \A f \in DOMAIN b : c.rx.expected_seq[f] = 0
    BY <1>2, <2>2 DEF RxSound
  <2>4. /\ x1 \in RxSet(DOMAIN b) /\ x1.phase = "IDLE" /\ x1.done_sent = FALSE
        /\ x1.expected_seq = [f \in DOMAIN b |-> 0]
    BY DEF NewRx, RxSet, RxPhases, Files
  <2>5. x1.expected_seq = c.rx.expected_seq
    <3>1. c.rx.expected_seq \in [DOMAIN b -> Nat]
      BY <2>2 DEF RxSet
    <3> HIDE DEF x1, b
    <3> QED
      BY <3>1, <2>3, <2>4
  <2> HIDE DEF x1
  <2>6. RxSound(b, x1)
    BY <2>4 DEF RxSound
  <2>7. Agree(b, d.tx, x1)
    <3>1. d.tx.done_received \/ d.tx.phase = "DONE" => FALSE
      BY <2>2, <2>3 DEF Agree
    <3> QED
      BY <2>2, <2>4, <2>5, <3>1 DEF Agree
  <2>8. acks => Reports(x1.phase, c.results["rx"])
    BY <1>2, <2>2, <2>4 DEF Reported, Reports
  <2>9. c.rx.done_sent => x1.done_sent
    BY <2>3
  <2>10. Work(Blocks, acks, e, c1, d, p, r) /\ c1.rx = x1 /\ c1.tx = c.tx
    BY <2>5, <2>6, <2>7, <2>8, <2>9, EditRx DEF b
  <2> HIDE DEF c1
  <2>11. c1.rx.phase = "IDLE"
    BY <2>4, <2>10
  <2> DEFINE h == rx_header_complete(e, c1, bad)
  <2>12. /\ Work(Blocks, acks, e, h, d, p, r)
         /\ TxTurn(c1.tx.phase, h.tx.phase)
         /\ RxOnward(c1.rx, h.rx) /\ h.rx.phase # "DONE"
    BY <2>10, <2>11, CompleteWorks
  <2> HIDE DEF h
  <2>13. Accepts(c.rx, h.rx)
    <3>1. c.rx.done_sent = FALSE
      BY <2>2, <2>3 DEF RxSet
    <3> QED
      BY <1>2, <2>4, <2>5, <2>10, <2>12, <3>1 DEF Accepts, RxOnward, Onward, Over
  <2> QED
    BY <2>1, <2>10, <2>12, <2>13 DEF h
<1> QED
  BY <1>1, <1>2

\* handle_setting: ready, and the phone starts its push.
LEMMA SettingWorks ==
  ASSUME NEW acks, NEW e, NEW c, NEW d, NEW p, NEW r, NEW bad,
         Work(Blocks, acks, e, c, d, p, r)
  PROVE  LET h == handle_setting(e, c, bad) IN
         /\ Work(Blocks, acks, e, h, d, p, r)
         /\ TxTurn(c.tx.phase, h.tx.phase) /\ h.rx = c.rx
<1> DEFINE c1 == [c EXCEPT !.state = "READY"]
           z == <<>>
<1>1. CASE c.state # "NEGOTIATING"
  BY <1>1, OnwardAgain DEF handle_setting, TxTurn
<1>2. CASE c.state = "NEGOTIATING"
  <2>1. /\ c \in EngineSet(Blocks, e) /\ TxSound(Blocks[e], c.tx)
        /\ RxSound(Blocks[Other(e)], c.rx) /\ (acks => Reported(c))
        /\ Agree(Blocks[e], c.tx, d.rx) /\ Agree(Blocks[Other(e)], d.tx, c.rx)
        /\ c.out \in Seq(Frames)
    BY WorkHas
  <2>2. /\ c1 \in EngineSet(Blocks, e) /\ c1.state = "READY" /\ c1.tx = c.tx
        /\ c1.rx = c.rx /\ c1.results = c.results /\ c1.out = c.out
    BY <2>1 DEF EngineSet, States
  <2> HIDE DEF c1
  <2>3. z \in Seq(Frames) /\ DOMAIN z = {} /\ c1.out = c.out \o z
    BY <2>1, <2>2, Short, ConcatEmptySeq
  <2> HIDE DEF z
  <2>4. \A i \in DOMAIN z : Says(Blocks, e, c1, z[i]) /\ z[i].type # "DATA"
    BY <2>3
  <2>5. /\ TxSound(Blocks[e], c1.tx) /\ RxSound(Blocks[Other(e)], c1.rx)
        /\ Agree(Blocks[e], c1.tx, d.rx) /\ Agree(Blocks[Other(e)], d.tx, c1.rx)
        /\ c1.tx.next_seq = c.tx.next_seq
        /\ c1.rx.expected_seq = c.rx.expected_seq
        /\ (c.tx.phase = "DONE" => c1.tx.phase = "DONE")
        /\ (c.tx.phase # "NONE" => c1.tx.phase # "NONE")
        /\ (c.rx.done_sent => c1.rx.done_sent)
    BY <2>1, <2>2
  <2>6. acks => Reported(c1)
    BY <2>1, <2>2 DEF Reported
  <2>7. c1.state # "CRASHED" /\ (Alive(c1) => Alive(c))
    BY <1>2, <2>2 DEF Alive
  <2>8. Work(Blocks, acks, e, c1, d, p, r)
    BY <2>2, <2>3, <2>4, <2>5, <2>6, <2>7, Calm
  <2> DEFINE g == send_files_impl(e, c1, bad)
  <2>9. /\ Work(Blocks, acks, e, g, d, p, r)
        /\ TxTurn(c1.tx.phase, g.tx.phase) /\ g.rx = c1.rx
    BY <2>8, SendFilesWorks
  <2>10. handle_setting(e, c, bad) \in {c1, g}
    BY <1>2 DEF handle_setting, c1
  <2> HIDE DEF g
  <2> QED
    BY <2>2, <2>8, <2>9, <2>10, OnwardAgain DEF TxTurn
<1> QED
  BY <1>1, <1>2

-----------------------------------------------------------------------------
(***************************************************************************)
(* Reading a frame.  q is the stream, B the blocks of the files.           *)
(***************************************************************************)

\* What an end that has shut down will not read is of no concern.
LEMMA Closed ==
  ASSUME NEW B, NEW acks, NEW e, NEW c, NEW d, NEW p, NEW r, NEW r1,
         Work(B, acks, e, c, d, p, r), c.state = "CLOSING"
  PROVE  Work(B, acks, e, c, d, p, r1)
BY DEF Work, Good, Alive

\* The stream q from engine d to end e.
Stream(B, e, d, q) ==
  /\ q \in Seq(Frames) /\ q # <<>>
  /\ \A i \in DOMAIN q : Says(B, Other(e), d, q[i])
  /\ TxSound(B[Other(e)], d.tx)
  /\ \A f \in DOMAIN B[Other(e)] : f \in Nat /\ B[Other(e)][f] \in Nat

\* The stream after its first frame, for a receiver that knows what was in it.
LEMMA FlowOn ==
  ASSUME NEW B, NEW e, NEW d, NEW q, NEW x, NEW x1, e \in Ends, Stream(B, e, d, q),
         Flow(B[Other(e)], d.tx.next_seq, x, q),
         \A f \in DOMAIN B[Other(e)] : x[f] \in Nat /\ x1[f] \in Nat /\ x[f] <= x1[f],
         Head(q).type = "DATA" => Head(q).seq < x1[Head(q).file]
  PROVE  Flow(B[Other(e)], d.tx.next_seq, x1, Tail(q))
<1> DEFINE b == B[Other(e)]
           n == d.tx.next_seq
<1>1. \A i \in DOMAIN q : q[i].type = "DATA" => q[i].file \in DOMAIN b
  BY DEF Stream, Says
<1>2. \A f \in DOMAIN b : f \in Nat /\ x[f] \in Nat /\ x1[f] \in Nat /\ x[f] <= x1[f]
  BY DEF Stream
<1>3. q \in Seq(Frames) /\ q # <<>> /\ Flow(b, n, x, q)
  BY DEF Stream
<1> HIDE DEF b, n
<1>4. Flow(b, n, x1, Tail(q))
  BY <1>1, <1>2, <1>3, FlowRest
<1> QED
  BY <1>4 DEF b, n

\* A frame without a block is taken off the stream.
LEMMA RestWorks ==
  ASSUME NEW B, NEW acks, NEW e, NEW c, NEW d, NEW p, NEW q, e \in Ends,
         Work(B, acks, e, c, d, p, q), Stream(B, e, d, q),
         Head(q).type # "DATA"
  PROVE  Work(B, acks, e, c, d, p, Tail(q))
<1> DEFINE x == c.rx.expected_seq
<1>1. \A f \in DOMAIN B[Other(e)] : x[f] \in Nat /\ x[f] <= x[f]
  BY WorkHas DEF RxSet
<1>2. Alive(c) => Flow(B[Other(e)], d.tx.next_seq, x, q)
  BY DEF Work, Good
<1>3. Alive(c) => Flow(B[Other(e)], d.tx.next_seq, x, Tail(q))
  <2> HIDE DEF x
  <2> QED
    BY <1>1, <1>2, FlowOn
<1> QED
  BY <1>3 DEF Work, Good

\* The first block on the stream is the next one or an earlier one, and it is
\* a block of a file.
LEMMA FirstBlock ==
  ASSUME NEW B, NEW acks, NEW e, NEW c, NEW d, NEW p, NEW q, e \in Ends,
         Work(B, acks, e, c, d, p, q), Stream(B, e, d, q), Alive(c),
         Head(q).type = "DATA"
  PROVE  /\ Head(q).file \in DOMAIN B[Other(e)] /\ Head(q).seq \in Nat
         /\ Head(q).seq < d.tx.next_seq[Head(q).file]
         /\ Head(q).seq < B[Other(e)][Head(q).file]
         /\ Head(q).seq <= c.rx.expected_seq[Head(q).file]
<1> DEFINE f == Head(q).file
           s == Head(q).seq
           b == B[Other(e)]
<1>1. Head(q) = q[1] /\ 1 \in DOMAIN q /\ DOMAIN q \subseteq Nat \ {0}
  <2>1. q \in Seq(Frames) /\ q # <<>>
    BY DEF Stream
  <2> QED
    BY <2>1, Rest
<1>2. Says(B, Other(e), d, Head(q)) /\ Head(q) \in Frames
  BY <1>1 DEF Stream, Says
<1>3. f \in DOMAIN b /\ s < d.tx.next_seq[f]
  BY <1>2 DEF Says
<1>4. s \in Nat
  BY <1>2, DataFrame
<1>5. d.tx.next_seq[f] \in Nat /\ d.tx.next_seq[f] <= b[f] /\ b[f] \in Nat
  BY <1>3 DEF Stream, TxSound, TxSet
<1>6. s < b[f]
  BY <1>3, <1>4, <1>5
<1>7. s <= c.rx.expected_seq[f]
  <2>1. InOrder(c.rx.expected_seq, q)
    BY DEF Work, Good, Flow
  <2>2. \/ s <= c.rx.expected_seq[f]
        \/ \E j \in DOMAIN q : j < 1 /\ q[j] = Data(f, s - 1)
    BY <1>1, <2>1 DEF InOrder
  <2> QED
    BY <1>1, <2>2
<1> QED
  BY <1>3, <1>4, <1>6, <1>7

\* x1 is the receiving transfer x with one block more of file f.
OneMore(b, t, x, f, x1) ==
  /\ RxSound(b, x1) /\ Agree(b, t, x1) /\ x1.phase = "WAIT_DATA"
  /\ x1.done_sent = x.done_sent
  /\ \A g \in DOMAIN b : /\ x.expected_seq[g] \in Nat /\ x1.expected_seq[g] \in Nat
                         /\ x.expected_seq[g] <= x1.expected_seq[g]
  /\ x1.expected_seq[f] = x.expected_seq[f] + 1

\* The receiving transfer x with the next block of file f written.
LEMMA Written ==
  ASSUME NEW b, NEW t, NEW x, NEW f \in DOMAIN b, NEW x1,
         TxSound(b, t), RxSound(b, x), Agree(b, t, x), x.phase = "WAIT_DATA",
         x.expected_seq[f] < t.next_seq[f],
         \A g \in DOMAIN b : b[g] \in Nat,
         x1 = [x EXCEPT !.expected_seq[f] = x.expected_seq[f] + 1,
                        !.ack_pending = TRUE]
  PROVE  OneMore(b, t, x, f, x1)
<1> DEFINE y == x.expected_seq
           y1 == x1.expected_seq
<1>1. x \in RxSet(DOMAIN b) /\ t \in TxSet(DOMAIN b)
  BY DEF RxSound, TxSound
<1>2. y \in [DOMAIN b -> Nat] /\ x.done_sent \in BOOLEAN
  BY <1>1 DEF RxSet
<1>3. /\ x1.phase = "WAIT_DATA" /\ x1.done_sent = x.done_sent
      /\ y1 = [y EXCEPT ![f] = y[f] + 1]
  BY <1>1 DEF RxSet
<1>4. x1 \in RxSet(DOMAIN b)
  <2>1. x1 = [x EXCEPT !.expected_seq = [y EXCEPT ![f] = y[f] + 1],
                       !.ack_pending = TRUE]
    BY <1>1 DEF RxSet
  <2>2. [y EXCEPT ![f] = y[f] + 1] \in [DOMAIN b -> Nat]
    BY <1>2
  <2> QED
    BY <1>1, <2>1, <2>2 DEF RxSet
<1> HIDE DEF y, y1
<1>5. /\ y1 \in [DOMAIN b -> Nat] /\ y1[f] = y[f] + 1
      /\ \A g \in DOMAIN b : y[g] \in Nat /\ y1[g] \in Nat /\ y[g] <= y1[g]
      /\ \A g \in DOMAIN b : g # f => y1[g] = y[g]
  BY <1>2, <1>3
<1>6. RxSound(b, x1)
  <2>1. x1.done_sent => \A g \in DOMAIN b : y1[g] >= b[g]
    <3> SUFFICES ASSUME x.done_sent, NEW g \in DOMAIN b PROVE y1[g] >= b[g]
      BY <1>3
    <3>1. y[g] >= b[g]
      BY DEF RxSound, y
    <3> QED
      BY <1>5, <3>1
  <2> QED
    BY <1>3, <1>4, <2>1 DEF RxSound, y1
<1>7. Agree(b, t, x1)
  <2>1. ASSUME NEW g \in DOMAIN b
        PROVE y1[g] \in Nat /\ t.acked[g] <= y1[g] /\ y1[g] <= t.next_seq[g]
    <3>1. t.acked[g] \in Nat /\ t.next_seq[g] \in Nat
      BY <1>1 DEF TxSet
    <3>2. t.acked[g] <= y[g] /\ y[g] <= t.next_seq[g] /\ y[f] < t.next_seq[f]
      BY DEF Agree, y
    <3> QED
      BY <1>5, <3>1, <3>2
  <2>2. t.done_received \/ t.phase = "DONE" => x1.done_sent
    BY <1>3 DEF Agree
  <2> QED
    BY <1>3, <2>1, <2>2 DEF Agree, y1
<1> QED
  BY <1>3, <1>5, <1>6, <1>7 DEF y, y1, OneMore

\* handle_data has written block m.
NextBlock(c, m) ==
  [c EXCEPT !.rx.expected_seq[m.file] = m.seq + 1, !.rx.ack_pending = TRUE]

\* handle_data when the first block on the stream is the next one.
LEMMA NextBlockWorks ==
  ASSUME NEW acks, NEW e, NEW c, NEW d, NEW p, NEW q, NEW c1, e \in Ends,
         Work(Blocks, acks, e, c, d, p, q), Stream(Blocks, e, d, q), Alive(c),
         Head(q).type = "DATA", c.rx.phase = "WAIT_DATA",
         Head(q).seq = c.rx.expected_seq[Head(q).file],
         c1 = NextBlock(c, Head(q))
  PROVE  /\ Work(Blocks, acks, e, c1, d, p, Tail(q)) /\ c1.tx = c.tx
         /\ Writes(Blocks[Other(e)], c.rx, c1.rx)
<1> DEFINE b == Blocks[Other(e)]
           f == Head(q).file
           s == Head(q).seq
           x == c.rx
           x1 == [x EXCEPT !.expected_seq[f] = x.expected_seq[f] + 1, !.ack_pending = TRUE]
           j == p \o c.out
<1>1. f \in DOMAIN b /\ s \in Nat /\ s < d.tx.next_seq[f]
  BY FirstBlock DEF b
<1>2. /\ c \in EngineSet(Blocks, e) /\ x \in RxSet(DOMAIN b) /\ RxSound(b, x)
      /\ Agree(b, d.tx, x) /\ TxSound(Blocks[e], c.tx) /\ Agree(Blocks[e], c.tx, d.rx)
      /\ (acks => Reported(c)) /\ c.out \in Seq(Frames)
  BY WorkHas
<1>3. c1 = [c EXCEPT !.rx = x1]
  BY <1>1, <1>2 DEF EngineSet, RxSet, NextBlock
<1>0. x1.expected_seq = [x.expected_seq EXCEPT ![f] = @ + 1] /\ x1.phase = x.phase
  BY <1>1, <1>2 DEF RxSet
<1>4. TxSound(b, d.tx) /\ \A g \in DOMAIN b : b[g] \in Nat
  BY DEF Stream
<1>5. x.expected_seq[f] < d.tx.next_seq[f]
  BY <1>1
<1> HIDE DEF b, f
<1>6. OneMore(b, d.tx, x, f, x1)
  BY <1>1, <1>2, <1>4, <1>5, Written
<1> HIDE DEF x1
<1>7. x1 \in RxSet(DOMAIN b)
  BY <1>6 DEF RxSound, OneMore
<1>8. /\ c1 \in EngineSet(Blocks, e) /\ c1.rx = x1 /\ c1.tx = c.tx /\ c1.out = c.out
      /\ c1.state = c.state /\ c1.results = c.results
  BY <1>2, <1>3, <1>7 DEF EngineSet, b
<1>9. acks => Reported(c1)
  BY <1>2, <1>6, <1>8 DEF Reported, OneMore
<1>10. p \in Seq(Frames) /\ j \in Seq(Frames) /\ \A i \in DOMAIN j : Says(Blocks, e, c, j[i])
  BY DEF Work, Good
<1>11. ASSUME NEW i \in DOMAIN j PROVE Says(Blocks, e, c1, j[i])
  <2>1. Says(Blocks, e, c, j[i])
    BY <1>10
  <2>2. \A g \in DOMAIN Blocks[e] : c.tx.next_seq[g] <= c1.tx.next_seq[g]
    BY <1>2, <1>8 DEF TxSound, TxSet
  <2>3. \A g \in DOMAIN Blocks[Other(e)] : c.rx.expected_seq[g] <= c1.rx.expected_seq[g]
    BY <1>6, <1>8 DEF b, OneMore
  <2>4. c.rx.done_sent => c1.rx.done_sent
    BY <1>6, <1>8 DEF OneMore
  <2>5. /\ c.tx.phase = "DONE" => c1.tx.phase = "DONE"
        /\ c.tx.phase # "NONE" => c1.tx.phase # "NONE"
    BY <1>8
  <2> HIDE DEF j
  <2> QED
    BY <1>2, <1>8, <2>1, <2>2, <2>3, <2>4, <2>5, SaysStays
<1>12. Flow(b, d.tx.next_seq, c1.rx.expected_seq, Tail(q))
  <2>1. Flow(b, d.tx.next_seq, x.expected_seq, q)
    BY DEF Work, Good, b
  <2>2. Head(q).seq < x1.expected_seq[Head(q).file]
    BY <1>1, <1>6 DEF f, OneMore
  <2> DEFINE y == x.expected_seq
             y1 == x1.expected_seq
  <2>3. \A g \in DOMAIN b : y[g] \in Nat /\ y1[g] \in Nat /\ y[g] <= y1[g]
    BY <1>6 DEF OneMore
  <2>4. Flow(b, d.tx.next_seq, y, q) /\ Head(q).seq < y1[Head(q).file]
    BY <2>1, <2>2
  <2> HIDE DEF y, y1
  <2>5. Flow(b, d.tx.next_seq, y1, Tail(q))
    BY <2>3, <2>4, FlowOn DEF b
  <2> QED
    BY <1>8, <2>5 DEF y1
<1>13. Alive(d) => Flow(Blocks[e], c1.tx.next_seq, d.rx.expected_seq, j)
  BY <1>8 DEF Work, Good
<1>14. c1.state # "CRASHED" /\ p \o c1.out = j
  BY <1>8 DEF Alive
<1>15. Good(Blocks, acks, e, c1, d, j, Tail(q))
  <2> HIDE DEF j
  <2>1. /\ TxSound(Blocks[e], c1.tx) /\ RxSound(Blocks[Other(e)], c1.rx)
        /\ Agree(Blocks[e], c1.tx, d.rx) /\ Agree(Blocks[Other(e)], d.tx, c1.rx)
    BY <1>2, <1>6, <1>8 DEF b, OneMore
  <2> QED
    BY <1>8, <1>9, <1>10, <1>11, <1>12, <1>13, <2>1 DEF Good, b
<1> HIDE DEF j
<1>16. Writes(b, x, c1.rx)
  <2>1. x.expected_seq[f] < b[f]
    <3>1. /\ x.expected_seq[f] \in Nat /\ d.tx.next_seq[f] \in Nat /\ b[f] \in Nat
          /\ d.tx.next_seq[f] <= b[f]
      BY <1>1, <1>2, <1>4 DEF TxSound, TxSet, RxSet
    <3> QED
      BY <1>5, <3>1
  <2>2. x1.done_sent = x.done_sent /\ x.phase = "WAIT_DATA"
    BY <1>6 DEF OneMore
  <2>3. x1.expected_seq = [x.expected_seq EXCEPT ![f] = @ + 1] /\ x1.phase = x.phase
    BY <1>0
  <2>4. ~Over(x.phase) /\ f \in DOMAIN b /\ c1.rx = x1
    BY <1>1, <1>8, <2>2 DEF Over
  <2> HIDE DEF x
  <2> QED
    BY <2>1, <2>2, <2>3, <2>4 DEF Writes
<1> QED
  BY <1>8, <1>10, <1>14, <1>15, <1>16 DEF Work, b

\* handle_data.
LEMMA DataWorks ==
  ASSUME NEW acks, NEW e, NEW c, NEW d, NEW p, NEW q, NEW bad, e \in Ends,
         Work(Blocks, acks, e, c, d, p, q), Stream(Blocks, e, d, q), Alive(c),
         Head(q).type = "DATA"
  PROVE  LET h == handle_data(e, c, Head(q).file, Head(q).seq, bad) IN
         /\ Work(Blocks, acks, e, h, d, p, Tail(q))
         /\ Moves(c, h) \/ (h.tx = c.tx /\ Writes(Blocks[Other(e)], c.rx, h.rx))
<1> DEFINE f == Head(q).file
           s == Head(q).seq
           y == c.rx.expected_seq
           h == handle_data(e, c, f, s, bad)
           c1 == [c EXCEPT !.rx.expected_seq[f] = s + 1, !.rx.ack_pending = TRUE]
<1>1. /\ f \in DOMAIN Blocks[Other(e)] /\ s \in Nat /\ s <= y[f]
      /\ s < Blocks[Other(e)][f] /\ Blocks[Other(e)][f] \in Nat /\ y[f] \in Nat
  <2>1. Blocks[Other(e)][f] \in Nat /\ y[f] \in Nat
    BY FirstBlock, WorkHas DEF Stream, RxSet
  <2> QED
    BY <2>1, FirstBlock
<1>2. CASE h = Refuse(c)
  <2>1. /\ Work(Blocks, acks, e, Refuse(c), d, p, q) /\ Refuse(c).state = "CLOSING"
        /\ Moves(c, Refuse(c))
    BY RefuseWorks
  <2> DEFINE g == Refuse(c)
  <2> HIDE DEF g, h
  <2>2. Work(Blocks, acks, e, g, d, p, Tail(q))
    BY <2>1, Closed DEF g
  <2> QED
    BY <1>2, <2>1, <2>2 DEF h, g
<1>3. CASE h = c /\ c.rx.phase = "WAIT_DATA" /\ s < y[f]
  <2>1. Alive(c) => Flow(Blocks[Other(e)], d.tx.next_seq, y, q)
    BY DEF Work, Good
  <2>2. \A g \in DOMAIN Blocks[Other(e)] : y[g] \in Nat /\ y[g] <= y[g]
    BY WorkHas DEF RxSet
  <2>3. Head(q).seq < y[Head(q).file]
    BY <1>3
  <2>4. Alive(c) => Flow(Blocks[Other(e)], d.tx.next_seq, y, Tail(q))
    <3> HIDE DEF y
    <3> QED
      BY <2>1, <2>2, <2>3, FlowOn
  <2>5. Work(Blocks, acks, e, c, d, p, Tail(q))
    BY <2>4 DEF Work, Good
  <2>6. Moves(c, c)
    BY OnwardAgain DEF Moves, RxOnward
  <2> HIDE DEF h
  <2> QED
    BY <1>3, <2>5, <2>6 DEF h
<1>4. CASE h = c1 /\ c.rx.phase = "WAIT_DATA" /\ s = y[f]
  <2>1. /\ Work(Blocks, acks, e, c1, d, p, Tail(q)) /\ c1.tx = c.tx
        /\ Writes(Blocks[Other(e)], c.rx, c1.rx)
    <3>1. c1 = NextBlock(c, Head(q))
      BY DEF NextBlock
    <3>2. c.rx.phase = "WAIT_DATA" /\ Head(q).seq = c.rx.expected_seq[Head(q).file]
      BY <1>4
    <3> HIDE DEF c1, h
    <3> QED
      BY <3>1, <3>2, NextBlockWorks
  <2> HIDE DEF h, c1
  <2> QED
    BY <1>4, <2>1 DEF h
<1>5. \/ h = Refuse(c)
      \/ h = c /\ c.rx.phase = "WAIT_DATA" /\ s < y[f]
      \/ h = c1 /\ c.rx.phase = "WAIT_DATA" /\ s = y[f]
  <2> DEFINE A == Refuse(c)
             bl == Blocks[Other(e)][f]
             w == c.rx.phase = "WAIT_DATA"
             beyond == s >= bl
             old == s < y[f]
             gap == s > y[f]
             next == s = y[f]
             fails == bad = "write"
  <2>1. h = CASE ~w -> A
              [] w /\ beyond -> A
              [] w /\ old -> c
              [] w /\ gap -> A
              [] w /\ next /\ fails -> A
              [] OTHER -> c1
    BY DEF handle_data
  <2>2. ~beyond /\ ~gap /\ (old \/ next) /\ ~(old /\ next)
    BY <1>1
  <2> HIDE DEF A, h, c1, w, beyond, old, gap, next, fails
  <2>3. h = A \/ (h = c /\ w /\ old) \/ (h = c1 /\ w /\ next)
    BY <2>1, <2>2
  <2> QED
    BY <2>3 DEF A, w, old, next
<1> QED
  BY <1>2, <1>3, <1>4, <1>5

\* All that one handler does to the transfers of c.
Turn(B, e, c, c1) ==
  TxTurn(c.tx.phase, c1.tx.phase) /\ RxTurn(B[Other(e)], c.rx, c1.rx)

\* Handlers that do less.
LEMMA TurnFrom ==
  ASSUME NEW B, NEW e, NEW c, NEW c1,
         \/ Moves(c, c1)
         \/ TxTurn(c.tx.phase, c1.tx.phase) /\ c1.rx = c.rx
         \/ Onward(c.tx.phase, c1.tx.phase) /\ c1.rx = c.rx
         \/ c1.tx = c.tx /\ RxTurn(B[Other(e)], c.rx, c1.rx)
  PROVE  Turn(B, e, c, c1)
BY OnwardAgain DEF Turn, TxTurn, RxTurn, Moves, RxOnward

\* handle_frame: what the frame says is what its handler needs.
LEMMA FrameWorks ==
  ASSUME NEW acks, NEW e, NEW c, NEW d, NEW p, NEW q, NEW bad, e \in Ends,
         Work(Blocks, acks, e, c, d, p, q), Stream(Blocks, e, d, q), Alive(c)
  PROVE  LET h == handle_frame(e, c, Head(q), bad) IN
         Work(Blocks, acks, e, h, d, p, Tail(q)) /\ Turn(Blocks, e, c, h)
<1> DEFINE m == Head(q)
           h == handle_frame(e, c, m, bad)
<1>1. m \in Frames /\ Says(Blocks, Other(e), d, m)
  <2>1. q \in Seq(Frames) /\ q # <<>>
    BY DEF Stream
  <2> QED
    BY <2>1, Rest DEF Stream, Says
<1>2. m.type \in {"SETTING", "HEADER", "CONFIRM", "REQ", "DATA", "ACK", "DONE",
                  "DONE_ACK", "RST", "EOF"}
  BY <1>1 DEF Frames, Frame, AckFrame
<1>3. CASE m.type = "DATA"
  <2>1. h = handle_data(e, c, m.file, m.seq, bad)
    BY <1>3 DEF handle_frame
  <2> DEFINE g == handle_data(e, c, m.file, m.seq, bad)
  <2>2. /\ Work(Blocks, acks, e, g, d, p, Tail(q))
        /\ Moves(c, g) \/ (g.tx = c.tx /\ Writes(Blocks[Other(e)], c.rx, g.rx))
    BY <1>3, DataWorks
  <2>3. h = g
    BY <2>1
  <2> HIDE DEF g, h
  <2>4. Turn(Blocks, e, c, g)
    BY <2>2, TurnFrom DEF RxTurn
  <2> QED
    BY <2>2, <2>3, <2>4 DEF h
<1>4. CASE m.type # "DATA"
  <2> DEFINE r == Tail(q)
  <2>1. Work(Blocks, acks, e, c, d, p, r)
    BY <1>4, RestWorks
  <2> HIDE DEF r
  <2>2. CASE m.type = "SETTING"
    <3>1. h = handle_setting(e, c, bad)
      BY <2>2 DEF handle_frame
    <3> DEFINE g == handle_setting(e, c, bad)
    <3>2. /\ Work(Blocks, acks, e, g, d, p, r)
          /\ TxTurn(c.tx.phase, g.tx.phase) /\ g.rx = c.rx
      BY <2>1, SettingWorks
    <3>3. h = g
      BY <3>1
    <3> HIDE DEF g, h
    <3>4. Turn(Blocks, e, c, g)
      BY <3>2, TurnFrom
    <3> QED
      BY <3>2, <3>3, <3>4 DEF r, h
  <2>3. CASE m.type = "HEADER"
    <3>1. h = handle_file_header(e, c, bad)
      BY <2>3 DEF handle_frame
    <3>2. d.tx.phase # "NONE"
      BY <1>1, <2>3 DEF Says
    <3> DEFINE g == handle_file_header(e, c, bad)
    <3>3. /\ Work(Blocks, acks, e, g, d, p, r)
          /\ TxTurn(c.tx.phase, g.tx.phase)
          /\ RxOnward(c.rx, g.rx) \/ Accepts(c.rx, g.rx)
      BY <2>1, <3>2, FileHeaderWorks
    <3>4. h = g
      BY <3>1
    <3> HIDE DEF g, h
    <3>5. Turn(Blocks, e, c, g)
      BY <3>3 DEF Turn, RxTurn
    <3> QED
      BY <3>3, <3>4, <3>5 DEF r, h
  <2>4. CASE m.type \in {"CONFIRM", "REQ"}
    <3> DEFINE ty == m.type
    <3>1. h = handle_tx_ctrl(c, ty)
      BY <2>4 DEF handle_frame
    <3> HIDE DEF ty, h, m
    <3> DEFINE g == handle_tx_ctrl(c, ty)
    <3>2. /\ Work(Blocks, acks, e, g, d, p, r)
          /\ Onward(c.tx.phase, g.tx.phase) /\ g.rx = c.rx
      BY <2>1, CtrlWorks
    <3>3. h = g
      BY <3>1
    <3> HIDE DEF g, h
    <3>4. Turn(Blocks, e, c, g)
      BY <3>2, TurnFrom
    <3> QED
      BY <3>2, <3>3, <3>4 DEF r, h, m
  <2>5. CASE m.type = "ACK"
    <3> DEFINE ents == m.ents
    <3>1. h = handle_ack(e, c, ents, bad)
      BY <2>5 DEF handle_frame
    <3>2. \A f \in DOMAIN ents : ents[f] \in Nat /\ ents[f] <= d.rx.expected_seq[f]
      BY <1>1, <2>5, AckIsFrame DEF Says
    <3> HIDE DEF ents, h, m
    <3> DEFINE g == handle_ack(e, c, ents, bad)
    <3>3. /\ Work(Blocks, acks, e, g, d, p, r)
          /\ Onward(c.tx.phase, g.tx.phase) /\ g.rx = c.rx
      BY <2>1, <3>2, AckWorks
    <3>4. h = g
      BY <3>1
    <3> HIDE DEF g, h
    <3>5. Turn(Blocks, e, c, g)
      BY <3>3, TurnFrom
    <3> QED
      BY <3>3, <3>4, <3>5 DEF r, h, m
  <2>6. CASE m.type = "DONE"
    <3>1. h = handle_done(e, c, bad)
      BY <2>6 DEF handle_frame
    <3>2. d.rx.done_sent
      BY <1>1, <2>6 DEF Says
    <3> DEFINE g == handle_done(e, c, bad)
    <3>3. /\ Work(Blocks, acks, e, g, d, p, r)
          /\ Onward(c.tx.phase, g.tx.phase) /\ g.rx = c.rx
      BY <2>1, <3>2, DoneWorks
    <3>4. h = g
      BY <3>1
    <3> HIDE DEF g, h
    <3>5. Turn(Blocks, e, c, g)
      BY <3>3, TurnFrom
    <3> QED
      BY <3>3, <3>4, <3>5 DEF r, h
  <2>7. CASE m.type = "DONE_ACK"
    <3>1. h = handle_doneack(c)
      BY <2>7 DEF handle_frame
    <3>2. d.tx.phase = "DONE"
      BY <1>1, <2>7 DEF Says
    <3> DEFINE g == handle_doneack(c)
    <3>3. /\ Work(Blocks, acks, e, g, d, p, r)
          /\ g.tx = c.tx /\ RxOnward(c.rx, g.rx)
      BY <2>1, <3>2, DoneAckWorks
    <3>4. h = g
      BY <3>1
    <3> HIDE DEF g, h
    <3>5. Turn(Blocks, e, c, g)
      BY <3>3, TurnFrom DEF RxTurn
    <3> QED
      BY <3>3, <3>4, <3>5 DEF r, h
  <2>8. CASE m.type = "RST"
    <3>1. h = handle_rst(c)
      BY <2>8 DEF handle_frame
    <3> DEFINE g == handle_rst(c)
    <3>2. /\ Work(Blocks, acks, e, g, d, p, r)
          /\ Moves(c, g)
      BY <2>1, RstWorks
    <3>3. h = g
      BY <3>1
    <3> HIDE DEF g, h
    <3>4. Turn(Blocks, e, c, g)
      BY <3>2, TurnFrom
    <3> QED
      BY <3>2, <3>3, <3>4 DEF r, h
  <2>9. CASE m.type = "EOF"
    <3>1. h = shutdown_common(c)
      BY <2>9 DEF handle_frame
    <3> DEFINE g == shutdown_common(c)
    <3>2. /\ Work(Blocks, acks, e, g, d, p, r)
          /\ Moves(c, g)
      BY <2>1, ShutdownWorks
    <3>3. h = g
      BY <3>1
    <3> HIDE DEF g, h
    <3>4. Turn(Blocks, e, c, g)
      BY <3>2, TurnFrom
    <3> QED
      BY <3>2, <3>3, <3>4 DEF r, h
  <2> QED
    BY <1>2, <1>4, <2>2, <2>3, <2>4, <2>5, <2>6, <2>7, <2>8, <2>9
<1> QED
  BY <1>3, <1>4

-----------------------------------------------------------------------------
(***************************************************************************)
(* The pump: an induction over the files.                                  *)
(***************************************************************************)

\* A set of natural numbers has a least one.
LEMMA Least ==
  ASSUME NEW T, T \subseteq Nat, T # {}
  PROVE  \E m \in T : \A k \in T : m <= k
<1> DEFINE R == {ss \in Nat \X Nat : ss[1] < ss[2]}
<1>1. IsWellFoundedOn(R, Nat)
  BY NatLessThanWellFounded, Zenon DEF OpToRel
<1>2. \A x, y \in Nat : y < x => <<y, x>> \in R
  OBVIOUS
<1> HIDE DEF R
<1>3. PICK m \in T : \A y \in T : ~(<<y, m>> \in R)
  BY <1>1, WFMin
<1>4. \A k \in T : ~(k < m)
  BY <1>2, <1>3
<1>5. \A k \in T : m <= k
  BY <1>4
<1> QED
  BY <1>5

\* Induction along the files.
LEMMA Along ==
  ASSUME NEW n \in Nat, NEW S, 0 \in S, \A i \in 1 .. n : i - 1 \in S => i \in S
  PROVE  \A i \in 0 .. n : i \in S
<1> SUFFICES ASSUME NEW k \in 0 .. n, k \notin S PROVE FALSE
  OBVIOUS
<1> DEFINE T == {i \in 0 .. n : i \notin S}
<1>1. T \subseteq Nat /\ T # {}
  OBVIOUS
<1>2. PICK m \in T : \A j \in T : m <= j
  BY <1>1, Least
<1>3. m \in 1 .. n /\ m - 1 \in 0 .. n /\ m \notin S
  BY <1>2
<1>4. m - 1 \notin T
  BY <1>2, <1>3
<1> QED
  BY <1>3, <1>4

\* What the turns start from.
First(c, due) ==
  [t |-> c.tx, budget |-> DC_SEND_BUDGET,
   may_retran |-> due \/ ~c.tx.retransmitted, out |-> <<>>]

\* w is the turns of the first n files.
IsTurns(e, c, due, n, w) ==
  w = [i \in 0 .. n |-> IF i = 0 THEN First(c, due)
                        ELSE CHOOSE y \in {PumpFile(e, i, x) : x \in {w[i - 1]}} : TRUE]

\* There is such a function.
LEMMA TurnsExist ==
  ASSUME NEW e, NEW c, NEW due, NEW n \in Nat
  PROVE  \E w : IsTurns(e, c, due, n, w)
<1> DEFINE S == {i \in 0 .. n : \E w : IsTurns(e, c, due, i, w)}
           V(i, v) == CHOOSE y \in {PumpFile(e, i, x) : x \in {v}} : TRUE
<1>1. 0 \in S
  <2>1. IsTurns(e, c, due, 0, [i \in 0 .. 0 |-> First(c, due)])
    BY DEF IsTurns
  <2> QED
    BY <2>1
<1>2. ASSUME NEW i \in 1 .. n, i - 1 \in S PROVE i \in S
  <2>1. PICK w : IsTurns(e, c, due, i - 1, w)
    BY <1>2
  <2>2. w = [k \in 0 .. i - 1 |-> IF k = 0 THEN First(c, due) ELSE V(k, w[k - 1])]
    BY <2>1 DEF IsTurns
  <2> DEFINE u == [k \in 0 .. i |-> IF k = i THEN V(i, w[i - 1]) ELSE w[k]]
  <2> HIDE DEF V
  <2>3. \A k \in 0 .. i : k # 0 => u[k - 1] = w[k - 1]
    OBVIOUS
  <2>4. \A k \in 0 .. i : u[k] = IF k = 0 THEN First(c, due) ELSE V(k, u[k - 1])
    BY <2>2, <2>3
  <2>5. u = [k \in 0 .. i |-> IF k = 0 THEN First(c, due) ELSE V(k, u[k - 1])]
    BY <2>4
  <2>6. IsTurns(e, c, due, i, u)
    BY <2>5 DEF IsTurns, V
  <2> HIDE DEF u
  <2> QED
    BY <2>6
<1> HIDE DEF S
<1>3. n \in S
  BY <1>1, <1>2, Along
<1> QED
  BY <1>3 DEF S

\* So Turns is one.
LEMMA TurnsAre ==
  ASSUME NEW e, NEW c, NEW due, Len(Blocks[e]) \in Nat
  PROVE  IsTurns(e, c, due, Len(Blocks[e]), Turns(e, c, due))
<1>1. Turns(e, c, due) = CHOOSE w : IsTurns(e, c, due, Len(Blocks[e]), w)
  BY DEF Turns, IsTurns, First
<1>2. \E w : IsTurns(e, c, due, Len(Blocks[e]), w)
  BY TurnsExist
<1> QED
  BY <1>1, <1>2, Zenon

\* A block of b that has been sent.
IsBlock(b, n, m) ==
  /\ m \in Frames /\ m.type = "DATA" /\ m.file \in DOMAIN b
  /\ m.seq < n[m.file] /\ m.seq \in Nat

\* Where the turns of tx_pump may have come to: w against the transfer t0 at
\* the beginning; q was on its way to engine d before.
TurnOK(b, t0, d, q, w) ==
  /\ w.t \in TxSet(DOMAIN b) /\ w.budget \in Nat /\ w.out \in Seq(Frames)
  /\ w.t.phase = t0.phase /\ w.t.acked = t0.acked
  /\ w.t.done_received => t0.done_received
  /\ w.t.ctrl_retries = t0.ctrl_retries
  /\ \A f \in DOMAIN b : /\ t0.next_seq[f] <= w.t.next_seq[f]
                         /\ w.t.retrans[f] <= w.t.next_seq[f]
                         /\ w.t.next_seq[f] <= b[f]
  /\ \A i \in DOMAIN w.out : IsBlock(b, w.t.next_seq, w.out[i])
  /\ Alive(d) => Flow(b, w.t.next_seq, d.rx.expected_seq, q \o w.out)

\* t1 is the sending transfer t with blocks of file f sent up to z, and again
\* up to o.
AdvancedTo(F, t, f, z, o, t1) ==
  /\ t1 \in TxSet(F) /\ t1.phase = t.phase /\ t1.acked = t.acked
  /\ t1.ctrl_retries = t.ctrl_retries
  /\ t1.done_received => t.done_received
  /\ t1.next_seq = [t.next_seq EXCEPT ![f] = z]
  /\ t1.retrans = [t.retrans EXCEPT ![f] = o]

\* What a turn does to the transfer.
LEMMA Advanced ==
  ASSUME NEW F, NEW t \in TxSet(F), NEW f \in F, NEW z \in Nat, NEW o \in Nat,
         NEW again \in BOOLEAN, NEW t1,
         t1 = [t EXCEPT !.next_seq[f] = z, !.retrans[f] = o,
                        !.retransmitted = @ \/ again]
  PROVE  AdvancedTo(F, t, f, z, o, t1)
<1>1. t.next_seq \in [F -> Nat] /\ t.retrans \in [F -> Nat] /\ t.retransmitted \in BOOLEAN
  BY DEF TxSet
<1> DEFINE n1 == [t.next_seq EXCEPT ![f] = z]
           r1 == [t.retrans EXCEPT ![f] = o]
           a1 == t.retransmitted \/ again
<1>2. t1 = [t EXCEPT !.next_seq = n1, !.retrans = r1, !.retransmitted = a1]
  BY DEF TxSet
<1>3. n1 \in [F -> Nat] /\ r1 \in [F -> Nat]
  BY <1>1
<1>4. a1 \in BOOLEAN
  BY <1>1
<1> HIDE DEF n1, r1, a1
<1>5. t1 \in TxSet(F)
  BY <1>2, <1>3, <1>4 DEF TxSet
<1>6. t1.phase = t.phase /\ t1.acked = t.acked /\ t1.ctrl_retries = t.ctrl_retries
  BY <1>2 DEF TxSet
<1>7. t1.done_received => t.done_received
  BY <1>2 DEF TxSet
<1>8. t1.next_seq = n1 /\ t1.retrans = r1
  BY <1>2 DEF TxSet
<1> QED
  BY <1>5, <1>6, <1>7, <1>8 DEF n1, r1, AdvancedTo

\* One file's turn.
LEMMA PumpFileWorks ==
  ASSUME NEW e, NEW f \in DOMAIN Blocks[e], NEW t0, NEW d, NEW q \in Seq(Frames), NEW w,
         f \in Nat, \A g \in DOMAIN Blocks[e] : Blocks[e][g] \in Nat,
         \A g \in DOMAIN Blocks[e] : t0.next_seq[g] \in Nat /\ d.rx.expected_seq[g] \in Nat,
         TurnOK(Blocks[e], t0, d, q, w)
  PROVE  TurnOK(Blocks[e], t0, d, q, PumpFile(e, f, w))
<1> DEFINE b == Blocks[e]
           n == w.t.next_seq
           x == d.rx.expected_seq
           z == NewBlocks(e, f, n[f], w.budget)
           left == w.budget - (z - n[f])
           old == w.t.retrans[f]
           again == old < z /\ left > 0 /\ w.may_retran
           o == IF again THEN old + 1 ELSE old
           t1 == [w.t EXCEPT !.next_seq[f] = z, !.retrans[f] = o,
                             !.retransmitted = @ \/ again]
           run == DataRun(f, n[f], z)
           more == IF again THEN <<Data(f, old)>> ELSE <<>>
           w1 == PumpFile(e, f, w)
<1>1. w1 = [t |-> t1, budget |-> IF again THEN left - 1 ELSE left,
            may_retran |-> w.may_retran /\ ~again, out |-> w.out \o run \o more]
  BY DEF PumpFile
<1>2. /\ w.t \in TxSet(DOMAIN b) /\ w.budget \in Nat /\ w.out \in Seq(Frames)
      /\ n \in [DOMAIN b -> Nat] /\ old \in Nat /\ old <= n[f] /\ n[f] <= b[f]
      /\ b[f] \in Nat
  BY DEF TurnOK, TxSet
<1>3. z \in Nat /\ n[f] <= z /\ z <= b[f] /\ left \in Nat
  <2>1. z = IF b[f] <= n[f] + w.budget THEN b[f] ELSE n[f] + w.budget
    BY DEF NewBlocks, Min2
  <2>2. n[f] \in Nat
    BY <1>2
  <2> DEFINE k == n[f]
  <2> HIDE DEF n, z, b, k
  <2> QED
    BY <1>2, <2>1, <2>2
<1>4. again \in BOOLEAN /\ (again => old < z /\ left > 0)
  OBVIOUS
<1>5. /\ w1.t = t1 /\ w1.budget = (IF again THEN left - 1 ELSE left)
      /\ w1.out = (w.out \o run) \o more
  <2> HIDE DEF t1, again, left, run, more, w1
  <2> QED
    BY <1>1
<1>6. w1.budget \in Nat /\ o \in Nat /\ o <= z /\ old <= z
  <2> HIDE DEF again, left, z, w1, old
  <2> QED
    BY <1>2, <1>3, <1>4, <1>5
<1>7. run \in Seq(Frames) /\ IsRun(run, f, n[f], z)
  <2> DEFINE a == n[f]
  <2>1. a \in Nat /\ a <= z /\ z \in Nat
    BY <1>2, <1>3
  <2>2. run = DataRun(f, a, z)
    OBVIOUS
  <2> HIDE DEF a, z, run
  <2>3. IsRun(DataRun(f, a, z), f, a, z)
    BY <2>1, RunIs
  <2>4. run \in Seq(Frames) /\ IsRun(run, f, a, z)
    BY <2>2, <2>3 DEF IsRun
  <2> QED
    BY <2>4 DEF a
<1> HIDE DEF z, left, again, o, run, w1, n, old, b
<1>8. more \in Seq(Frames) /\ (again => more = <<Data(f, old)>>) /\ (~again => more = <<>>)
  <2>1. Data(f, old) \in Frames
    BY <1>2, FrameTypes
  <2> QED
    BY <2>1, Short
<1>8a. t1 = [w.t EXCEPT !.next_seq[f] = z, !.retrans[f] = o, !.retransmitted = @ \/ again]
  OBVIOUS
<1> HIDE DEF more, t1
<1>8b. AdvancedTo(DOMAIN b, w.t, f, z, o, t1)
  <2>1. f \in DOMAIN b
    BY DEF b
  <2> QED
    BY <1>2, <1>3, <1>4, <1>6, <1>8a, <2>1, Advanced
<1>9. /\ t1 \in TxSet(DOMAIN b) /\ t1.phase = w.t.phase /\ t1.acked = w.t.acked
      /\ t1.ctrl_retries = w.t.ctrl_retries
      /\ t1.done_received => w.t.done_received
      /\ t1.next_seq = [w.t.next_seq EXCEPT ![f] = z]
      /\ t1.retrans = [w.t.retrans EXCEPT ![f] = o]
  BY <1>8b DEF AdvancedTo
<1> DEFINE n1 == t1.next_seq
<1>10. /\ n1 \in [DOMAIN b -> Nat] /\ n1[f] = z
       /\ \A g \in DOMAIN b : g # f => n1[g] = n[g]
       /\ \A g \in DOMAIN b : n[g] \in Nat /\ n1[g] \in Nat /\ n[g] <= n1[g]
  BY <1>2, <1>3, <1>9 DEF n, b
<1> HIDE DEF n1
<1>11. \A g \in DOMAIN b : /\ t0.next_seq[g] <= n1[g] /\ t1.retrans[g] <= n1[g]
                           /\ n1[g] <= b[g]
  <2> SUFFICES ASSUME NEW g \in DOMAIN b
               PROVE t0.next_seq[g] <= n1[g] /\ t1.retrans[g] <= n1[g] /\ n1[g] <= b[g]
    OBVIOUS
  <2>1. /\ t0.next_seq[g] <= n[g] /\ w.t.retrans[g] <= n[g] /\ n[g] <= b[g]
        /\ t0.next_seq[g] \in Nat /\ w.t.retrans[g] \in Nat /\ b[g] \in Nat
    BY <1>2 DEF TurnOK, n, b, TxSet
  <2>2. t1.retrans[g] = IF g = f THEN o ELSE w.t.retrans[g]
    BY <1>2, <1>9 DEF TxSet
  <2>3. CASE g = f
    <3>1. t1.retrans[g] = o /\ n1[g] = z
      BY <1>10, <2>2, <2>3
    <3>2. z <= b[g] /\ n[g] <= z
      BY <1>3, <2>3
    <3> QED
      BY <1>3, <1>6, <1>10, <2>1, <3>1, <3>2
  <2>4. CASE g # f
    <3>1. t1.retrans[g] = w.t.retrans[g] /\ n1[g] = n[g]
      BY <1>10, <2>2, <2>4
    <3> QED
      BY <2>1, <3>1
  <2> QED
    BY <2>3, <2>4
<1>12. w.out \o run \in Seq(Frames) /\ w1.out \in Seq(Frames)
  BY <1>2, <1>5, <1>7, <1>8, Joined
<1>13. \A i \in DOMAIN w1.out : IsBlock(b, n1, w1.out[i])
  <2> DEFINE S == {m \in Frames : IsBlock(b, n1, m)}
  <2>1. \A i \in DOMAIN w.out : w.out[i] \in S
    <3> SUFFICES ASSUME NEW i \in DOMAIN w.out PROVE IsBlock(b, n1, w.out[i])
      BY DEF IsBlock
    <3>1. IsBlock(b, n, w.out[i])
      BY DEF TurnOK, b, n
    <3> DEFINE m == w.out[i]
    <3>2. m \in Frames /\ m.type = "DATA" /\ m.file \in DOMAIN b /\ m.seq < n[m.file]
          /\ m.seq \in Nat
      BY <3>1 DEF IsBlock
    <3> HIDE DEF m
    <3>3. m.seq < n1[m.file]
      <4>1. n[m.file] \in Nat /\ n1[m.file] \in Nat /\ n[m.file] <= n1[m.file]
        BY <3>2, <1>10
      <4> QED
        BY <3>2, <4>1
    <3> QED
      BY <3>2, <3>3 DEF IsBlock, m
  <2>2. \A i \in DOMAIN run : run[i] \in S
    <3> SUFFICES ASSUME NEW i \in DOMAIN run PROVE IsBlock(b, n1, run[i])
      BY DEF IsBlock
    <3> DEFINE s == n[f] + i - 1
    <3>1. n[f] \in Nat
      BY <1>10 DEF b
    <3>2. i \in 1 .. (z - n[f]) /\ run[i] = Data(f, s) /\ s \in Nat
      BY <1>7 DEF IsRun
    <3>3. s < z
      BY <1>3, <3>1, <3>2
    <3> HIDE DEF s
    <3>4. Data(f, s) \in Frames /\ Data(f, s).type = "DATA" /\ Data(f, s).file = f
          /\ Data(f, s).seq = s
      BY <3>2, FrameTypes
    <3> QED
      BY <1>10, <3>2, <3>3, <3>4 DEF IsBlock, b
  <2>3. \A i \in DOMAIN more : more[i] \in S
    <3>1. CASE again
      <4>1. Data(f, old) \in Frames /\ Data(f, old).type = "DATA" /\ Data(f, old).file = f
            /\ Data(f, old).seq = old
        BY <1>2, FrameTypes
      <4>2. old < z
        BY <1>4, <3>1
      <4>3. IsBlock(b, n1, Data(f, old))
        BY <1>2, <1>10, <4>1, <4>2 DEF IsBlock, b
      <4>4. more = <<Data(f, old)>>
        BY <1>8, <3>1
      <4> DEFINE m == Data(f, old)
      <4> HIDE DEF m
      <4> QED
        BY <4>1, <4>3, <4>4, Short DEF m
    <3>2. CASE ~again
      BY <1>8, <3>2, Short
    <3> QED
      BY <3>1, <3>2
  <2> HIDE DEF S
  <2>4. \A i \in DOMAIN (w.out \o run) : (w.out \o run)[i] \in S
    BY <1>2, <1>7, <2>1, <2>2, AllJoined
  <2>5. \A i \in DOMAIN ((w.out \o run) \o more) : ((w.out \o run) \o more)[i] \in S
    <3> DEFINE v == w.out \o run
    <3> HIDE DEF v
    <3>1. \A i \in DOMAIN (v \o more) : (v \o more)[i] \in S
      BY <1>8, <1>12, <2>3, <2>4, AllJoined DEF v
    <3> QED
      BY <3>1 DEF v
  <2> QED
    BY <1>5, <2>5 DEF S
<1>14. Alive(d) => Flow(b, n1, x, q \o w1.out)
  <2> SUFFICES ASSUME Alive(d) PROVE Flow(b, n1, x, q \o w1.out)
    OBVIOUS
  <2> DEFINE j == q \o w.out
             k == j \o run
  <2>1. Flow(b, n, x, j) /\ x[f] \in Nat /\ f \in DOMAIN b
    BY DEF TurnOK, b, n
  <2>2. j \in Seq(Frames)
    BY <1>2, Joined
  <2> HIDE DEF j, x
  <2>3. Flow(b, n1, x, k)
    <3>1. n[f] \in Nat
      BY <1>10, <2>1
    <3>2. Flow(b, n1, x, j \o DataRun(f, n[f], z))
      <4> DEFINE a == n[f]
      <4>1. n[f] = a /\ a \in Nat /\ a <= z
        BY <1>3, <3>1
      <4> HIDE DEF a
      <4>2. Flow(b, n1, x, j \o DataRun(f, a, z))
        BY <1>3, <1>10, <2>1, <2>2, <4>1, FlowRun
      <4> QED
        BY <4>2 DEF a
    <3> QED
      BY <3>2 DEF run
  <2>4. k \in Seq(Frames)
    BY <1>7, <2>2, Joined
  <2> HIDE DEF k
  <2>5. Flow(b, n1, x, k \o more)
    <3>1. CASE again
      <4>1. n1[f] \in Nat /\ old <= n1[f] /\ n1[f] <= n1[f]
        BY <1>3, <1>6, <1>10
      <4>2. Flow(b, n1, x, k \o <<Data(f, old)>>)
        BY <1>2, <2>1, <2>3, <2>4, <4>1, FlowData
      <4> QED
        BY <1>8, <3>1, <4>2
    <3>2. CASE ~again
      <4>1. k \o more = k
        BY <1>8, <2>4, <3>2, ConcatEmptySeq
      <4> QED
        BY <2>3, <4>1
    <3> QED
      BY <3>1, <3>2
  <2>6. k \o more = q \o w1.out
    <3> DEFINE v == w.out
               u == run
    <3>1. v \in Seq(Frames) /\ u \in Seq(Frames) /\ more \in Seq(Frames) /\ v \o u \in Seq(Frames)
      BY <1>2, <1>7, <1>8, <1>12
    <3>2. k = (q \o v) \o u
      BY DEF k, j
    <3>3. w1.out = (v \o u) \o more
      BY <1>5
    <3> HIDE DEF v, u
    <3>4. k = q \o (v \o u)
      BY <3>1, <3>2, Regroup, Zenon
    <3> DEFINE vu == v \o u
    <3>5. vu \in Seq(Frames) /\ k = q \o vu /\ w1.out = vu \o more
      BY <3>1, <3>3, <3>4
    <3> HIDE DEF vu
    <3>6. (q \o vu) \o more = q \o (vu \o more)
      BY <3>1, <3>5, Regroup, Zenon
    <3> QED
      BY <3>5, <3>6
  <2> QED
    BY <2>5, <2>6
<1>15. /\ w1.t.phase = t0.phase /\ w1.t.acked = t0.acked
       /\ w1.t.ctrl_retries = t0.ctrl_retries
  BY <1>5, <1>9 DEF TurnOK
<1>16. w1.t.done_received => t0.done_received
  BY <1>5, <1>9 DEF TurnOK
<1>17. TurnOK(b, t0, d, q, w1)
  BY <1>5, <1>6, <1>9, <1>11, <1>12, <1>13, <1>14, <1>15, <1>16 DEF TurnOK, n1, x
<1> QED
  BY <1>17 DEF w1, b

\* All turns of tx_pump.
LEMMA TurnsWork ==
  ASSUME NEW acks, NEW e, NEW c, NEW d, NEW p, NEW r, NEW due,
         Work(Blocks, acks, e, c, d, p, r), Blocks[e] \in Seq(Nat)
  PROVE  TurnOK(Blocks[e], c.tx, d, p \o c.out, Turns(e, c, due)[Len(Blocks[e])])
<1> DEFINE b == Blocks[e]
           N == Len(b)
           w == Turns(e, c, due)
           q == p \o c.out
           S == {i \in 0 .. N : TurnOK(b, c.tx, d, q, w[i])}
<1>1. /\ N \in Nat /\ DOMAIN b = 1 .. N /\ \A f \in DOMAIN b : f \in Nat /\ b[f] \in Nat
  <2>1. N \in Nat /\ DOMAIN b = 1 .. N
    BY LenProperties
  <2> QED
    BY <2>1, ElementOfSeq
<1>2. IsTurns(e, c, due, N, w)
  BY <1>1, TurnsAre
<1>3. /\ c.tx \in TxSet(DOMAIN b) /\ TxSound(b, c.tx) /\ Agree(b, c.tx, d.rx)
  BY WorkHas
<1>4. q \in Seq(Frames) /\ (Alive(d) => Flow(b, c.tx.next_seq, d.rx.expected_seq, q))
  BY DEF Work, Good
<1>5. \A g \in DOMAIN b : c.tx.next_seq[g] \in Nat /\ d.rx.expected_seq[g] \in Nat
  BY <1>3 DEF TxSet, Agree
<1> HIDE DEF w, q, N
<1>6. w[0] = First(c, due)
  BY <1>1, <1>2 DEF IsTurns
<1>7. ASSUME NEW i \in 1 .. N PROVE w[i] = PumpFile(e, i, w[i - 1])
  <2> DEFINE v == w[i - 1]
             P(x) == PumpFile(e, i, x)
  <2>1. w[i] = CHOOSE y \in {P(x) : x \in {v}} : TRUE
    BY <1>1, <1>2 DEF IsTurns
  <2> HIDE DEF v, P
  <2>2. {P(x) : x \in {v}} = {P(v)}
    OBVIOUS
  <2>3. w[i] \in {P(v)}
    BY <2>1, <2>2
  <2> QED
    BY <2>3 DEF v, P
<1>8. 0 \in S
  <2> DEFINE w0 == First(c, due)
  <2>1. w0.t = c.tx /\ w0.budget = DC_SEND_BUDGET /\ w0.out = <<>>
    BY DEF First
  <2> HIDE DEF w0
  <2>2. w0.out \in Seq(Frames) /\ DOMAIN w0.out = {} /\ q \o w0.out = q
    BY <1>4, <2>1, Short, ConcatEmptySeq
  <2>3. w0.budget \in Nat
    BY <2>1, Limits
  <2>4. \A f \in DOMAIN b : /\ c.tx.next_seq[f] <= w0.t.next_seq[f]
                            /\ w0.t.retrans[f] <= w0.t.next_seq[f]
                            /\ w0.t.next_seq[f] <= b[f]
    BY <1>3, <1>5, <2>1 DEF TxSound
  <2>5. w0.t.done_received => c.tx.done_received
    BY <2>1
  <2>6. TurnOK(b, c.tx, d, q, w0)
    <3> HIDE DEF b
    <3> QED
      BY <1>3, <1>4, <2>1, <2>2, <2>3, <2>4, <2>5 DEF TurnOK
  <2> QED
    BY <1>1, <1>6, <2>6 DEF w0
<1>9. ASSUME NEW i \in 1 .. N, i - 1 \in S PROVE i \in S
  <2> DEFINE v == w[i - 1]
  <2>1. TurnOK(Blocks[e], c.tx, d, q, v)
    BY <1>9
  <2>2. i \in DOMAIN Blocks[e] /\ i \in Nat /\ i \in 0 .. N
    BY <1>1
  <2> HIDE DEF v
  <2>3. TurnOK(Blocks[e], c.tx, d, q, PumpFile(e, i, v))
    BY <1>1, <1>4, <1>5, <2>1, <2>2, PumpFileWorks
  <2>4. w[i] = PumpFile(e, i, v)
    BY <1>7 DEF v
  <2> QED
    BY <2>2, <2>3, <2>4
<1> HIDE DEF S
<1>10. N \in S
  <2>1. \A i \in 1 .. N : i - 1 \in S => i \in S
    BY <1>9
  <2>2. N \in Nat /\ N \in 0 .. N
    BY <1>1
  <2>3. \A i \in 0 .. N : i \in S
    BY <1>8, <2>1, <2>2, Along
  <2> QED
    BY <2>2, <2>3
<1> QED
  BY <1>10 DEF S, N, w, q

\* The blocks of the turns are written to the socket.
LEMMA BlocksWork ==
  ASSUME NEW acks, NEW e, NEW c, NEW d, NEW p, NEW r, NEW w, NEW c1,
         Work(Blocks, acks, e, c, d, p, r), c.tx.phase \in {"SENDING", "WAIT_DONE"},
         TurnOK(Blocks[e], c.tx, d, p \o c.out, w),
         c1 = dc_send([c EXCEPT !.tx = w.t], w.out)
  PROVE  /\ Work(Blocks, acks, e, c1, d, p, r)
         /\ c1.tx.phase = c.tx.phase /\ c1.rx = c.rx
<1> DEFINE b == Blocks[e]
           t == w.t
           m == w.out
           q == p \o c.out
<1>1. /\ c \in EngineSet(Blocks, e) /\ TxSound(b, c.tx) /\ c.tx \in TxSet(DOMAIN b)
      /\ RxSound(Blocks[Other(e)], c.rx) /\ (acks => Reported(c))
      /\ Agree(b, c.tx, d.rx) /\ Agree(Blocks[Other(e)], d.tx, c.rx)
      /\ c.out \in Seq(Frames) /\ c.state # "CRASHED"
  BY WorkHas
<1>2. /\ t \in TxSet(DOMAIN b) /\ m \in Seq(Frames)
      /\ t.phase = c.tx.phase /\ t.acked = c.tx.acked
      /\ \A f \in DOMAIN b : /\ c.tx.next_seq[f] <= t.next_seq[f]
                             /\ t.retrans[f] <= t.next_seq[f]
                             /\ t.next_seq[f] <= b[f]
      /\ \A i \in DOMAIN m : IsBlock(b, t.next_seq, m[i])
      /\ Alive(d) => Flow(b, t.next_seq, d.rx.expected_seq, q \o m)
  BY DEF TurnOK
<1>3. t.done_received => c.tx.done_received
  BY DEF TurnOK
<1>4. /\ c1 \in EngineSet(Blocks, e) /\ c1.state = c.state /\ c1.tx = t /\ c1.rx = c.rx
      /\ c1.results = c.results /\ c1.out = c.out \o m
  <2> DEFINE c0 == [c EXCEPT !.tx = t]
  <2> HIDE DEF t, m
  <2>1. /\ c0 \in EngineSet(Blocks, e) /\ c0.state = c.state /\ c0.tx = t
        /\ c0.rx = c.rx /\ c0.results = c.results /\ c0.out = c.out
    BY <1>1, <1>2 DEF EngineSet
  <2>2. c1 = dc_send(c0, m)
    BY DEF t, m
  <2> HIDE DEF c0
  <2>3. Sent(Blocks, e, c0, m, c1)
    BY <1>2, <2>1, <2>2, SendFields
  <2> QED
    BY <2>1, <2>3 DEF Sent
<1>5. p \in Seq(Frames) /\ q \in Seq(Frames) /\ \A i \in DOMAIN q : Says(Blocks, e, c, q[i])
  BY DEF Work, Good
<1>6. Alive(c) => Flow(Blocks[Other(e)], d.tx.next_seq, c.rx.expected_seq, r)
  BY DEF Work, Good
<1> HIDE DEF t, m
<1>7. TxSound(b, c1.tx)
  BY <1>2, <1>4 DEF TxSound
<1>8. Agree(b, c1.tx, d.rx)
  <2>1. \A f \in DOMAIN b : /\ d.rx.expected_seq[f] \in Nat
                            /\ t.acked[f] <= d.rx.expected_seq[f]
                            /\ d.rx.expected_seq[f] <= t.next_seq[f]
    <3> SUFFICES ASSUME NEW f \in DOMAIN b
                 PROVE /\ d.rx.expected_seq[f] \in Nat
                       /\ t.acked[f] <= d.rx.expected_seq[f]
                       /\ d.rx.expected_seq[f] <= t.next_seq[f]
      OBVIOUS
    <3>1. d.rx.expected_seq[f] \in Nat /\ c.tx.acked[f] <= d.rx.expected_seq[f]
          /\ d.rx.expected_seq[f] <= c.tx.next_seq[f]
      BY <1>1 DEF Agree
    <3>2. c.tx.next_seq[f] \in Nat /\ t.next_seq[f] \in Nat /\ t.acked[f] = c.tx.acked[f]
      BY <1>1, <1>2 DEF TxSet
    <3>3. c.tx.next_seq[f] <= t.next_seq[f]
      BY <1>2
    <3> QED
      BY <3>1, <3>2, <3>3
  <2>2. t.done_received \/ t.phase = "DONE" => d.rx.done_sent
    BY <1>1, <1>2, <1>3 DEF Agree
  <2>3. /\ d.rx.phase = "DONE" => t.phase = "DONE"
        /\ d.rx.phase # "NONE" => t.phase # "NONE"
    BY <1>1, <1>2 DEF Agree
  <2> QED
    BY <1>4, <2>1, <2>2, <2>3 DEF Agree
<1>9. acks => Reported(c1)
  BY <1>1, <1>2, <1>4 DEF Reported
<1>10. p \o c1.out = q \o m
  <2> DEFINE o == c.out
  <2>1. o \in Seq(Frames) /\ q = p \o o /\ c1.out = o \o m
    BY <1>1, <1>4
  <2> HIDE DEF o, q
  <2>2. p \in Seq(Frames) /\ m \in Seq(Frames)
    BY <1>2, <1>5
  <2>3. (p \o o) \o m = p \o (o \o m)
    BY <2>1, <2>2, Regroup, Zenon
  <2> QED
    BY <2>1, <2>3
<1>11. q \o m \in Seq(Frames) /\ \A i \in DOMAIN (q \o m) : Says(Blocks, e, c1, (q \o m)[i])
  <2> DEFINE S == {k \in Frames : Says(Blocks, e, c1, k)}
  <2>1. \A i \in DOMAIN q : q[i] \in S
    <3> SUFFICES ASSUME NEW i \in DOMAIN q PROVE Says(Blocks, e, c1, q[i])
      BY DEF Says
    <3>1. Says(Blocks, e, c, q[i])
      BY <1>5
    <3>2. \A f \in DOMAIN Blocks[e] : c.tx.next_seq[f] <= c1.tx.next_seq[f]
      BY <1>2, <1>4
    <3>3. \A f \in DOMAIN Blocks[Other(e)] : c.rx.expected_seq[f] <= c1.rx.expected_seq[f]
      BY <1>1, <1>4 DEF RxSound, RxSet
    <3>4. /\ c.tx.phase = "DONE" => c1.tx.phase = "DONE"
          /\ c.tx.phase # "NONE" => c1.tx.phase # "NONE"
      BY <1>2, <1>4
    <3>5. c.rx.done_sent => c1.rx.done_sent
      BY <1>4
    <3> HIDE DEF q
    <3> QED
      BY <1>1, <1>4, <3>1, <3>2, <3>3, <3>4, <3>5, SaysStays
  <2>2. \A i \in DOMAIN m : m[i] \in S
    <3> SUFFICES ASSUME NEW i \in DOMAIN m PROVE Says(Blocks, e, c1, m[i])
      BY DEF Says
    <3>1. IsBlock(b, c1.tx.next_seq, m[i])
      BY <1>2, <1>4
    <3> QED
      BY <3>1 DEF IsBlock, Says
  <2> HIDE DEF S, q
  <2>3. \A i \in DOMAIN (q \o m) : (q \o m)[i] \in S
    BY <1>2, <1>5, <2>1, <2>2, AllJoined
  <2>4. q \o m \in Seq(Frames)
    BY <1>2, <1>5, Joined
  <2> QED
    BY <2>3, <2>4 DEF S
<1>12. Good(Blocks, acks, e, c1, d, q \o m, r)
  <2> DEFINE j == q \o m
  <2>1. /\ RxSound(Blocks[Other(e)], c1.rx) /\ Agree(Blocks[Other(e)], d.tx, c1.rx)
        /\ (Alive(d) => Flow(b, c1.tx.next_seq, d.rx.expected_seq, j))
    BY <1>1, <1>2, <1>4
  <2>2. Alive(c1) => Flow(Blocks[Other(e)], d.tx.next_seq, c1.rx.expected_seq, r)
    BY <1>4, <1>6 DEF Alive
  <2>3. j \in Seq(Frames) /\ \A i \in DOMAIN j : Says(Blocks, e, c1, j[i])
    BY <1>11
  <2> HIDE DEF j
  <2>4. Good(Blocks, acks, e, c1, d, j, r)
    BY <1>4, <1>7, <1>8, <1>9, <2>1, <2>2, <2>3 DEF Good
  <2> QED
    BY <2>4 DEF j
<1> HIDE DEF q
<1>13. c1.state # "CRASHED"
  BY <1>1, <1>4
<1> QED
  BY <1>2, <1>4, <1>5, <1>10, <1>12, <1>13 DEF Work

\* tx_pump.
LEMMA PumpWorks ==
  ASSUME NEW acks, NEW e, NEW c, NEW d, NEW p, NEW r, NEW due, NEW bad,
         Work(Blocks, acks, e, c, d, p, r), Blocks[e] \in Seq(Nat),
         c.tx.phase \in {"SENDING", "WAIT_DONE"}
  PROVE  LET h == tx_pump(e, c, due, bad) IN
         /\ Work(Blocks, acks, e, h, d, p, r)
         /\ Onward(c.tx.phase, h.tx.phase) /\ h.rx = c.rx
<1> DEFINE w == Turns(e, c, due)[Len(Blocks[e])]
           f1 == trans_fail(c, "tx", TRUE)
           f2 == trans_fail(c, "tx", FALSE)
           c1 == dc_send([c EXCEPT !.tx = w.t], w.out)
           U(x) == CASE x.out = <<>>  -> c
                     [] x.out # <<>> /\ bad = "read" -> f1
                     [] x.out # <<>> /\ bad = "send data" -> f2
                     [] OTHER -> dc_send([c EXCEPT !.tx = x.t], x.out)
<1>1. tx_pump(e, c, due, bad) = CHOOSE y \in {U(x) : x \in {w}} : TRUE
  BY DEF tx_pump
<1>2. TurnOK(Blocks[e], c.tx, d, p \o c.out, w)
  BY TurnsWork
<1> HIDE DEF w
<1>3. Work(Blocks, acks, e, c1, d, p, r) /\ c1.tx.phase = c.tx.phase /\ c1.rx = c.rx
  BY <1>2, BlocksWork
<1>4. Work(Blocks, acks, e, f1, d, p, r) /\ Onward(c.tx.phase, f1.tx.phase) /\ f1.rx = c.rx
  BY TxResets
<1>5. Work(Blocks, acks, e, f2, d, p, r) /\ Onward(c.tx.phase, f2.tx.phase) /\ f2.rx = c.rx
  BY TxEnds
<1>6. U(w) \in {c, f1, f2, c1}
  <2> HIDE DEF f1, f2
  <2> DEFINE none == w.out = <<>>
             rd == bad = "read"
             sd == bad = "send data"
  <2>1. U(w) = CASE none -> c [] ~none /\ rd -> f1 [] ~none /\ sd -> f2 [] OTHER -> c1
    OBVIOUS
  <2>2. ~(rd /\ sd)
    OBVIOUS
  <2> DEFINE u == U(w)
  <2>3. u = CASE none -> c [] ~none /\ rd -> f1 [] ~none /\ sd -> f2 [] OTHER -> c1
    BY <2>1
  <2> HIDE DEF none, rd, sd, c1, u
  <2>4. u \in {c, f1, f2, c1}
    BY <2>2, <2>3
  <2> QED
    BY <2>4 DEF u
<1> HIDE DEF U, f1, f2, c1
<1>7. {U(x) : x \in {w}} = {U(w)}
  OBVIOUS
<1>8. tx_pump(e, c, due, bad) \in {U(w)}
  BY <1>1, <1>7
<1> QED
  BY <1>3, <1>4, <1>5, <1>6, <1>8, OnwardAgain

\* TickSend: the blocks, then the finish condition.
LEMMA SendTickWorks ==
  ASSUME NEW acks, NEW e, NEW c, NEW d, NEW p, NEW r, NEW late, NEW bad,
         Work(Blocks, acks, e, c, d, p, r), Blocks[e] \in Seq(Nat)
  PROVE  LET h == TickSend(e, c, late, bad) IN
         /\ Work(Blocks, acks, e, h, d, p, r)
         /\ Onward(c.tx.phase, h.tx.phase) /\ h.rx = c.rx
<1> DEFINE due == "retran" \in late
           c1 == tx_pump(e, c, due, bad)
           c2 == [c1 EXCEPT !.tx.phase = "WAIT_DONE"]
           t2 == [c1.tx EXCEPT !.phase = "WAIT_DONE"]
           c3 == IF c1.tx.phase = "SENDING" /\ tx_all_sent(e, c1.tx) THEN c2 ELSE c1
           b == Blocks[e]
<1>1. CASE c.tx.phase \notin {"SENDING", "WAIT_DONE"}
  BY <1>1, OnwardAgain DEF TickSend
<1>2. CASE c.tx.phase \in {"SENDING", "WAIT_DONE"}
  <2>1. TickSend(e, c, late, bad) = Finish(e, c3, bad)
    BY <1>2 DEF TickSend
  <2> HIDE DEF due
  <2>2. /\ Work(Blocks, acks, e, c1, d, p, r)
        /\ Onward(c.tx.phase, c1.tx.phase) /\ c1.rx = c.rx
    BY <1>2, PumpWorks
  <2> HIDE DEF c1
  <2>3. /\ Work(Blocks, acks, e, c3, d, p, r)
        /\ Onward(c1.tx.phase, c3.tx.phase) /\ c3.rx = c1.rx
    <3>1. CASE c1.tx.phase = "SENDING" /\ tx_all_sent(e, c1.tx)
      <4>1. /\ c1 \in EngineSet(Blocks, e) /\ TxSound(b, c1.tx) /\ Agree(b, c1.tx, d.rx)
            /\ (acks => Reported(c1)) /\ c1.tx \in TxSet(DOMAIN b)
        BY <2>2, WorkHas
      <4>2. c2 = [c1 EXCEPT !.tx = t2]
        BY <4>1 DEF EngineSet, TxSet
      <4>3. "WAIT_DONE" \in TxPhases \ {"NONE", "WAIT_CONFIRM_REQ"}
        BY DEF TxPhases
      <4>4. c1.tx.phase # "DONE"
        BY <3>1
      <4>5. /\ TxSound(b, t2) /\ Agree(b, t2, d.rx) /\ t2.phase = "WAIT_DONE"
            /\ t2.next_seq = c1.tx.next_seq
        BY <4>1, <4>3, <4>4, TxPhase
      <4> HIDE DEF t2, c2
      <4>6. acks => Reports(t2.phase, c1.results["tx"])
        BY <3>1, <4>1, <4>5 DEF Reported, Reports
      <4>7. Work(Blocks, acks, e, c2, d, p, r) /\ c2.tx = t2 /\ c2.rx = c1.rx
        BY <2>2, <4>2, <4>4, <4>5, <4>6, EditTx DEF b
      <4>8. Onward(c1.tx.phase, c2.tx.phase)
        BY <3>1, <4>5, <4>7 DEF Onward, Over
      <4> QED
        BY <3>1, <4>7, <4>8
    <3>2. CASE ~(c1.tx.phase = "SENDING" /\ tx_all_sent(e, c1.tx))
      BY <2>2, <3>2, OnwardAgain
    <3> QED
      BY <3>1, <3>2
  <2> HIDE DEF c3
  <2>4. c3.tx.phase # "NONE"
    BY <1>2, <2>2, <2>3 DEF Onward
  <2> DEFINE h == Finish(e, c3, bad)
  <2>5. /\ Work(Blocks, acks, e, h, d, p, r) /\ h.rx = c3.rx
        /\ Onward(c3.tx.phase, h.tx.phase)
    BY <2>3, <2>4, FinishWorks
  <2> HIDE DEF h
  <2>6. Onward(c.tx.phase, h.tx.phase)
    BY <2>2, <2>3, <2>5, OnwardAgain
  <2> QED
    BY <2>1, <2>2, <2>3, <2>5, <2>6 DEF h
<1> QED
  BY <1>1, <1>2

-----------------------------------------------------------------------------
(***************************************************************************)
(* The two engines together.                                               *)
(***************************************************************************)

\* Engine c of end e and engine d of the other between two handlers, with q on
\* its way to d and r to c.
Pair(B, acks, e, c, d, q, r) ==
  /\ Good(B, acks, e, c, d, q, r) /\ Good(B, acks, Other(e), d, c, r, q)
  /\ c.out = <<>> /\ d.out = <<>>
  /\ ~Alive(c) => r = <<>>
  /\ ~Alive(d) => q = <<>>

\* The files are lists of numbers.
LEMMA FilesAre ==
  ASSUME IndInv, NEW e \in Ends
  PROVE  /\ Blocks[e] \in Seq(Nat) /\ DOMAIN Blocks[e] \subseteq Nat
         /\ \A f \in DOMAIN Blocks[e] : f \in Nat /\ Blocks[e][f] \in Nat
<1>1. Blocks[e] \in Seq(Nat)
  BY DFileAssumption DEF IndInv, Blocks
<1> DEFINE b == Blocks[e]
<1> HIDE DEF b
<1>2. b \in Seq(Nat) => DOMAIN b \subseteq Nat /\ \A f \in DOMAIN b : f \in Nat /\ b[f] \in Nat
  <2> SUFFICES ASSUME b \in Seq(Nat)
               PROVE DOMAIN b \subseteq Nat /\ \A f \in DOMAIN b : f \in Nat /\ b[f] \in Nat
    OBVIOUS
  <2>1. DOMAIN b = 1 .. Len(b) /\ Len(b) \in Nat
    BY LenProperties
  <2> QED
    BY <2>1, ElementOfSeq
<1> QED
  BY <1>1, <1>2 DEF b

\* The invariant, seen from end e.
LEMMA PairOf ==
  ASSUME IndInv, NEW e \in Ends
  PROVE  Pair(Blocks, AcksSent, e, engine[e], engine[Other(e)], ch[Other(e)], ch[e])
<1> DEFINE o == Other(e)
<1>1. o \in Ends /\ Other(o) = e
  BY EndsFacts
<1>2. /\ Good(Blocks, AcksSent, e, engine[e], engine[o], ch[o], ch[e])
      /\ Good(Blocks, AcksSent, o, engine[o], engine[Other(o)], ch[Other(o)], ch[o])
      /\ engine[e].out = <<>> /\ engine[o].out = <<>>
      /\ (~Alive(engine[e]) => ch[e] = <<>>) /\ (~Alive(engine[o]) => ch[o] = <<>>)
  BY <1>1 DEF IndInv
<1> QED
  BY <1>1, <1>2 DEF Pair

\* The invariant in the next state, shown for one of the ends.
LEMMA PairThen ==
  ASSUME IndInv, NEW e \in Ends, env' = env, NEW c, NEW d, NEW q, NEW r,
         Pair(Blocks, AcksSent, e, c, d, q, r),
         engine' \in [Ends -> {c, d}], engine'[e] = c, engine'[Other(e)] = d,
         ch' \in [Ends -> {q, r}], ch'[Other(e)] = q, ch'[e] = r
  PROVE  IndInv'
<1> DEFINE o == Other(e)
<1>1. o \in Ends /\ Other(o) = e /\ \A x \in Ends : x = e \/ x = o
  BY DEF Ends, Other
<1>2. Blocks' = Blocks /\ AcksSent' = AcksSent /\ env' \in Environments
  BY DEF Blocks, AcksSent, Faults, IndInv
<1>3. /\ c \in EngineSet(Blocks, e) /\ d \in EngineSet(Blocks, o)
      /\ q \in Seq(Frames) /\ r \in Seq(Frames)
  BY DEF Pair, Good
<1>4. \A x \in Ends : EngineSet(Blocks, x) \subseteq
                        EngineSet(Blocks, "phone") \cup EngineSet(Blocks, "daemon")
  BY DEF Ends
<1>5. engine' \in [Ends -> EngineSet(Blocks, "phone") \cup EngineSet(Blocks, "daemon")]
  BY <1>1, <1>3, <1>4
<1>6. ch' \in [Ends -> Seq(Frames)]
  BY <1>3
<1>7. ASSUME NEW x \in Ends
      PROVE /\ Good(Blocks, AcksSent, x, engine'[x], engine'[Other(x)], ch'[Other(x)], ch'[x])
            /\ engine'[x].out = <<>>
            /\ ~Alive(engine'[x]) => ch'[x] = <<>>
  <2>1. CASE x = e
    BY <2>1 DEF Pair
  <2>2. CASE x = o
    BY <1>1, <2>2 DEF Pair
  <2> QED
    BY <1>1, <2>1, <2>2
<1> QED
  BY <1>2, <1>5, <1>6, <1>7 DEF IndInv, Alive

\* A change of an engine that leaves its transfers alone.
LEMMA PairKept ==
  ASSUME NEW B, NEW acks, NEW e, NEW c, NEW d, NEW q, NEW r, NEW c1, NEW r1,
         Pair(B, acks, e, c, d, q, r), c1 \in EngineSet(B, e),
         c1.tx = c.tx, c1.rx = c.rx, c1.results = c.results, c1.out = <<>>,
         r1 = r \/ r1 = <<>>, ~Alive(c1) => r1 = <<>>,
         Alive(c1) => Alive(c) /\ r1 = r
  PROVE  Pair(B, acks, e, c1, d, q, r1)
<1>1. \A m : Says(B, e, c, m) => Says(B, e, c1, m)
  BY DEF Says
<1>2. acks => (Reported(c) => Reported(c1))
  BY DEF Reported
<1>3. r1 \in Seq(Frames) /\ \A i \in DOMAIN r1 : Says(B, Other(e), d, r1[i])
  <2>1. r \in Seq(Frames) /\ \A i \in DOMAIN r : Says(B, Other(e), d, r[i])
    BY DEF Pair, Good
  <2> QED
    BY <2>1, Short
<1>4. Good(B, acks, e, c1, d, q, r1)
  BY <1>1, <1>2 DEF Pair, Good
<1>5. Good(B, acks, Other(e), d, c1, r1, q)
  <2>1. Alive(c1) => Flow(B[Other(e)], d.tx.next_seq, c1.rx.expected_seq, r1)
    BY <1>4 DEF Good
  <2> QED
    BY <1>3, <2>1 DEF Pair, Good
<1> QED
  BY <1>4, <1>5 DEF Pair

\* A stream from engine d of end o.
Spoken(B, o, d, r) == r \in Seq(Frames) /\ \A i \in DOMAIN r : Says(B, o, d, r[i])

\* What Commit makes of engine c and the two streams.
Committed(c, d, q, rest, c1, q1, r1) ==
  /\ c1 = [c EXCEPT !.out = <<>>]
  /\ r1 = IF c.state = "CLOSING" THEN <<>> ELSE rest
  /\ q1 = IF Alive(d) THEN q \o c.out ELSE <<>>

\* Committing what a handler has done.
LEMMA PairDone ==
  ASSUME NEW B, NEW acks, NEW e \in Ends, NEW c0, NEW d, NEW q, NEW r, NEW c, NEW rest,
         NEW c1, NEW q1, NEW r1,
         Pair(B, acks, e, c0, d, q, r), Work(B, acks, e, c, d, q, rest),
         Spoken(B, Other(e), d, rest),
         Committed(c, d, q, rest, c1, q1, r1)
  PROVE  Pair(B, acks, e, c1, d, q1, r1)
<1> DEFINE o == Other(e)
           j == q \o c.out
<1>1. /\ c \in EngineSet(B, e) /\ c.state # "CRASHED"
      /\ TxSound(B[e], c.tx) /\ RxSound(B[o], c.rx) /\ (acks => Reported(c))
      /\ Agree(B[e], c.tx, d.rx) /\ Agree(B[o], d.tx, c.rx)
  BY WorkHas
<1>2. /\ j \in Seq(Frames) /\ \A i \in DOMAIN j : Says(B, e, c, j[i])
      /\ (Alive(d) => Flow(B[e], c.tx.next_seq, d.rx.expected_seq, j))
      /\ (Alive(c) => Flow(B[o], d.tx.next_seq, c.rx.expected_seq, rest))
  BY DEF Work, Good
<1>3. /\ c1 \in EngineSet(B, e) /\ c1.state = c.state /\ c1.tx = c.tx /\ c1.rx = c.rx
      /\ c1.results = c.results /\ c1.out = <<>>
  BY <1>1, Short DEF EngineSet, Committed
<1> HIDE DEF j
<1>4. q1 \in Seq(Frames) /\ (Alive(d) => q1 = j) /\ (~Alive(d) => q1 = <<>>)
  BY <1>2, Short DEF j, Committed
<1>5. \A i \in DOMAIN q1 : Says(B, e, c1, q1[i])
  <2>1. \A m : Says(B, e, c, m) => Says(B, e, c1, m)
    BY <1>3 DEF Says
  <2> QED
    BY <1>2, <1>4, <2>1, Short
<1>6. (Alive(c1) => Alive(c) /\ r1 = rest) /\ (~Alive(c1) => r1 = <<>>)
  BY <1>1, <1>3 DEF Alive, EngineSet, States, Committed
<1>7. r1 \in Seq(Frames) /\ \A i \in DOMAIN r1 : Says(B, o, d, r1[i])
  BY Short DEF Spoken, Committed
<1>8. /\ TxSound(B[e], c1.tx) /\ RxSound(B[o], c1.rx)
      /\ Agree(B[e], c1.tx, d.rx) /\ Agree(B[o], d.tx, c1.rx)
      /\ (Alive(d) => Flow(B[e], c1.tx.next_seq, d.rx.expected_seq, q1))
      /\ (Alive(c1) => Flow(B[o], d.tx.next_seq, c1.rx.expected_seq, r1))
  BY <1>1, <1>2, <1>3, <1>4, <1>6
<1>9. acks => Reported(c1)
  BY <1>1, <1>3 DEF Reported
<1>10. /\ d \in EngineSet(B, o) /\ TxSound(B[o], d.tx) /\ RxSound(B[Other(o)], d.rx)
       /\ (acks => Reported(d)) /\ d.out = <<>>
  BY DEF Pair, Good
<1>11. Other(o) = e
  BY EndsFacts
<1>12. Good(B, acks, e, c1, d, q1, r1)
  BY <1>3, <1>4, <1>5, <1>8, <1>9 DEF Good
<1>13. Good(B, acks, o, d, c1, r1, q1)
  BY <1>7, <1>8, <1>10, <1>11 DEF Good
<1> QED
  BY <1>3, <1>4, <1>6, <1>10, <1>12, <1>13 DEF Pair

\* The beginning of a handler: nothing has been written yet.
LEMMA Started ==
  ASSUME IndInv, NEW e \in Ends, Running(e)
  PROVE  /\ Work(Blocks, AcksSent, e, engine[e], engine[Other(e)], ch[Other(e)], ch[e])
         /\ Alive(engine[e])
         /\ Spoken(Blocks, Other(e), engine[Other(e)], ch[e])
         /\ ch[e] # <<>> => Stream(Blocks, e, engine[Other(e)], ch[e])
<1> DEFINE c == engine[e]
           d == engine[Other(e)]
           q == ch[Other(e)]
           r == ch[e]
<1>1. Pair(Blocks, AcksSent, e, c, d, q, r)
  BY PairOf
<1>2. Alive(c)
  BY DEF Running, Alive
<1> HIDE DEF c, d, q, r
<1>3. Good(Blocks, AcksSent, e, c, d, q, r) /\ q \in Seq(Frames) /\ c.out = <<>>
  BY <1>1 DEF Pair, Good
<1>4. q \o c.out = q /\ c.state # "CRASHED"
  BY <1>2, <1>3, ConcatEmptySeq DEF Alive
<1>5. Work(Blocks, AcksSent, e, c, d, q, r)
  BY <1>3, <1>4 DEF Work
<1>6. /\ r \in Seq(Frames) /\ \A i \in DOMAIN r : Says(Blocks, Other(e), d, r[i])
      /\ TxSound(Blocks[Other(e)], d.tx)
  BY <1>1 DEF Pair, Good
<1>7. \A f \in DOMAIN Blocks[Other(e)] : f \in Nat /\ Blocks[Other(e)][f] \in Nat
  BY FilesAre, EndsFacts
<1> QED
  BY <1>2, <1>5, <1>6, <1>7 DEF Stream, Spoken, c, d, q, r

\* Commit keeps the invariant.
LEMMA CommitKeeps ==
  ASSUME IndInv, NEW e \in Ends, NEW c, NEW rest, Commit(e, c, rest),
         Work(Blocks, AcksSent, e, c, engine[Other(e)], ch[Other(e)], rest),
         Spoken(Blocks, Other(e), engine[Other(e)], rest)
  PROVE  IndInv'
<1> DEFINE o == Other(e)
           d == engine[o]
           q == ch[o]
           c1 == [c EXCEPT !.out = <<>>]
           r1 == IF c.state = "CLOSING" THEN <<>> ELSE rest
           q1 == IF Alive(d) THEN q \o c.out ELSE <<>>
<1>1. o \in Ends /\ o # e /\ \A x \in Ends : x = e \/ x = o
  BY DEF Ends, Other
<1>2. engine \in [Ends -> EngineSet(Blocks, "phone") \cup EngineSet(Blocks, "daemon")]
      /\ ch \in [Ends -> Seq(Frames)]
  BY DEF IndInv
<1>3. /\ env' = env /\ engine' = [engine EXCEPT ![e] = c1]
      /\ ch' = [ch EXCEPT ![e] = r1, ![o] = IF Alive(d) THEN @ \o c.out ELSE <<>>]
  BY DEF Commit, Running, Alive
<1>4. Pair(Blocks, AcksSent, e, engine[e], d, q, ch[e])
  BY PairOf
<1>5. Pair(Blocks, AcksSent, e, c1, d, q1, r1)
  <2> DEFINE c0 == engine[e]
             r == ch[e]
  <2>1. Committed(c, d, q, rest, c1, q1, r1)
    BY DEF Committed
  <2>2. /\ Pair(Blocks, AcksSent, e, c0, d, q, r)
        /\ Work(Blocks, AcksSent, e, c, d, q, rest) /\ Spoken(Blocks, Other(e), d, rest)
    BY <1>4
  <2> HIDE DEF c0, r, d, q, c1, r1, q1
  <2> QED
    BY <2>1, <2>2, PairDone
<1> HIDE DEF c1, r1
<1>6. /\ engine' \in [Ends -> {c1, d}] /\ engine'[e] = c1 /\ engine'[o] = d
  BY <1>1, <1>2, <1>3
<1>7. /\ ch' \in [Ends -> {q1, r1}] /\ ch'[o] = q1 /\ ch'[e] = r1
  <2> DEFINE u == IF Alive(d) THEN ch[o] \o c.out ELSE <<>>
  <2>1. ch' = [ch EXCEPT ![e] = r1, ![o] = u] /\ u = q1
    BY <1>1, <1>2, <1>3
  <2> HIDE DEF u, q1
  <2> QED
    BY <1>1, <1>2, <2>1
<1>8. env' = env
  BY <1>3
<1> HIDE DEF q1, d, q
<1> QED
  BY <1>5, <1>6, <1>7, <1>8, PairThen

\* So does a crash.
LEMMA CrashKeeps ==
  ASSUME IndInv, NEW e \in Ends, NEW c, CrashesOn(e, c)
  PROVE  IndInv'
<1> DEFINE o == Other(e)
           d == engine[o]
           q == ch[o]
           c0 == engine[e]
           r == ch[e]
           c1 == [c0 EXCEPT !.state = "CRASHED"]
           r1 == <<>>
<1>1. o \in Ends /\ o # e /\ \A x \in Ends : x = e \/ x = o
  BY DEF Ends, Other
<1>2. engine \in [Ends -> EngineSet(Blocks, "phone") \cup EngineSet(Blocks, "daemon")]
      /\ ch \in [Ends -> Seq(Frames)]
  BY DEF IndInv
<1>3. env' = env /\ engine' = [engine EXCEPT ![e] = c1] /\ ch' = [ch EXCEPT ![e] = r1]
  BY <1>2 DEF CrashesOn
<1>4. Pair(Blocks, AcksSent, e, c0, d, q, r)
  BY PairOf
<1>5. c0 \in EngineSet(Blocks, e) /\ c0.out = <<>>
  BY <1>4 DEF Pair, Good
<1> HIDE DEF c0, d, q, r
<1>6. /\ c1 \in EngineSet(Blocks, e) /\ c1.tx = c0.tx /\ c1.rx = c0.rx
      /\ c1.results = c0.results /\ c1.out = <<>> /\ c1.state = "CRASHED"
  BY <1>5 DEF EngineSet, States
<1> HIDE DEF c1
<1>7. ~Alive(c1)
  BY <1>6 DEF Alive
<1>8. Pair(Blocks, AcksSent, e, c1, d, q, r1)
  BY <1>4, <1>6, <1>7, PairKept
<1> HIDE DEF r1
<1>9. /\ engine' \in [Ends -> {c1, d}] /\ engine'[e] = c1 /\ engine'[o] = d
  BY <1>1, <1>2, <1>3 DEF d
<1>10. /\ ch' \in [Ends -> {q, r1}] /\ ch'[o] = q /\ ch'[e] = r1
  BY <1>1, <1>2, <1>3 DEF q
<1> QED
  BY <1>3, <1>8, <1>9, <1>10, PairThen

\* And so do the callbacks.
LEMMA CallbacksKeep ==
  ASSUME IndInv, NEW e \in Ends, set_callbacks(e)
  PROVE  IndInv'
<1> DEFINE o == Other(e)
           d == engine[o]
           q == ch[o]
           c0 == engine[e]
           r == ch[e]
           c1 == [c0 EXCEPT !.set_up = TRUE]
<1>1. o \in Ends /\ o # e /\ \A x \in Ends : x = e \/ x = o
  BY DEF Ends, Other
<1>2. engine \in [Ends -> EngineSet(Blocks, "phone") \cup EngineSet(Blocks, "daemon")]
      /\ ch \in [Ends -> Seq(Frames)]
  BY DEF IndInv
<1>3. env' = env /\ engine' = [engine EXCEPT ![e] = c1] /\ ch' = ch
  BY <1>2 DEF set_callbacks
<1>4. Pair(Blocks, AcksSent, e, c0, d, q, r)
  BY PairOf
<1>5. c0 \in EngineSet(Blocks, e) /\ c0.out = <<>> /\ (~Alive(c0) => r = <<>>)
  BY <1>4 DEF Pair, Good
<1> HIDE DEF c0, d, q, r
<1>6. /\ c1 \in EngineSet(Blocks, e) /\ c1.tx = c0.tx /\ c1.rx = c0.rx
      /\ c1.results = c0.results /\ c1.out = <<>> /\ c1.state = c0.state
  BY <1>5 DEF EngineSet
<1> HIDE DEF c1
<1>7. (Alive(c1) => Alive(c0) /\ r = r) /\ (~Alive(c1) => r = <<>>)
  BY <1>5, <1>6 DEF Alive
<1>8. Pair(Blocks, AcksSent, e, c1, d, q, r)
  BY <1>4, <1>6, <1>7, PairKept
<1>9. /\ engine' \in [Ends -> {c1, d}] /\ engine'[e] = c1 /\ engine'[o] = d
  BY <1>1, <1>2, <1>3 DEF d
<1>10. /\ ch' \in [Ends -> {q, r}] /\ ch'[o] = q /\ ch'[e] = r
  BY <1>1, <1>2, <1>3 DEF q, r
<1> QED
  BY <1>3, <1>8, <1>9, <1>10, PairThen

\* Closing, for whatever reason.
LEMMA CloseKeeps ==
  ASSUME IndInv, NEW e \in Ends, Running(e),
         Commit(e, shutdown_common(engine[e]), <<>>)
  PROVE  IndInv'
<1> DEFINE c == shutdown_common(engine[e])
           d == engine[Other(e)]
           q == ch[Other(e)]
           r1 == <<>>
<1>1. Work(Blocks, AcksSent, e, engine[e], d, q, ch[e])
  BY Started
<1>2. Work(Blocks, AcksSent, e, c, d, q, ch[e]) /\ c.state = "CLOSING"
  BY <1>1, ShutdownWorks
<1> HIDE DEF c, d, q
<1>3. Work(Blocks, AcksSent, e, c, d, q, r1)
  BY <1>2, Closed
<1>4. Spoken(Blocks, Other(e), d, r1)
  BY Short DEF Spoken
<1>5. Commit(e, c, r1)
  BY DEF c
<1> HIDE DEF r1
<1> QED
  BY <1>3, <1>4, <1>5, CommitKeeps DEF d, q

\* A frame is received.
LEMMA ReceiveKeeps ==
  ASSUME IndInv, NEW e \in Ends, NEW bad, Receive(e, bad)
  PROVE  IndInv'
<1> DEFINE c0 == engine[e]
           d == engine[Other(e)]
           p == ch[Other(e)]
           q == ch[e]
           c == handle_frame(e, c0, Head(q), bad)
           rest == Tail(q)
<1>1. Running(e) /\ q # <<>>
  BY DEF Receive
<1>2. Commit(e, c, rest) \/ CrashesOn(e, c)
  BY DEF Receive
<1>3. /\ Work(Blocks, AcksSent, e, c0, d, p, q) /\ Alive(c0) /\ Spoken(Blocks, Other(e), d, q)
      /\ Stream(Blocks, e, d, q)
  BY <1>1, Started
<1> HIDE DEF c0, d, p, q
<1>4. Work(Blocks, AcksSent, e, c, d, p, rest)
  BY <1>3, FrameWorks
<1> HIDE DEF c
<1>5. Spoken(Blocks, Other(e), d, rest)
  BY <1>1, <1>3, Rest DEF Spoken
<1> HIDE DEF rest
<1>6. CASE Commit(e, c, rest)
  BY <1>4, <1>5, <1>6, CommitKeeps DEF d, p
<1>7. CASE CrashesOn(e, c)
  BY <1>7, CrashKeeps
<1> QED
  BY <1>2, <1>6, <1>7

\* The tick.
LEMMA TickKeeps ==
  ASSUME IndInv, NEW e \in Ends, NEW late, NEW bad \in Faults \cup {"none"},
         on_tick(e, late, bad)
  PROVE  IndInv'
<1> DEFINE c0 == engine[e]
           d == engine[Other(e)]
           p == ch[Other(e)]
           q == ch[e]
           c1 == TickTimeouts(c0, late)
           c2 == TickReceive(e, c1, bad)
           c3 == TickSend(e, c2, late, bad)
           c == TickHeader(c3, late, bad)
<1>1. Running(e) /\ (Commit(e, c, q) \/ CrashesOn(e, c))
  BY DEF on_tick, Running
<1>2. /\ Work(Blocks, AcksSent, e, c0, d, p, q)
      /\ Spoken(Blocks, Other(e), d, q)
  BY <1>1, Started
<1>3. Allowed(AcksSent, bad)
  BY DEF Allowed, AcksSent
<1>4. Blocks[e] \in Seq(Nat) /\ DOMAIN Blocks[Other(e)] \subseteq Nat
  BY FilesAre, EndsFacts
<1> HIDE DEF c0, d, p, q
<1>5. Work(Blocks, AcksSent, e, c1, d, p, q)
  BY <1>2, TimeoutsWork
<1> HIDE DEF c1
<1>6. Work(Blocks, AcksSent, e, c2, d, p, q)
  BY <1>3, <1>4, <1>5, ReceiveTickWorks
<1> HIDE DEF c2
<1>7. Work(Blocks, AcksSent, e, c3, d, p, q)
  BY <1>4, <1>6, SendTickWorks
<1> HIDE DEF c3
<1>8. Work(Blocks, AcksSent, e, c, d, p, q)
  BY <1>7, HeaderWorks
<1> HIDE DEF c
<1>9. CASE Commit(e, c, q)
  BY <1>2, <1>8, <1>9, CommitKeeps DEF d, p
<1>10. CASE CrashesOn(e, c)
  BY <1>10, CrashKeeps
<1> QED
  BY <1>1, <1>9, <1>10

\* Every step keeps the invariant.
LEMMA NextKeeps ==
  IndInv /\ [Next]_vars => IndInv'
<1> SUFFICES ASSUME IndInv, [Next]_vars PROVE IndInv'
  OBVIOUS
<1>1. CASE \E e \in Ends, bad \in Faults \cup {"none"} : Receive(e, bad)
  BY <1>1, ReceiveKeeps
<1>2. CASE \E e \in Ends, late \in SUBSET (Timeouts \ {"negotiate"}),
              bad \in Faults \cup {"none"} : on_tick(e, late, bad)
  BY <1>2, TickKeeps
<1>3. CASE \E e \in Ends : NegotiateTimeout(e)
  <2>1. PICK e \in Ends : NegotiateTimeout(e)
    BY <1>3
  <2>2. Running(e) /\ Commit(e, shutdown_common(engine[e]), <<>>)
    BY <2>1 DEF NegotiateTimeout, Running
  <2> QED
    BY <2>2, CloseKeeps
<1>4. CASE \E e \in Ends : dfile_conn_close(e)
  <2>1. PICK e \in Ends : dfile_conn_close(e)
    BY <1>4
  <2>2. Running(e) /\ Commit(e, shutdown_common(engine[e]), <<>>)
    BY <2>1 DEF dfile_conn_close
  <2> QED
    BY <2>2, CloseKeeps
<1>5. CASE \E e \in Ends : set_callbacks(e)
  BY <1>5, CallbacksKeep
<1>6. CASE UNCHANGED vars
  <2>1. env' = env /\ engine' = engine /\ ch' = ch
    BY <1>6 DEF vars
  <2>2. Blocks' = Blocks /\ AcksSent' = AcksSent
    BY <2>1 DEF Blocks, AcksSent, Faults
  <2> QED
    BY <2>1, <2>2 DEF IndInv, Alive
<1> QED
  BY <1>1, <1>2, <1>3, <1>4, <1>5, <1>6 DEF Next

-----------------------------------------------------------------------------
(***************************************************************************)
(* Theorems.                                                               *)
(***************************************************************************)

\* The first engine c of end e and d of the other; q and r are the SETTINGs.
LEMMA StartGood ==
  ASSUME NEW acks, NEW e \in Ends, NEW c, NEW d, NEW q, NEW r, NEW su, su \in BOOLEAN,
         c = [state |-> "NEGOTIATING", set_up |-> su, tx |-> NewTx(e, "NONE"),
              rx |-> NewRx(e, "NONE"), results |-> [dir \in {"tx", "rx"} |-> 0],
              out |-> <<>>],
         d.tx = NewTx(Other(e), "NONE"), d.rx = NewRx(Other(e), "NONE"),
         q = <<Simple("SETTING")>>, r = <<Simple("SETTING")>>,
         \A f \in DOMAIN Blocks[e] : Blocks[e][f] \in Nat
  PROVE  Good(Blocks, acks, e, c, d, q, r)
<1> DEFINE b == Blocks[e]
           bo == Blocks[Other(e)]
           t == NewTx(e, "NONE")
           x == NewRx(e, "NONE")
           to == NewTx(Other(e), "NONE")
           xo == NewRx(Other(e), "NONE")
<1>1. Other(Other(e)) = e
  BY EndsFacts
<1>2. /\ t \in TxSet(DOMAIN b) /\ t.phase = "NONE" /\ t.done_received = FALSE
      /\ t.ctrl_retries = 0 /\ t.next_seq = [f \in DOMAIN b |-> 0]
      /\ t.retrans = [f \in DOMAIN b |-> 0] /\ t.acked = [f \in DOMAIN b |-> 0]
  BY Limits DEF NewTx, TxSet, TxPhases, Files
<1>3. /\ x \in RxSet(DOMAIN bo) /\ x.phase = "NONE" /\ x.done_sent = FALSE
      /\ x.expected_seq = [f \in DOMAIN bo |-> 0]
  BY DEF NewRx, RxSet, RxPhases, Files
<1>4. /\ to.phase = "NONE" /\ to.done_received = FALSE
      /\ to.next_seq = [f \in DOMAIN bo |-> 0] /\ to.acked = [f \in DOMAIN bo |-> 0]
  BY DEF NewTx, Files
<1>5. xo.phase = "NONE" /\ xo.done_sent = FALSE /\ xo.expected_seq = [f \in DOMAIN b |-> 0]
  BY <1>1 DEF NewRx, Files
<1> DEFINE n == [dir \in {"tx", "rx"} |-> 0]
<1>6. n \in [{"tx", "rx"} -> Nat] /\ n["tx"] = 0 /\ n["rx"] = 0
  OBVIOUS
<1> HIDE DEF t, x, to, xo, n
<1>7. /\ c.tx = t /\ c.rx = x /\ c.results = n /\ c.out = <<>> /\ d.tx = to /\ d.rx = xo
      /\ c.state = "NEGOTIATING"
  BY DEF t, x, to, xo, n
<1>8. c \in EngineSet(Blocks, e)
  <2>1. c = [state |-> "NEGOTIATING", set_up |-> su, tx |-> t, rx |-> x, results |-> n,
             out |-> <<>>]
    BY DEF t, x, n
  <2> QED
    BY <1>2, <1>3, <1>6, <2>1, Short DEF EngineSet, States
<1>9. TxSound(b, t)
  BY <1>2 DEF TxSound
<1>10. RxSound(bo, x)
  BY <1>3 DEF RxSound
<1>11. Reported(c)
  BY <1>2, <1>3, <1>6, <1>7 DEF Reported, Reports
<1>12. Agree(b, t, xo) /\ Agree(bo, to, x)
  BY <1>2, <1>3, <1>4, <1>5 DEF Agree
<1>13. Simple("SETTING") \in Frames /\ Simple("SETTING").type = "SETTING"
  BY FrameTypes
<1>14. q \in Seq(Frames) /\ q = r /\ \A i \in DOMAIN q : q[i] = Simple("SETTING")
  BY <1>13, Short
<1>15. \A i \in DOMAIN q : Says(Blocks, e, c, q[i]) /\ q[i].type # "DATA"
  BY <1>13, <1>14, PlainSays DEF PlainTypes
<1>16. Flow(b, t.next_seq, xo.expected_seq, q) /\ Flow(bo, to.next_seq, x.expected_seq, r)
  BY <1>2, <1>4, <1>14, <1>15 DEF Flow, InOrder, Covered
<1> QED
  BY <1>7, <1>8, <1>9, <1>10, <1>11, <1>12, <1>14, <1>15, <1>16 DEF Good

\* It holds when both engines have started.
LEMMA InitInv == Init => IndInv
<1> SUFFICES ASSUME Init PROVE IndInv
  OBVIOUS
<1>1. /\ env \in Environments
      /\ ch = [e \in Ends |-> <<Simple("SETTING")>>]
  BY DEF Init
<1>2. ASSUME NEW e \in Ends
      PROVE engine[e] = [state |-> "NEGOTIATING", set_up |-> e \notin env.set_up_late,
              tx |-> NewTx(e, "NONE"), rx |-> NewRx(e, "NONE"),
              results |-> [dir \in {"tx", "rx"} |-> 0], out |-> <<>>]
  BY DEF Init
<1>3. ASSUME NEW e \in Ends
      PROVE /\ Good(Blocks, AcksSent, e, engine[e], engine[Other(e)], ch[Other(e)], ch[e])
            /\ engine[e].out = <<>> /\ Alive(engine[e])
  <2> DEFINE su == e \notin env.set_up_late
             c == engine[e]
             d == engine[Other(e)]
             q == ch[Other(e)]
             r == ch[e]
  <2>1. Other(e) \in Ends
    BY EndsFacts
  <2>2. su \in BOOLEAN
    OBVIOUS
  <2> HIDE DEF su
  <2>3. c = [state |-> "NEGOTIATING", set_up |-> su, tx |-> NewTx(e, "NONE"),
             rx |-> NewRx(e, "NONE"), results |-> [dir \in {"tx", "rx"} |-> 0],
             out |-> <<>>]
    BY <1>2 DEF su
  <2>4. d.tx = NewTx(Other(e), "NONE") /\ d.rx = NewRx(Other(e), "NONE")
    <3> DEFINE o == Other(e)
               so == o \notin env.set_up_late
               t == NewTx(o, "NONE")
               x == NewRx(o, "NONE")
               n == [dir \in {"tx", "rx"} |-> 0]
    <3>1. d = [state |-> "NEGOTIATING", set_up |-> so, tx |-> t, rx |-> x,
               results |-> n, out |-> <<>>]
      BY <1>2, <2>1
    <3> HIDE DEF so, t, x, n, d
    <3>2. d.tx = t /\ d.rx = x
      BY <3>1
    <3> QED
      BY <3>2 DEF t, x
  <2>5. q = <<Simple("SETTING")>> /\ r = <<Simple("SETTING")>>
    BY <1>1, <2>1
  <2>6. Blocks[e] \in Seq(Nat)
    BY <1>1, DFileAssumption DEF Blocks
  <2>7. \A f \in DOMAIN Blocks[e] : Blocks[e][f] \in Nat
    <3> DEFINE b == Blocks[e]
    <3> HIDE DEF b
    <3>1. b \in Seq(Nat)
      BY <2>6 DEF b
    <3>2. \A f \in DOMAIN b : b[f] \in Nat
      BY <3>1, LenProperties, ElementOfSeq
    <3> QED
      BY <3>2 DEF b
  <2> HIDE DEF c, d, q, r
  <2>8. Good(Blocks, AcksSent, e, c, d, q, r)
    BY <2>2, <2>3, <2>4, <2>5, <2>7, StartGood
  <2>9. c.out = <<>> /\ c.state = "NEGOTIATING"
    BY <2>3
  <2> QED
    BY <2>8, <2>9 DEF Alive, c, d, q, r
<1>4. engine \in [Ends -> EngineSet(Blocks, "phone") \cup EngineSet(Blocks, "daemon")]
  <2>1. \A e \in Ends : engine[e] \in EngineSet(Blocks, e)
    BY <1>3 DEF Good
  <2>2. \A e \in Ends : engine[e] \in EngineSet(Blocks, "phone") \cup EngineSet(Blocks, "daemon")
    BY <2>1 DEF Ends
  <2>3. engine = [e \in Ends |-> engine[e]]
    BY DEF Init
  <2> QED
    BY <2>2, <2>3
<1>5. ch \in [Ends -> Seq(Frames)]
  BY <1>1, Short, FrameTypes
<1> QED
  BY <1>1, <1>3, <1>4, <1>5 DEF IndInv

\* In every reachable state the two engines and the stream between them are as
\* the handlers of dfile_conn.c leave them, whatever the files, the faults, the
\* timers and the order of the steps.
THEOREM DFileInvariant == Spec => []IndInv
<1>1. Init => IndInv
  BY InitInv
<1>2. IndInv /\ [Next]_vars => IndInv'
  BY NextKeeps
<1> QED
  BY <1>1, <1>2, PTL DEF Spec

\* What the invariant says of end e, in the words of the properties.
LEMMA Meaning ==
  ASSUME IndInv, NEW e \in Ends
  PROVE  /\ engine[e] \in EngineSet(Blocks, e)
         /\ TxSound(Blocks[e], engine[e].tx)
         /\ RxSound(Blocks[Other(e)], engine[e].rx)
         /\ Agree(Blocks[e], engine[e].tx, engine[Other(e)].rx)
         /\ Agree(Blocks[Other(e)], engine[Other(e)].tx, engine[e].rx)
         /\ ch[e] \in Seq(Frames)
         /\ AcksSent => Reported(engine[e])
BY PairOf DEF Pair, Good

\* The numbers of blocks sent and written stay within the files, and the
\* engines and frames have their types.
THEOREM DFileTypeCorrect == Spec => []TypeOK
<1>1. IndInv => TypeOK
  <2> SUFFICES ASSUME IndInv, NEW e \in Ends
      PROVE /\ engine[e].state \in {"NEGOTIATING", "READY", "CLOSING", "CRASHED"}
            /\ engine[e].set_up \in BOOLEAN
            /\ engine[e].tx \in TxTrans(e)
            /\ engine[e].rx \in RxTrans(e)
            /\ engine[e].results \in [{"tx", "rx"} -> Nat]
            /\ engine[e].out = <<>>
            /\ \A f \in Files(e) :
                 /\ engine[e].tx.retrans[f] <= engine[e].tx.next_seq[f]
                 /\ engine[e].tx.next_seq[f] <= Blocks[e][f]
                 /\ engine[Other(e)].rx.expected_seq[f] <= Blocks[e][f]
            /\ \A i \in DOMAIN ch[e] : ch[e][i] \in Frame \/ ch[e][i].type = "ACK"
    BY DEF TypeOK, IndInv
  <2> DEFINE c == engine[e]
             d == engine[Other(e)]
             q == ch[e]
             b == Blocks[e]
  <2>1. /\ c \in EngineSet(Blocks, e) /\ TxSound(b, c.tx) /\ Agree(b, c.tx, d.rx)
        /\ q \in Seq(Frames)
    BY Meaning
  <2>2. c.out = <<>>
    BY DEF IndInv
  <2> HIDE DEF c, d, q
  <2>3. /\ c.state \in {"NEGOTIATING", "READY", "CLOSING", "CRASHED"}
        /\ c.set_up \in BOOLEAN /\ c.results \in [{"tx", "rx"} -> Nat]
        /\ c.tx \in TxTrans(e) /\ c.rx \in RxTrans(e)
    BY <2>1 DEF EngineSet, States, TxSet, RxSet, TxPhases, RxPhases, TxTrans, RxTrans, Files
  <2>4. ASSUME NEW f \in DOMAIN b
        PROVE /\ c.tx.retrans[f] <= c.tx.next_seq[f] /\ c.tx.next_seq[f] <= b[f]
              /\ d.rx.expected_seq[f] <= b[f]
    <3>1. /\ c.tx.retrans[f] <= c.tx.next_seq[f] /\ c.tx.next_seq[f] <= b[f]
          /\ c.tx.next_seq[f] \in Nat
      BY <2>1 DEF TxSound, TxSet
    <3>2. d.rx.expected_seq[f] \in Nat /\ d.rx.expected_seq[f] <= c.tx.next_seq[f]
      BY <2>1 DEF Agree
    <3>3. b[f] \in Nat
      BY FilesAre
    <3> QED
      BY <3>1, <3>2, <3>3
  <2>5. \A i \in DOMAIN q : q[i] \in Frame \/ q[i].type = "ACK"
    <3>1. \A i \in DOMAIN q : q[i] \in Frames
      BY <2>1, LenProperties, ElementOfSeq
    <3>2. \A m \in Frames : m \in Frame \/ m.type = "ACK"
      BY DEF Frames, AckFrame
    <3> QED
      BY <3>1, <3>2
  <2> QED
    BY <2>2, <2>3, <2>4, <2>5 DEF c, d, q, Files
<1> QED
  BY <1>1, DFileInvariant, PTL

\* A sender reports success only when all of its files are written and
\* verified at the other end (tx_finish against rx_send_done).
THEOREM SentMeansVerifiedHolds == Spec => []SentMeansVerified
<1>1. IndInv => SentMeansVerified
  <2> SUFFICES ASSUME IndInv, NEW e \in Ends, engine[e].tx.phase = "DONE"
               PROVE /\ AllWritten(Other(e), engine[Other(e)].rx)
                     /\ engine[Other(e)].rx.done_sent
    BY DEF SentMeansVerified
  <2>1. Other(e) \in Ends /\ Other(Other(e)) = e
    BY EndsFacts
  <2>2. engine[Other(e)].rx.done_sent
    BY Meaning DEF Agree
  <2>3. RxSound(Blocks[e], engine[Other(e)].rx)
    BY <2>1, Meaning
  <2> QED
    BY <2>1, <2>2, <2>3 DEF RxSound, AllWritten, Files
<1> QED
  BY <1>1, DFileInvariant, PTL

\* A receiver reports success only for a transfer that its sender has reported
\* as successful (handle_doneack against tx_finish).
THEOREM ReceivedMeansSentHolds == Spec => []ReceivedMeansSent
<1>1. IndInv => ReceivedMeansSent
  BY Meaning DEF ReceivedMeansSent, Agree
<1> QED
  BY <1>1, DFileInvariant, PTL

\* A block is acknowledged only after it has been written (rx_flush_ack,
\* handle_ack), so none is dropped from the retransmit list too early.
THEOREM AckedIsWrittenHolds == Spec => []AckedIsWritten
<1>1. IndInv => AckedIsWritten
  BY Meaning DEF AckedIsWritten, Agree, Files
<1> QED
  BY <1>1, DFileInvariant, PTL

\* A receiver that waits for data finds the next block or an earlier one, never
\* a gap and never a block beyond the end (tx_pump against handle_data).
THEOREM NoGapHolds == Spec => []NoGap
<1>1. IndInv => NoGap
  <2> SUFFICES ASSUME IndInv, NEW e \in Ends, ch[e] # <<>>, Head(ch[e]).type = "DATA"
      PROVE /\ Head(ch[e]).seq <= engine[e].rx.expected_seq[Head(ch[e]).file]
            /\ Head(ch[e]).seq < Blocks[Other(e)][Head(ch[e]).file]
    BY DEF NoGap
  <2> DEFINE c == engine[e]
             d == engine[Other(e)]
             q == ch[e]
  <2>1. Alive(c)
    BY DEF IndInv
  <2>2. Running(e)
    BY <2>1 DEF Running, Alive
  <2>3. /\ Work(Blocks, AcksSent, e, c, d, ch[Other(e)], q) /\ Stream(Blocks, e, d, q)
    BY <2>2, Started
  <2> HIDE DEF c, d, q
  <2>4. Head(q).type = "DATA"
    BY DEF q
  <2>5. /\ Head(q).seq <= c.rx.expected_seq[Head(q).file]
        /\ Head(q).seq < Blocks[Other(e)][Head(q).file]
    BY <2>1, <2>3, <2>4, FirstBlock
  <2> QED
    BY <2>5 DEF c, q
<1> QED
  BY <1>1, DFileInvariant, PTL

\* No environment lets the send of an acknowledgement fail.
AcksSend == \A x \in Environments : "send ack" \notin x.faults

\* Each transfer is reported at most once, provided that an acknowledgement can
\* be sent: rx_flush_ack otherwise fails a transfer that TickReceive then goes
\* on with.
THEOREM OneResultHolds == ASSUME AcksSend PROVE Spec => []OneResult
<1>1. IndInv => OneResult
  <2> SUFFICES ASSUME IndInv, NEW e \in Ends, NEW dir \in {"tx", "rx"}
               PROVE engine[e].results[dir] <= 1
    BY DEF OneResult
  <2>1. AcksSent
    BY DEF AcksSend, AcksSent, IndInv, Faults
  <2>2. Reported(engine[e])
    BY <2>1, Meaning
  <2> QED
    BY <2>2 DEF Reported, Reports
<1> QED
  BY <1>1, DFileInvariant, PTL

-----------------------------------------------------------------------------
(***************************************************************************)
(* The abstract transfer.  What a step of one end does to its transfers is *)
(* a Turn; with the invariant before and after it, a Turn is a step of     *)
(* FileTransfer for the files it sends and one for those it receives.      *)
(***************************************************************************)

\* End e takes a turn; the other does nothing.
EndTurn(e) ==
  /\ env' = env
  /\ engine'[Other(e)] = engine[Other(e)]
  /\ Turn(Blocks, e, engine[e], engine'[e])

\* A handler whose result is committed.
LEMMA CommitTurn ==
  ASSUME IndInv, NEW e \in Ends, NEW c, NEW rest, Commit(e, c, rest),
         c \in EngineSet(Blocks, e), Turn(Blocks, e, engine[e], c)
  PROVE  EndTurn(e)
<1> DEFINE c1 == [c EXCEPT !.out = <<>>]
<1>1. env' = env /\ engine' = [engine EXCEPT ![e] = c1]
  BY DEF Commit
<1>2. c1.tx = c.tx /\ c1.rx = c.rx
  BY DEF EngineSet
<1> HIDE DEF c1
<1>3. engine'[e] = c1 /\ engine'[Other(e)] = engine[Other(e)]
  BY <1>1 DEF IndInv, Ends, Other
<1> QED
  BY <1>1, <1>2, <1>3 DEF EndTurn, Turn

\* A step that leaves both transfers of e as they are.
LEMMA IdleTurn ==
  ASSUME IndInv, NEW e \in Ends, NEW c1, env' = env, engine' = [engine EXCEPT ![e] = c1],
         c1.tx = engine[e].tx, c1.rx = engine[e].rx
  PROVE  EndTurn(e)
<1>1. engine'[e] = c1 /\ engine'[Other(e)] = engine[Other(e)]
  BY DEF IndInv, Ends, Other
<1>2. Moves(engine[e], c1)
  BY OnwardAgain DEF Moves, RxOnward
<1>3. Turn(Blocks, e, engine[e], c1)
  BY <1>2, TurnFrom
<1> QED
  BY <1>1, <1>3 DEF EndTurn

\* A crash.
LEMMA CrashTurn ==
  ASSUME IndInv, NEW e \in Ends, NEW c, CrashesOn(e, c)
  PROVE  EndTurn(e)
<1> DEFINE c1 == [engine[e] EXCEPT !.state = "CRASHED"]
<1>1. engine[e] \in EngineSet(Blocks, e)
  BY Meaning
<1>2. env' = env /\ engine' = [engine EXCEPT ![e] = c1]
  BY DEF CrashesOn, IndInv
<1>3. c1.tx = engine[e].tx /\ c1.rx = engine[e].rx
  BY <1>1 DEF EngineSet
<1> HIDE DEF c1
<1> QED
  BY <1>2, <1>3, IdleTurn

\* The callbacks.
LEMMA CallbacksTurn ==
  ASSUME IndInv, NEW e \in Ends, set_callbacks(e)
  PROVE  EndTurn(e)
<1> DEFINE c1 == [engine[e] EXCEPT !.set_up = TRUE]
<1>1. engine[e] \in EngineSet(Blocks, e)
  BY Meaning
<1>2. env' = env /\ engine' = [engine EXCEPT ![e] = c1]
  BY DEF set_callbacks, IndInv
<1>3. c1.tx = engine[e].tx /\ c1.rx = engine[e].rx
  BY <1>1 DEF EngineSet
<1> HIDE DEF c1
<1> QED
  BY <1>2, <1>3, IdleTurn

\* Closing.
LEMMA CloseTurn ==
  ASSUME IndInv, NEW e \in Ends, Running(e),
         Commit(e, shutdown_common(engine[e]), <<>>)
  PROVE  EndTurn(e)
<1> DEFINE c == shutdown_common(engine[e])
           r1 == <<>>
<1>1. Work(Blocks, AcksSent, e, engine[e], engine[Other(e)], ch[Other(e)], ch[e])
  BY Started
<1>2. /\ Work(Blocks, AcksSent, e, c, engine[Other(e)], ch[Other(e)], ch[e])
      /\ Moves(engine[e], c)
  BY <1>1, ShutdownWorks
<1>3. Commit(e, c, r1)
  OBVIOUS
<1> HIDE DEF c, r1
<1>4. c \in EngineSet(Blocks, e)
  BY <1>2 DEF Work, Good
<1>5. Turn(Blocks, e, engine[e], c)
  BY <1>2, TurnFrom
<1> QED
  BY <1>3, <1>4, <1>5, CommitTurn

\* A frame.
LEMMA ReceiveTurn ==
  ASSUME IndInv, NEW e \in Ends, NEW bad, Receive(e, bad)
  PROVE  EndTurn(e)
<1> DEFINE d == engine[Other(e)]
           p == ch[Other(e)]
           q == ch[e]
           c == handle_frame(e, engine[e], Head(q), bad)
           rest == Tail(q)
<1>1. Running(e) /\ q # <<>> /\ (Commit(e, c, rest) \/ CrashesOn(e, c))
  BY DEF Receive
<1>2. /\ Work(Blocks, AcksSent, e, engine[e], d, p, q) /\ Alive(engine[e])
      /\ Stream(Blocks, e, d, q)
  BY <1>1, Started
<1> HIDE DEF d, p, q
<1>3. Work(Blocks, AcksSent, e, c, d, p, rest) /\ Turn(Blocks, e, engine[e], c)
  BY <1>2, FrameWorks
<1> HIDE DEF c, rest
<1>4. c \in EngineSet(Blocks, e)
  BY <1>3 DEF Work, Good
<1> QED
  BY <1>1, <1>3, <1>4, CommitTurn, CrashTurn

\* Timeouts, then acknowledgements and DONE.
LEMMA RxTwice ==
  ASSUME NEW b, NEW x, NEW x1, NEW x2, RxOnward(x, x1),
         RxOnward(x1, x2) \/ Verifies(b, x1, x2)
  PROVE  RxTurn(b, x, x2)
BY DEF RxTurn, RxOnward, Verifies, Onward, Over

\* The tick.
LEMMA TickTurn ==
  ASSUME IndInv, AcksSent, NEW e \in Ends, NEW late, NEW bad \in Faults \cup {"none"},
         on_tick(e, late, bad)
  PROVE  EndTurn(e)
<1> DEFINE c0 == engine[e]
           d == engine[Other(e)]
           p == ch[Other(e)]
           q == ch[e]
           c1 == TickTimeouts(c0, late)
           c2 == TickReceive(e, c1, bad)
           c3 == TickSend(e, c2, late, bad)
           c == TickHeader(c3, late, bad)
           b == Blocks[Other(e)]
           acks == AcksSent
<1>1. Running(e) /\ (Commit(e, c, q) \/ CrashesOn(e, c))
  BY DEF on_tick, Running
<1>2. Work(Blocks, acks, e, c0, d, p, q)
  BY <1>1, Started
<1>3. Allowed(acks, bad) /\ acks
  BY DEF Allowed, AcksSent
<1>4. Blocks[e] \in Seq(Nat) /\ DOMAIN b \subseteq Nat
  BY FilesAre, EndsFacts
<1> HIDE DEF c0, d, p, q, acks
<1>5. Work(Blocks, acks, e, c1, d, p, q) /\ Moves(c0, c1)
  BY <1>2, TimeoutsWork
<1> HIDE DEF c1
<1>6. /\ Work(Blocks, acks, e, c2, d, p, q) /\ c2.tx = c1.tx
      /\ RxOnward(c1.rx, c2.rx) \/ Verifies(b, c1.rx, c2.rx)
  <2>1. Work(Blocks, acks, e, c1, d, p, q)
    BY <1>5
  <2>2. DOMAIN Blocks[Other(e)] \subseteq Nat /\ Allowed(acks, bad)
    BY <1>3, <1>4
  <2> DEFINE h == TickReceive(e, c1, bad)
  <2>3. /\ Work(Blocks, acks, e, h, d, p, q) /\ h.tx = c1.tx
        /\ acks => RxOnward(c1.rx, h.rx) \/ Verifies(Blocks[Other(e)], c1.rx, h.rx)
    BY <2>1, <2>2, ReceiveTickWorks
  <2> HIDE DEF h
  <2> QED
    BY <1>3, <2>3 DEF h
<1> HIDE DEF c2
<1>7. /\ Work(Blocks, acks, e, c3, d, p, q)
      /\ Onward(c2.tx.phase, c3.tx.phase) /\ c3.rx = c2.rx
  <2>1. Work(Blocks, acks, e, c2, d, p, q)
    BY <1>6
  <2>2. Blocks[e] \in Seq(Nat)
    BY <1>4
  <2> QED
    BY <2>1, <2>2, SendTickWorks
<1> HIDE DEF c3
<1>8. /\ Work(Blocks, acks, e, c, d, p, q)
      /\ Onward(c3.tx.phase, c.tx.phase) /\ c.rx = c3.rx
  BY <1>7, HeaderWorks
<1> HIDE DEF c
<1>9. c \in EngineSet(Blocks, e)
  BY <1>8 DEF Work, Good
<1>10. Turn(Blocks, e, c0, c)
  <2>1. Onward(c0.tx.phase, c.tx.phase)
    BY <1>5, <1>6, <1>7, <1>8, OnwardAgain DEF Moves
  <2>2. RxTurn(b, c0.rx, c.rx)
    BY <1>5, <1>6, <1>7, <1>8, RxTwice DEF Moves
  <2> QED
    BY <2>1, <2>2 DEF Turn, TxTurn
<1> QED
  BY <1>1, <1>9, <1>10, CommitTurn, CrashTurn DEF c0

\* Every step is a turn of one end.
LEMMA NextTurn ==
  ASSUME IndInv, AcksSent, [Next]_vars
  PROVE  \E e \in Ends : EndTurn(e)
<1>1. CASE \E e \in Ends, bad \in Faults \cup {"none"} : Receive(e, bad)
  BY <1>1, ReceiveTurn
<1>2. CASE \E e \in Ends, late \in SUBSET (Timeouts \ {"negotiate"}),
              bad \in Faults \cup {"none"} : on_tick(e, late, bad)
  BY <1>2, TickTurn
<1>3. CASE \E e \in Ends : NegotiateTimeout(e)
  <2>1. PICK e \in Ends : NegotiateTimeout(e)
    BY <1>3
  <2>2. Running(e) /\ Commit(e, shutdown_common(engine[e]), <<>>)
    BY <2>1 DEF NegotiateTimeout, Running
  <2> QED
    BY <2>2, CloseTurn
<1>4. CASE \E e \in Ends : dfile_conn_close(e)
  <2>1. PICK e \in Ends : dfile_conn_close(e)
    BY <1>4
  <2>2. Running(e) /\ Commit(e, shutdown_common(engine[e]), <<>>)
    BY <2>1 DEF dfile_conn_close
  <2> QED
    BY <2>2, CloseTurn
<1>5. CASE \E e \in Ends : set_callbacks(e)
  BY <1>5, CallbacksTurn
<1>6. CASE UNCHANGED vars
  <2> DEFINE e == "phone"
             c1 == engine[e]
  <2>1. e \in Ends /\ env' = env /\ engine' = [engine EXCEPT ![e] = c1]
    BY <1>6 DEF vars, Ends, IndInv
  <2>2. EndTurn(e)
    BY <2>1, IdleTurn
  <2> QED
    BY <2>1, <2>2
<1> QED
  BY <1>1, <1>2, <1>3, <1>4, <1>5, <1>6 DEF Next

\* What a turn of the sender changes.
LEMMA SenderTurns ==
  ASSUME NEW b, NEW t, NEW t1, NEW x, TxTurn(t.phase, t1.phase), Agree(b, t1, x)
  PROVE  \/ Status(t1.phase) = Status(t.phase)
         \/ Status(t.phase) = "none" /\ Status(t1.phase) = "active"
         \/ /\ Status(t.phase) = "active"
            /\ Status(t1.phase) = "failed" \/ (x.done_sent /\ Status(t1.phase) = "ok")
<1>1. t1.phase = "DONE" => x.done_sent
  BY DEF Agree
<1> QED
  BY <1>1 DEF TxTurn, Onward, Over, Status

\* What a turn of the receiver changes.
RxKept(x, x1) ==
  x1.expected_seq = x.expected_seq /\ x1.done_sent = x.done_sent

LEMMA ReceiverTurns ==
  ASSUME NEW b, NEW t, NEW x, NEW x1, RxTurn(b, x, x1),
         b \in Seq(Nat), TxSound(b, t), RxSound(b, x), RxSound(b, x1),
         Agree(b, t, x), Agree(b, t, x1)
  PROVE  LET r == Status(x.phase)
             r1 == Status(x1.phase) IN
         \/ r1 = r /\ RxKept(x, x1)
         \/ /\ r = "none" /\ Status(t.phase) # "none" /\ r1 \in {"active", "failed"}
            /\ RxKept(x, x1)
         \/ /\ r = "active" /\ r1 = r /\ x1.done_sent = x.done_sent
            /\ \E f \in DOMAIN b : /\ x.expected_seq[f] < b[f]
                                   /\ x1.expected_seq = [x.expected_seq EXCEPT ![f] = @ + 1]
         \/ /\ r = "active" /\ r1 = r /\ ~x.done_sent /\ x1.done_sent = TRUE
            /\ x.expected_seq = b /\ x1.expected_seq = x.expected_seq
         \/ /\ r = "active" /\ RxKept(x, x1)
            /\ r1 = "failed" \/ (Status(t.phase) = "ok" /\ r1 = "ok")
<1>1. x1.phase # "NONE" => t.phase # "NONE"
  BY DEF Agree
<1>2. x1.phase = "DONE" => t.phase = "DONE"
  BY DEF Agree
<1>3. CASE RxOnward(x, x1)
  <2>1. RxKept(x, x1) /\ Onward(x.phase, x1.phase)
    BY <1>3 DEF RxOnward, RxKept
  <2> QED
    BY <1>2, <2>1 DEF Onward, Over, Status
<1>4. CASE Accepts(x, x1)
  <2>1. RxKept(x, x1) /\ x.phase = "NONE" /\ x1.phase \notin {"NONE", "DONE"}
    BY <1>4 DEF Accepts, RxKept
  <2> QED
    BY <1>1, <2>1 DEF Status
<1>5. CASE Writes(b, x, x1)
  <2>1. Status(x.phase) = "active" /\ Status(x1.phase) = "active"
    BY <1>5 DEF Writes, Over, Status
  <2> QED
    BY <1>5, <2>1 DEF Writes
<1>6. CASE Verifies(b, x, x1)
  <2>1. Status(x.phase) = "active" /\ Status(x1.phase) = "active"
    BY <1>6 DEF Verifies, Over, Status
  <2>2. x1.done_sent = TRUE
    BY <1>6 DEF Verifies, RxSound, RxSet
  <2>3. x.expected_seq = b
    <3> DEFINE y == x.expected_seq
    <3>1. y \in [DOMAIN b -> Nat] /\ b \in [DOMAIN b -> Nat]
      BY LenProperties DEF RxSound, RxSet
    <3>2. ASSUME NEW f \in DOMAIN b PROVE y[f] = b[f]
      <4>1. y[f] >= b[f] /\ y[f] <= t.next_seq[f] /\ t.next_seq[f] <= b[f]
        BY <1>6 DEF Verifies, Agree, TxSound
      <4>2. t.next_seq[f] \in Nat /\ y[f] \in Nat /\ b[f] \in Nat
        BY <3>1 DEF TxSound, TxSet
      <4> QED
        BY <4>1, <4>2
    <3> HIDE DEF y
    <3>3. y = b
      BY <3>1, <3>2
    <3> QED
      BY <3>3 DEF y
  <2> QED
    BY <1>6, <2>1, <2>2, <2>3 DEF Verifies
<1> QED
  BY <1>3, <1>4, <1>5, <1>6 DEF RxTurn

\* What a step does to the transfer of e's files, as the applications see it.
Transferred(e) ==
  LET b  == Blocks[e]
      t  == engine[e].tx
      t1 == engine'[e].tx
      x  == engine[Other(e)].rx
      x1 == engine'[Other(e)].rx
      s  == Status(t.phase)
      s1 == Status(t1.phase)
      r  == Status(x.phase)
      r1 == Status(x1.phase)
  IN \/ s1 = s /\ r1 = r /\ RxKept(x, x1)
     \/ s = "none" /\ s1 = "active" /\ r1 = r /\ RxKept(x, x1)
     \/ /\ r = "none" /\ s # "none" /\ r1 \in {"active", "failed"}
        /\ s1 = s /\ RxKept(x, x1)
     \/ /\ r = "active" /\ s1 = s /\ r1 = r /\ x1.done_sent = x.done_sent
        /\ \E f \in DOMAIN b : /\ x.expected_seq[f] < b[f]
                               /\ x1.expected_seq = [x.expected_seq EXCEPT ![f] = @ + 1]
     \/ /\ r = "active" /\ ~x.done_sent /\ x.expected_seq = b
        /\ s1 = s /\ r1 = r /\ x1.done_sent = TRUE /\ x1.expected_seq = x.expected_seq
     \/ /\ s = "active" /\ (s1 = "failed" \/ (x.done_sent /\ s1 = "ok"))
        /\ r1 = r /\ RxKept(x, x1)
     \/ /\ r = "active" /\ (r1 = "failed" \/ (s = "ok" /\ r1 = "ok"))
        /\ s1 = s /\ RxKept(x, x1)

LEMMA StepTransfers ==
  ASSUME IndInv, IndInv', AcksSent, [Next]_vars, NEW e \in Ends
  PROVE  Transferred(e) /\ Blocks' = Blocks
<1> DEFINE o == Other(e)
           b == Blocks[e]
           t == engine[e].tx
           t1 == engine'[e].tx
           x == engine[o].rx
           x1 == engine'[o].rx
<1>0. o \in Ends /\ Other(o) = e /\ \A a \in Ends : a = e \/ a = o
  BY EndsFacts DEF Ends, Other
<1>1. PICK a \in Ends : EndTurn(a)
  BY NextTurn
<1>2. Blocks' = Blocks
  BY <1>1 DEF EndTurn, Blocks
<1>3. TxSound(b, t) /\ Agree(b, t, x) /\ RxSound(b, x)
  BY <1>0, Meaning
<1>4. Agree(b, t1, x1) /\ RxSound(b, x1)
  <2> DEFINE E == engine'
             B == Blocks'
  <2>1. \A g \in Ends : Good(B, AcksSent', g, E[g], E[Other(g)], ch'[Other(g)], ch'[g])
    BY DEF IndInv
  <2>2. Good(B, AcksSent', e, E[e], E[o], ch'[o], ch'[e])
    BY <2>1
  <2>3. Good(B, AcksSent', o, E[o], E[e], ch'[e], ch'[o])
    BY <1>0, <2>1
  <2>4. B = Blocks
    BY <1>2
  <2> HIDE DEF E, B
  <2>5. Agree(Blocks[e], E[e].tx, E[o].rx)
    BY <2>2, <2>4 DEF Good
  <2>6. RxSound(Blocks[e], E[o].rx)
    BY <1>0, <2>3, <2>4 DEF Good
  <2> QED
    BY <2>5, <2>6 DEF E
<1>5. CASE a = e
  <2>1. engine'[o] = engine[o] /\ TxTurn(t.phase, t1.phase)
    BY <1>1, <1>5 DEF EndTurn, Turn
  <2>2. x1 = x
    BY <2>1
  <2>3. RxKept(x, x1) /\ Status(x1.phase) = Status(x.phase)
    BY <2>2 DEF RxKept
  <2> HIDE DEF o, b, t, t1, x, x1
  <2>4. Agree(b, t1, x)
    BY <1>4, <2>2
  <2>5. \/ Status(t1.phase) = Status(t.phase)
        \/ Status(t.phase) = "none" /\ Status(t1.phase) = "active"
        \/ /\ Status(t.phase) = "active"
           /\ Status(t1.phase) = "failed" \/ (x.done_sent /\ Status(t1.phase) = "ok")
    BY <2>1, <2>4, SenderTurns
  <2> QED
    BY <1>2, <2>3, <2>5 DEF Transferred, o, b, t, t1, x, x1
<1>6. CASE a = o
  <2>1. engine'[e] = engine[e] /\ RxTurn(b, x, x1)
    BY <1>0, <1>1, <1>6 DEF EndTurn, Turn
  <2>2. t1 = t
    BY <2>1
  <2>3. b \in Seq(Nat)
    BY FilesAre
  <2>4. Status(t1.phase) = Status(t.phase)
    BY <2>2
  <2> HIDE DEF o, b, t, t1, x, x1
  <2>5. Agree(b, t, x1)
    BY <1>4, <2>2
  <2> DEFINE r == Status(x.phase)
             r1 == Status(x1.phase)
  <2>6. \/ r1 = r /\ RxKept(x, x1)
        \/ /\ r = "none" /\ Status(t.phase) # "none" /\ r1 \in {"active", "failed"}
           /\ RxKept(x, x1)
        \/ /\ r = "active" /\ r1 = r /\ x1.done_sent = x.done_sent
           /\ \E f \in DOMAIN b : /\ x.expected_seq[f] < b[f]
                                  /\ x1.expected_seq = [x.expected_seq EXCEPT ![f] = @ + 1]
        \/ /\ r = "active" /\ r1 = r /\ ~x.done_sent /\ x1.done_sent = TRUE
           /\ x.expected_seq = b /\ x1.expected_seq = x.expected_seq
        \/ /\ r = "active" /\ RxKept(x, x1)
           /\ r1 = "failed" \/ (Status(t.phase) = "ok" /\ r1 = "ok")
    BY <1>3, <1>4, <2>1, <2>3, <2>5, ReceiverTurns
  <2> HIDE DEF r, r1
  <2>7. Transferred(e)
    BY <2>4, <2>6 DEF Transferred, o, b, t, t1, x, x1, r, r1
  <2> QED
    BY <1>2, <2>7
<1> QED
  BY <1>0, <1>1, <1>5, <1>6

\* The engines start with no transfer.
LEMMA StartTransfers ==
  ASSUME Init, NEW e \in Ends
  PROVE  LET t == engine[e].tx
             x == engine[Other(e)].rx IN
         /\ Blocks[e] \in Seq(Nat)
         /\ Status(t.phase) = "none" /\ Status(x.phase) = "none"
         /\ x.expected_seq = [f \in DOMAIN Blocks[e] |-> 0] /\ x.done_sent = FALSE
<1> DEFINE o == Other(e)
           c(a) == [state |-> "NEGOTIATING", set_up |-> a \notin env.set_up_late,
                    tx |-> NewTx(a, "NONE"), rx |-> NewRx(a, "NONE"),
                    results |-> [dir \in {"tx", "rx"} |-> 0], out |-> <<>>]
<1>1. o \in Ends /\ Other(o) = e
  BY EndsFacts
<1>2. engine = [a \in Ends |-> c(a)] /\ env \in Environments
  BY DEF Init
<1>3. engine[e].tx = NewTx(e, "NONE") /\ engine[o].rx = NewRx(o, "NONE")
  <2>1. engine[e] = c(e) /\ engine[o] = c(o)
    BY <1>1, <1>2
  <2>2. c(e).tx = NewTx(e, "NONE") /\ c(o).rx = NewRx(o, "NONE")
    OBVIOUS
  <2> HIDE DEF c
  <2> QED
    BY <2>1, <2>2
<1>4. NewTx(e, "NONE").phase = "NONE"
  BY DEF NewTx
<1>5. /\ NewRx(o, "NONE").phase = "NONE" /\ NewRx(o, "NONE").done_sent = FALSE
      /\ NewRx(o, "NONE").expected_seq = [f \in DOMAIN Blocks[e] |-> 0]
  BY <1>1 DEF NewRx, Files
<1>6. Blocks[e] \in Seq(Nat)
  BY <1>2, DFileAssumption DEF Blocks
<1> HIDE DEF o
<1> QED
  BY <1>3, <1>4, <1>5, <1>6 DEF Status, o

\* The two engines implement a transfer each way, whatever is repeated, timed
\* out or lost with the connection, provided that an acknowledgement can be
\* sent (see OneResultHolds): the receiver writes each block of each file once
\* and in order and verifies them all, then the sender reports success, then
\* the receiver, and neither takes back what it has reported.
THEOREM TransferImplemented == ASSUME AcksSend PROVE Spec => ImplementsTransfer
<1>1. Init => FromPhone!Init /\ FromDaemon!Init
  <2> SUFFICES ASSUME Init PROVE FromPhone!Init /\ FromDaemon!Init
    OBVIOUS
  <2>1. /\ "phone" \in Ends /\ "daemon" \in Ends
        /\ Other("phone") = "daemon" /\ Other("daemon") = "phone"
    BY DEF Ends, Other
  <2>2. FromPhone!Init
    BY <2>1, StartTransfers DEF FromPhone!Init
  <2>3. FromDaemon!Init
    BY <2>1, StartTransfers DEF FromDaemon!Init
  <2> QED
    BY <2>2, <2>3
<1>2. IndInv => AcksSent
  BY DEF AcksSend, AcksSent, IndInv, Faults
<1>3. IndInv /\ IndInv' /\ [Next]_vars =>
        [FromPhone!Next]_(FromPhone!transferVars) /\ [FromDaemon!Next]_(FromDaemon!transferVars)
  <2> SUFFICES ASSUME IndInv, IndInv', [Next]_vars
               PROVE /\ [FromPhone!Next]_(FromPhone!transferVars)
                     /\ [FromDaemon!Next]_(FromDaemon!transferVars)
    OBVIOUS
  <2>1. /\ "phone" \in Ends /\ "daemon" \in Ends
        /\ Other("phone") = "daemon" /\ Other("daemon") = "phone"
    BY DEF Ends, Other
  <2>2. Transferred("phone") /\ Transferred("daemon") /\ Blocks' = Blocks
    BY <1>2, <2>1, StepTransfers
  <2>3. [FromPhone!Next]_(FromPhone!transferVars)
    <3> DEFINE b  == Blocks["phone"]
               x  == engine["daemon"].rx
               x1 == engine'["daemon"].rx
               s  == Status(engine["phone"].tx.phase)
               s1 == Status(engine'["phone"].tx.phase)
               r  == Status(x.phase)
               r1 == Status(x1.phase)
    <3>1. CASE s1 = s /\ r1 = r /\ RxKept(x, x1)
      BY <2>2, <3>1 DEF RxKept, FromPhone!transferVars
    <3>2. CASE s = "none" /\ s1 = "active" /\ r1 = r /\ RxKept(x, x1)
      BY <2>2, <3>2 DEF RxKept, FromPhone!Next, FromPhone!Offer
    <3>3. CASE /\ r = "none" /\ s # "none" /\ r1 \in {"active", "failed"}
               /\ s1 = s /\ RxKept(x, x1)
      BY <2>2, <3>3 DEF RxKept, FromPhone!Next, FromPhone!Accept
    <3>4. CASE /\ r = "active" /\ s1 = s /\ r1 = r /\ x1.done_sent = x.done_sent
               /\ \E f \in DOMAIN b :
                    /\ x.expected_seq[f] < b[f]
                    /\ x1.expected_seq = [x.expected_seq EXCEPT ![f] = @ + 1]
      BY <2>2, <3>4 DEF FromPhone!Next, FromPhone!Write
    <3>5. CASE /\ r = "active" /\ ~x.done_sent /\ x.expected_seq = b
               /\ s1 = s /\ r1 = r /\ x1.done_sent = TRUE
               /\ x1.expected_seq = x.expected_seq
      BY <2>2, <3>5 DEF FromPhone!Next, FromPhone!Verify
    <3>6. CASE /\ s = "active" /\ (s1 = "failed" \/ (x.done_sent /\ s1 = "ok"))
               /\ r1 = r /\ RxKept(x, x1)
      BY <2>2, <3>6 DEF RxKept, FromPhone!Next, FromPhone!SenderEnds
    <3>7. CASE /\ r = "active" /\ (r1 = "failed" \/ (s = "ok" /\ r1 = "ok"))
               /\ s1 = s /\ RxKept(x, x1)
      BY <2>2, <3>7 DEF RxKept, FromPhone!Next, FromPhone!ReceiverEnds
    <3> QED
      BY <2>1, <2>2, <3>1, <3>2, <3>3, <3>4, <3>5, <3>6, <3>7 DEF Transferred
  <2>4. [FromDaemon!Next]_(FromDaemon!transferVars)
    <3> DEFINE b  == Blocks["daemon"]
               x  == engine["phone"].rx
               x1 == engine'["phone"].rx
               s  == Status(engine["daemon"].tx.phase)
               s1 == Status(engine'["daemon"].tx.phase)
               r  == Status(x.phase)
               r1 == Status(x1.phase)
    <3>1. CASE s1 = s /\ r1 = r /\ RxKept(x, x1)
      BY <2>2, <3>1 DEF RxKept, FromDaemon!transferVars
    <3>2. CASE s = "none" /\ s1 = "active" /\ r1 = r /\ RxKept(x, x1)
      BY <2>2, <3>2 DEF RxKept, FromDaemon!Next, FromDaemon!Offer
    <3>3. CASE /\ r = "none" /\ s # "none" /\ r1 \in {"active", "failed"}
               /\ s1 = s /\ RxKept(x, x1)
      BY <2>2, <3>3 DEF RxKept, FromDaemon!Next, FromDaemon!Accept
    <3>4. CASE /\ r = "active" /\ s1 = s /\ r1 = r /\ x1.done_sent = x.done_sent
               /\ \E f \in DOMAIN b :
                    /\ x.expected_seq[f] < b[f]
                    /\ x1.expected_seq = [x.expected_seq EXCEPT ![f] = @ + 1]
      BY <2>2, <3>4 DEF FromDaemon!Next, FromDaemon!Write
    <3>5. CASE /\ r = "active" /\ ~x.done_sent /\ x.expected_seq = b
               /\ s1 = s /\ r1 = r /\ x1.done_sent = TRUE
               /\ x1.expected_seq = x.expected_seq
      BY <2>2, <3>5 DEF FromDaemon!Next, FromDaemon!Verify
    <3>6. CASE /\ s = "active" /\ (s1 = "failed" \/ (x.done_sent /\ s1 = "ok"))
               /\ r1 = r /\ RxKept(x, x1)
      BY <2>2, <3>6 DEF RxKept, FromDaemon!Next, FromDaemon!SenderEnds
    <3>7. CASE /\ r = "active" /\ (r1 = "failed" \/ (s = "ok" /\ r1 = "ok"))
               /\ s1 = s /\ RxKept(x, x1)
      BY <2>2, <3>7 DEF RxKept, FromDaemon!Next, FromDaemon!ReceiverEnds
    <3> QED
      BY <2>1, <2>2, <3>1, <3>2, <3>3, <3>4, <3>5, <3>6, <3>7 DEF Transferred
  <2> QED
    BY <2>3, <2>4
<1> QED
  BY <1>1, <1>3, DFileInvariant, PTL DEF Spec, ImplementsTransfer, FromPhone!Spec, FromDaemon!Spec
=============================================================================
