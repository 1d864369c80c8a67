-------------------------- MODULE FrameStreamProofs --------------------------
(***************************************************************************)
(* Proofs about FrameStream for frames of any length, any number of        *)
(* threads that send them and pieces of any size, on a stream on which no  *)
(* write fails part of the way.                                            *)
(*                                                                         *)
(* The invariant is about what is still to be parsed: the buffer, the wire *)
(* and what the thread with the mutex has not written, as one sequence.    *)
(* Lock makes it longer, parsing shorter, and nothing else changes it.     *)
(***************************************************************************)
EXTENDS FrameStream, Integers, SequenceTheorems, TLAPS

\* No write fails part of the way while the stream stays up.
NoTimeouts == \A e \in Environments : ~e.times_out

Frame == [from : Senders \cup {"nobody"}, seq : Nat, len : Nat]
Cell == [frame : Frame, at : Nat]

\* Only the types the proofs need; one thread has the mutex.
TypeInv ==
  /\ env \in Environments
  /\ plan \in [Senders -> Seq(Nat)]
  /\ \A s \in Senders : \A i \in 1 .. Len(plan[s]) : plan[s][i] >= Header
  /\ order \in Seq(Frame) /\ got \in Seq(Frame) /\ seq = Len(order)
  /\ wire \in Seq(Cell) /\ buffer \in Seq(Cell) /\ out \in [Senders -> Seq(Cell)]
  /\ sender \in [Senders -> {"idle", "checked", "writing"}]
  /\ \A s \in Senders : sender[s] # "writing" => out[s] = <<>>
  /\ \A s \in Senders : sender[s] = "checked" => plan[s] # <<>>
  /\ \A s, t \in Senders : sender[s] = "writing" /\ sender[t] = "writing" => s = t

\* What d is when it comes n cells after c: the rest of a frame follows its
\* beginning, then the first cell of the next one.
Rel(c, d, n) ==
  /\ c.frame.seq <= d.frame.seq
  /\ c # Noise =>
       /\ n <= c.frame.len - c.at => d = [frame |-> c.frame, at |-> c.at + n]
       /\ n > c.frame.len - c.at => c.frame.seq < d.frame.seq
       /\ n = c.frame.len - c.at + 1 => d.at = 1 /\ d.frame.seq = c.frame.seq + 1

Ordered(p) == \A k, l \in 1 .. Len(p) : k <= l => Rel(p[k], p[l], l - k)

\* A cell of a frame that has been sent.
Good(c, o, z) ==
  \/ c = Noise /\ z # 0
  \/ /\ c # Noise /\ c.frame.seq \in 1 .. Len(o) /\ c.frame = o[c.frame.seq]
     /\ c.at \in 1 .. c.frame.len

\* Cells that continue what was parsed.
Sound(p, g, o, z) ==
  /\ Ordered(p)
  /\ \A k \in 1 .. Len(p) : Good(p[k], o, z)
  /\ \A i \in 1 .. Len(g), k \in 1 .. Len(p) : g[i].seq < p[k].frame.seq
  /\ z = 0 /\ Len(p) > 0 => p[1].at = 1 /\ p[1].frame.seq = Len(g) + 1

\* Every frame that begins ends, and the last one sent is the last one.
Whole(p, g, o, z) ==
  /\ \A k \in 1 .. Len(p) :
       p[k] # Noise =>
         /\ k + p[k].frame.len - p[k].at <= Len(p)
         /\ k + p[k].frame.len - p[k].at = Len(p) => p[k].frame.seq = Len(o)
  /\ z = 0 /\ Len(p) = 0 => Len(g) = Len(o)

\* The frames handed on were sent, in this order.
GotInOrder(g, o, z) ==
  /\ \A i \in 1 .. Len(g) : g[i].seq \in 1 .. Len(o) /\ g[i] = o[g[i].seq]
  /\ \A i, j \in 1 .. Len(g) : i < j => g[i].seq < g[j].seq
  /\ z = 0 => \A i \in 1 .. Len(g) : g[i].seq = i

\* Nobody but s has the mutex.
Alone(s) == \A t \in Senders : sender[t] = "writing" => t = s

\* The inductive invariant.
IndInv ==
  /\ TypeInv
  /\ GotInOrder(got, order, env.noise)
  /\ Sound(buffer \o wire, got, order, env.noise)
  /\ ~cancel =>
       \A s \in Senders :
         Alone(s) => /\ Sound((buffer \o wire) \o out[s], got, order, env.noise)
                     /\ Whole((buffer \o wire) \o out[s], got, order, env.noise)

-----------------------------------------------------------------------------
(***************************************************************************)
(* Sequences, cut and joined.                                              *)
(***************************************************************************)

\* A sequence is its first n elements and the rest.
LEMMA Split ==
  ASSUME NEW S, NEW q \in Seq(S), NEW n \in 0 .. Len(q)
  PROVE  /\ SubSeq(q, 1, n) \in Seq(S) /\ SubSeq(q, n + 1, Len(q)) \in Seq(S)
         /\ Len(SubSeq(q, 1, n)) = n
         /\ Len(SubSeq(q, n + 1, Len(q))) = Len(q) - n
         /\ SubSeq(q, 1, n) \o SubSeq(q, n + 1, Len(q)) = q
         /\ \A i \in 1 .. n : SubSeq(q, 1, n)[i] = q[i]
<1>1. Len(q) \in Nat /\ \A i \in 1 .. Len(q) : q[i] \in S
  BY LenProperties
<1>2. /\ SubSeq(q, 1, n) \in Seq(S) /\ Len(SubSeq(q, 1, n)) = n
      /\ \A i \in 1 .. n : SubSeq(q, 1, n)[i] = q[i]
  <2>1. \A i \in 1 .. n : q[i] \in S
    BY <1>1
  <2>2. /\ SubSeq(q, 1, n) \in Seq(S)
        /\ Len(SubSeq(q, 1, n)) = IF 1 <= n THEN n - 1 + 1 ELSE 0
        /\ \A i \in 1 .. n - 1 + 1 : SubSeq(q, 1, n)[i] = q[1 + i - 1]
    BY <1>1, <2>1, SubSeqProperties
  <2> QED
    BY <1>1, <2>2
<1>3. /\ SubSeq(q, n + 1, Len(q)) \in Seq(S)
      /\ Len(SubSeq(q, n + 1, Len(q))) = Len(q) - n
      /\ \A i \in 1 .. Len(q) - n : SubSeq(q, n + 1, Len(q))[i] = q[n + i]
  <2>1. \A i \in n + 1 .. Len(q) : q[i] \in S
    BY <1>1
  <2>2. /\ SubSeq(q, n + 1, Len(q)) \in Seq(S)
        /\ Len(SubSeq(q, n + 1, Len(q)))
             = IF n + 1 <= Len(q) THEN Len(q) - (n + 1) + 1 ELSE 0
        /\ \A i \in 1 .. Len(q) - (n + 1) + 1 :
             SubSeq(q, n + 1, Len(q))[i] = q[n + 1 + i - 1]
    BY <1>1, <2>1, SubSeqProperties
  <2> QED
    BY <1>1, <2>2
<1>4. SubSeq(q, 1, n) \o SubSeq(q, n + 1, Len(q)) = q
  <2>1. 1 \in 1 .. Len(q) + 1 /\ n \in 1 - 1 .. Len(q) /\ Len(q) \in n .. Len(q)
    BY <1>1
  <2>2. SubSeq(q, 1, n) \o SubSeq(q, n + 1, Len(q)) = SubSeq(q, 1, Len(q))
    BY <2>1, ConcatAdjacentSubSeq
  <2> QED
    BY <2>2, SubSeqFull
<1> QED
  BY <1>2, <1>3, <1>4

\* What is in the two parts of a sequence.
LEMMA Parts ==
  ASSUME NEW S, NEW x \in Seq(S), NEW y \in Seq(S)
  PROVE  /\ x \o y \in Seq(S) /\ Len(x) \in Nat /\ Len(y) \in Nat
         /\ Len(x \o y) = Len(x) + Len(y)
         /\ \A i \in 1 .. Len(x) : (x \o y)[i] = x[i]
         /\ \A i \in 1 .. Len(y) : (x \o y)[Len(x) + i] = y[i]
<1>1. Len(x) \in Nat /\ Len(y) \in Nat
  BY LenProperties
<1>2. /\ x \o y \in Seq(S) /\ Len(x \o y) = Len(x) + Len(y)
      /\ \A i \in 1 .. Len(x) + Len(y) :
           (x \o y)[i] = IF i <= Len(x) THEN x[i] ELSE y[i - Len(x)]
  BY ConcatProperties
<1>3. ASSUME NEW i \in 1 .. Len(x) PROVE (x \o y)[i] = x[i]
  <2>1. i \in 1 .. Len(x) + Len(y) /\ i <= Len(x)
    BY <1>1
  <2> QED
    BY <1>2, <2>1
<1>4. ASSUME NEW i \in 1 .. Len(y) PROVE (x \o y)[Len(x) + i] = y[i]
  <2>1. /\ Len(x) + i \in 1 .. Len(x) + Len(y) /\ ~(Len(x) + i <= Len(x))
        /\ Len(x) + i - Len(x) = i
    BY <1>1
  <2> QED
    BY <1>2, <2>1
<1> QED
  BY <1>1, <1>2, <1>3, <1>4

-----------------------------------------------------------------------------
(***************************************************************************)
(* What is to be parsed, cut and joined.                                   *)
(***************************************************************************)

\* What is sound remains so when the end is not there yet.
LEMMA SoundBeginning ==
  ASSUME NEW x \in Seq(Cell), NEW y \in Seq(Cell), NEW g, NEW o, NEW z,
         Sound(x \o y, g, o, z)
  PROVE  Sound(x, g, o, z)
<1>1. /\ Len(x) \in Nat /\ Len(y) \in Nat /\ Len(x \o y) = Len(x) + Len(y)
      /\ \A i \in 1 .. Len(x) : (x \o y)[i] = x[i]
  BY Parts
<1>2. 1 .. Len(x) \subseteq 1 .. Len(x \o y)
  BY <1>1
<1>3. Ordered(x)
  BY <1>1, <1>2 DEF Sound, Ordered
<1>4. \A k \in 1 .. Len(x) : Good(x[k], o, z)
  BY <1>1, <1>2 DEF Sound
<1>5. \A i \in 1 .. Len(g), k \in 1 .. Len(x) : g[i].seq < x[k].frame.seq
  BY <1>1, <1>2 DEF Sound
<1>6. z = 0 /\ Len(x) > 0 => x[1].at = 1 /\ x[1].frame.seq = Len(g) + 1
  BY <1>1 DEF Sound
<1> QED
  BY <1>3, <1>4, <1>5, <1>6 DEF Sound

\* A frame is known from its first cell.
LEMMA FirstFrame ==
  ASSUME NEW x \in Seq(Cell), NEW y \in Seq(Cell), NEW g, NEW o, NEW z,
         Sound(x \o y, g, o, z), Len(x) > 0, x[1].at = 1,
         Len(x) >= x[1].frame.len
  PROVE  /\ x[1].frame.seq \in 1 .. Len(o) /\ x[1].frame = o[x[1].frame.seq]
         /\ x[1].frame.len >= 1
         /\ \A i \in 1 .. x[1].frame.len : x[i] = [frame |-> x[1].frame, at |-> i]
<1>1. /\ Len(x) \in Nat /\ Len(y) \in Nat /\ Len(x \o y) = Len(x) + Len(y)
      /\ \A i \in 1 .. Len(x) : (x \o y)[i] = x[i]
  BY Parts
<1>2. 1 .. Len(x) \subseteq 1 .. Len(x \o y)
  BY <1>1
<1>3. 1 \in 1 .. Len(x) /\ x[1] \in Cell
  BY <1>1, LenProperties
<1>4. Good(x[1], o, z) /\ x[1] # Noise
  BY <1>1, <1>2, <1>3 DEF Sound, Noise
<1>5. /\ x[1].frame.seq \in 1 .. Len(o) /\ x[1].frame = o[x[1].frame.seq]
      /\ x[1].frame.len \in Nat /\ x[1].frame.len >= 1
  BY <1>3, <1>4 DEF Good, Cell, Frame
<1>6. ASSUME NEW i \in 1 .. x[1].frame.len
      PROVE  x[i] = [frame |-> x[1].frame, at |-> i]
  <2>1. i \in 1 .. Len(x) /\ 1 <= i
    BY <1>1, <1>5
  <2>2. Rel(x[1], x[i], i - 1)
    BY <1>1, <1>2, <1>3, <2>1 DEF Sound, Ordered
  <2>3. i - 1 <= x[1].frame.len - 1 /\ 1 + (i - 1) = i
    BY <1>5
  <2> QED
    BY <1>4, <2>2, <2>3 DEF Rel
<1> QED
  BY <1>5, <1>6

\* Two cells of an ordered sequence.
LEMMA OrderedPair ==
  ASSUME NEW p, Ordered(p), NEW i \in 1 .. Len(p), NEW j \in 1 .. Len(p), i <= j
  PROVE  Rel(p[i], p[j], j - i)
BY Zenon DEF Ordered

\* The order of cells does not depend on what was before.
LEMMA OrderedEnd ==
  ASSUME NEW x \in Seq(Cell), NEW y \in Seq(Cell), Ordered(x \o y)
  PROVE  Ordered(y)
<1>1. /\ Len(x) \in Nat /\ Len(y) \in Nat /\ Len(x \o y) = Len(x) + Len(y)
      /\ \A i \in 1 .. Len(y) : (x \o y)[Len(x) + i] = y[i]
  BY Parts
<1> SUFFICES ASSUME NEW k \in 1 .. Len(y), NEW l \in 1 .. Len(y), k <= l
             PROVE  Rel(y[k], y[l], l - k)
  BY DEF Ordered
<1>2. /\ Len(x) + k \in 1 .. Len(x \o y) /\ Len(x) + l \in 1 .. Len(x \o y)
      /\ Len(x) + k <= Len(x) + l /\ Len(x) + l - (Len(x) + k) = l - k
  BY <1>1
<1> DEFINE p == x \o y
           i == Len(x) + k
           j == Len(x) + l
<1>3. Ordered(p) /\ i \in 1 .. Len(p) /\ j \in 1 .. Len(p) /\ i <= j
  BY <1>2
<1>4. p[i] = y[k] /\ p[j] = y[l] /\ j - i = l - k
  BY <1>1, <1>2
<1> HIDE DEF p, i, j
<1>5. Rel(p[i], p[j], j - i)
  BY <1>3, OrderedPair
<1> QED
  BY <1>4, <1>5

\* Where a frame ends does not depend on what was before it.
LEMMA EndsOfFrames ==
  ASSUME NEW x \in Seq(Cell), NEW y \in Seq(Cell), NEW g, NEW o, NEW z,
         Whole(x \o y, g, o, z), NEW k \in 1 .. Len(y), y[k] # Noise
  PROVE  /\ k + y[k].frame.len - y[k].at <= Len(y)
         /\ k + y[k].frame.len - y[k].at = Len(y) => y[k].frame.seq = Len(o)
<1>1. /\ Len(x) \in Nat /\ Len(y) \in Nat /\ Len(x \o y) = Len(x) + Len(y)
      /\ (x \o y)[Len(x) + k] = y[k]
  BY Parts
<1>2. y[k] \in Cell
  BY ElementOfSeq
<1>3. PICK a \in Nat : y[k].frame.len = a
  BY <1>2 DEF Cell, Frame
<1>4. PICK b \in Nat : y[k].at = b
  BY <1>2 DEF Cell, Frame
<1>5. Len(x) + k \in 1 .. Len(x \o y)
  BY <1>1
<1>6. /\ Len(x) + k + a - b <= Len(x \o y)
      /\ Len(x) + k + a - b = Len(x \o y) => y[k].frame.seq = Len(o)
  BY <1>1, <1>3, <1>4, <1>5 DEF Whole
<1>7. PICK m \in Nat, n \in Nat : Len(x) = m /\ Len(y) = n
  BY <1>1
<1>8. m + k + a - b <= m + n /\ (m + k + a - b = m + n => y[k].frame.seq = Len(o))
  BY <1>1, <1>6, <1>7
<1>9. k \in Int /\ k + a - b <= n /\ (k + a - b = n => m + k + a - b = m + n)
  BY <1>7, <1>8
<1> QED
  BY <1>3, <1>4, <1>7, <1>8, <1>9

\* What is sound remains so when its beginning is dropped, if it need not begin
\* with the next frame.
LEMMA SoundEnd ==
  ASSUME NEW x \in Seq(Cell), NEW y \in Seq(Cell), NEW g, NEW o, NEW z, z # 0,
         Sound(x \o y, g, o, z)
  PROVE  Sound(y, g, o, z)
<1>1. /\ Len(x) \in Nat /\ Len(y) \in Nat /\ Len(x \o y) = Len(x) + Len(y)
      /\ \A i \in 1 .. Len(y) : (x \o y)[Len(x) + i] = y[i]
  BY Parts
<1>2. \A i \in 1 .. Len(y) : Len(x) + i \in 1 .. Len(x \o y)
  BY <1>1
<1>3. Ordered(y)
  BY OrderedEnd DEF Sound
<1>4. \A k \in 1 .. Len(y) : Good(y[k], o, z)
  <2> TAKE k \in 1 .. Len(y)
  <2>1. Good((x \o y)[Len(x) + k], o, z)
    BY <1>2 DEF Sound
  <2> QED
    BY <1>1, <2>1
<1>5. \A i \in 1 .. Len(g), k \in 1 .. Len(y) : g[i].seq < y[k].frame.seq
  <2> TAKE i \in 1 .. Len(g), k \in 1 .. Len(y)
  <2>1. g[i].seq < (x \o y)[Len(x) + k].frame.seq
    BY <1>2 DEF Sound
  <2> QED
    BY <1>1, <2>1
<1> QED
  BY <1>3, <1>4, <1>5 DEF Sound

\* Nor does a beginning that is dropped leave a frame without its end.
LEMMA WholeEnd ==
  ASSUME NEW x \in Seq(Cell), NEW y \in Seq(Cell), NEW g, NEW o, NEW z, z # 0,
         Whole(x \o y, g, o, z)
  PROVE  Whole(y, g, o, z)
<1>1. ASSUME NEW k \in 1 .. Len(y), y[k] # Noise
      PROVE  /\ k + y[k].frame.len - y[k].at <= Len(y)
             /\ k + y[k].frame.len - y[k].at = Len(y) => y[k].frame.seq = Len(o)
  BY <1>1, EndsOfFrames
<1> QED
  BY <1>1 DEF Whole

\* After the first frame comes the next.
LEMMA SoundAfterFrame ==
  ASSUME NEW x \in Seq(Cell), NEW y \in Seq(Cell), NEW g \in Seq(Frame),
         NEW o \in Seq(Frame), NEW z,
         Sound(x \o y, g, o, z), Len(x) > 0, x[1].at = 1,
         Len(x) = x[1].frame.len
  PROVE  Sound(y, Append(g, x[1].frame), o, z)
<1>1. /\ Len(x) \in Nat /\ Len(y) \in Nat /\ Len(x \o y) = Len(x) + Len(y)
      /\ \A i \in 1 .. Len(x) : (x \o y)[i] = x[i]
      /\ \A i \in 1 .. Len(y) : (x \o y)[Len(x) + i] = y[i]
  BY Parts
<1>2. /\ 1 \in 1 .. Len(x \o y) /\ (x \o y)[1] = x[1] /\ x[1] \in Cell
      /\ \A i \in 1 .. Len(y) : Len(x) + i \in 1 .. Len(x \o y)
  BY <1>1, LenProperties
<1>3. x[1] # Noise /\ x[1].frame.len \in Nat /\ x[1].frame \in Frame
  BY <1>2 DEF Noise, Cell, Frame
<1>4. ASSUME NEW k \in 1 .. Len(y)
      PROVE  /\ x[1].frame.seq < y[k].frame.seq
             /\ k = 1 => y[k].at = 1 /\ y[k].frame.seq = x[1].frame.seq + 1
  <2>1. 1 <= Len(x) + k /\ Len(x) + k - 1 > x[1].frame.len - x[1].at
    BY <1>1, <1>3
  <2>2. Rel(x[1], y[k], Len(x) + k - 1)
    <3> DEFINE p == x \o y
               i == Len(x) + k
    <3>4. Ordered(p)
      BY DEF Sound
    <3>1. Ordered(p) /\ 1 \in 1 .. Len(p) /\ i \in 1 .. Len(p) /\ 1 <= i
      BY <1>2, <2>1, <3>4
    <3>2. p[1] = x[1]
      BY <1>2
    <3>6. i - 1 = Len(x) + k - 1
      <4>1. PICK m \in Nat : m = Len(x)
        BY <1>1
      <4>2. k \in Int
        OBVIOUS
      <4>3. (m + k) - 1 = m + k - 1
        BY <4>2
      <4> QED
        BY <4>1, <4>3
    <3>5. p[i] = y[k]
      BY <1>1
    <3> HIDE DEF p, i
    <3>3. Rel(p[1], p[i], i - 1)
      BY <3>1, OrderedPair
    <3> QED
      BY <3>2, <3>3, <3>5, <3>6
  <2>3. k = 1 => Len(x) + k - 1 = x[1].frame.len - x[1].at + 1
    BY <1>1, <1>3
  <2> QED
    BY <1>3, <2>1, <2>2, <2>3 DEF Rel
<1>5. Ordered(y)
  BY OrderedEnd DEF Sound
<1>6. \A k \in 1 .. Len(y) : Good(y[k], o, z)
  <2> TAKE k \in 1 .. Len(y)
  <2>1. Good((x \o y)[Len(x) + k], o, z)
    BY <1>2 DEF Sound
  <2> QED
    BY <1>1, <2>1
<1>7. /\ Len(g) \in Nat /\ Len(Append(g, x[1].frame)) = Len(g) + 1
      /\ \A i \in 1 .. Len(g) : Append(g, x[1].frame)[i] = g[i]
      /\ Append(g, x[1].frame)[Len(g) + 1] = x[1].frame
  BY <1>3, AppendProperties, LenProperties
<1>8. ASSUME NEW i \in 1 .. Len(Append(g, x[1].frame)), NEW k \in 1 .. Len(y)
      PROVE  Append(g, x[1].frame)[i].seq < y[k].frame.seq
  <2>1. CASE i \in 1 .. Len(g)
    <3>1. g[i].seq < (x \o y)[Len(x) + k].frame.seq
      BY <1>2, <2>1 DEF Sound
    <3> QED
      BY <1>1, <1>7, <2>1, <3>1
  <2>2. CASE i = Len(g) + 1
    BY <1>4, <1>7, <2>2
  <2> QED
    BY <1>7, <2>1, <2>2
<1>9. z = 0 => x[1].frame.seq = Len(g) + 1
  BY <1>1, <1>2 DEF Sound
<1>10. z = 0 /\ Len(y) > 0 =>
         y[1].at = 1 /\ y[1].frame.seq = Len(Append(g, x[1].frame)) + 1
  BY <1>1, <1>4, <1>7, <1>9
<1> QED
  BY <1>5, <1>6, <1>8, <1>10 DEF Sound

\* And when nothing comes after it, it was the last.
LEMMA WholeAfterFrame ==
  ASSUME NEW x \in Seq(Cell), NEW y \in Seq(Cell), NEW g \in Seq(Frame),
         NEW o \in Seq(Frame), NEW z,
         Sound(x \o y, g, o, z), Whole(x \o y, g, o, z), Len(x) > 0,
         x[1].at = 1, Len(x) = x[1].frame.len
  PROVE  Whole(y, Append(g, x[1].frame), o, z)
<1>1. /\ Len(x) \in Nat /\ Len(y) \in Nat /\ Len(x \o y) = Len(x) + Len(y)
      /\ \A i \in 1 .. Len(x) : (x \o y)[i] = x[i]
      /\ \A i \in 1 .. Len(y) : (x \o y)[Len(x) + i] = y[i]
  BY Parts
<1>2. /\ 1 \in 1 .. Len(x \o y) /\ (x \o y)[1] = x[1] /\ x[1] \in Cell
      /\ \A i \in 1 .. Len(y) : Len(x) + i \in 1 .. Len(x \o y)
  BY <1>1, LenProperties
<1>3. x[1] # Noise /\ x[1].frame.len \in Nat /\ x[1].frame \in Frame
  BY <1>2 DEF Noise, Cell, Frame
<1>4. ASSUME NEW k \in 1 .. Len(y), y[k] # Noise
      PROVE  /\ k + y[k].frame.len - y[k].at <= Len(y)
             /\ k + y[k].frame.len - y[k].at = Len(y) => y[k].frame.seq = Len(o)
  BY <1>4, EndsOfFrames
<1>5. z = 0 /\ Len(y) = 0 => Len(Append(g, x[1].frame)) = Len(o)
  <2> SUFFICES ASSUME z = 0, Len(y) = 0
               PROVE  Len(Append(g, x[1].frame)) = Len(o)
    OBVIOUS
  <2>1. Len(g) \in Nat /\ Len(Append(g, x[1].frame)) = Len(g) + 1
    BY <1>3, AppendProperties, LenProperties
  <2>2. x[1].frame.seq = Len(g) + 1
    BY <1>1, <1>2 DEF Sound
  <2>3. 1 + x[1].frame.len - x[1].at = Len(x \o y)
    BY <1>1, <1>3
  <2>4. x[1].frame.seq = Len(o)
    BY <1>2, <1>3, <2>3 DEF Whole
  <2> QED
    BY <2>1, <2>2, <2>4
<1> QED
  BY <1>4, <1>5 DEF Whole

\* The cells of a frame.
LEMMA CellsOfFrame ==
  ASSUME NEW f \in Frame
  PROVE  /\ f.len \in Nat /\ f.seq \in Nat
         /\ Cells(f) \in Seq(Cell) /\ Len(Cells(f)) = f.len
         /\ \A i \in 1 .. f.len : Cells(f)[i] = [frame |-> f, at |-> i]
<1>1. f.len \in Nat /\ f.seq \in Nat
  BY DEF Frame
<1>2. Cells(f) \in [1 .. f.len -> Cell]
  BY <1>1 DEF Cells, Cell
<1>3. Cells(f) \in Seq(Cell) /\ Len(Cells(f)) = f.len
  BY <1>1, <1>2
<1> QED
  BY <1>1, <1>3 DEF Cells

\* What was sent before remains what it was when another frame is sent.
LEMMA OrderGrows ==
  ASSUME NEW p, NEW g, NEW o \in Seq(Frame), NEW z, NEW f \in Frame
  PROVE  /\ Sound(p, g, o, z) => Sound(p, g, Append(o, f), z)
         /\ GotInOrder(g, o, z) => GotInOrder(g, Append(o, f), z)
<1>1. /\ Len(o) \in Nat /\ Len(Append(o, f)) = Len(o) + 1
      /\ \A i \in 1 .. Len(o) : Append(o, f)[i] = o[i]
  BY AppendProperties, LenProperties
<1>2. 1 .. Len(o) \subseteq 1 .. Len(Append(o, f))
  BY <1>1
<1>3. \A c : Good(c, o, z) => Good(c, Append(o, f), z)
  BY <1>1, <1>2 DEF Good
<1>4. Sound(p, g, o, z) => Sound(p, g, Append(o, f), z)
  BY <1>3 DEF Sound
<1>5. GotInOrder(g, o, z) => GotInOrder(g, Append(o, f), z)
  BY <1>1, <1>2 DEF GotInOrder
<1> QED
  BY <1>4, <1>5

\* A frame that is sent after the others comes after them.
LEMMA FrameIsSent ==
  ASSUME NEW p \in Seq(Cell), NEW g \in Seq(Frame), NEW o \in Seq(Frame), NEW z,
         NEW f \in Frame, f.seq = Len(o) + 1, f.len >= 1,
         Sound(p, g, o, z), Whole(p, g, o, z), GotInOrder(g, o, z)
  PROVE  /\ Sound(p \o Cells(f), g, Append(o, f), z)
         /\ Whole(p \o Cells(f), g, Append(o, f), z)
<1> DEFINE q == p \o Cells(f)
           r == Append(o, f)
<1>1. /\ f.len \in Nat /\ f.seq \in Nat /\ Len(Cells(f)) = f.len
      /\ Cells(f) \in Seq(Cell)
      /\ \A i \in 1 .. f.len : Cells(f)[i] = [frame |-> f, at |-> i]
  BY CellsOfFrame
<1>2. /\ q \in Seq(Cell) /\ Len(p) \in Nat /\ Len(q) = Len(p) + f.len
      /\ \A i \in 1 .. Len(p) : q[i] = p[i]
      /\ \A i \in 1 .. f.len : q[Len(p) + i] = [frame |-> f, at |-> i]
  BY <1>1, Parts
<1>3. /\ Len(o) \in Nat /\ Len(r) = Len(o) + 1 /\ r[Len(o) + 1] = f
      /\ \A i \in 1 .. Len(o) : r[i] = o[i]
  BY AppendProperties, LenProperties
<1>4. \A k \in 1 .. Len(q) :
        \/ k \in 1 .. Len(p) /\ q[k] = p[k]
        \/ k - Len(p) \in 1 .. f.len /\ q[k] = [frame |-> f, at |-> k - Len(p)]
  <2> TAKE k \in 1 .. Len(q)
  <2>1. CASE k <= Len(p)
    BY <1>1, <1>2, <2>1
  <2>2. CASE k > Len(p)
    <3>1. k - Len(p) \in 1 .. f.len /\ Len(p) + (k - Len(p)) = k
      BY <1>1, <1>2, <2>2
    <3> QED
      BY <1>2, <3>1
  <2> QED
    BY <1>1, <1>2, <2>1, <2>2
<1> HIDE DEF q, r
<1>5. ASSUME NEW k \in 1 .. Len(p)
      PROVE  /\ p[k] \in Cell /\ p[k].frame.seq \in Nat /\ p[k].frame.len \in Nat
             /\ p[k].at \in Nat /\ p[k].frame.seq <= Len(o)
  <2>1. p[k] \in Cell
    BY ElementOfSeq
  <2>2. Good(p[k], o, z)
    BY DEF Sound
  <2>3. p[k].frame.seq \in Nat /\ p[k].frame.len \in Nat /\ p[k].at \in Nat
    BY <2>1 DEF Cell, Frame
  <2>4. p[k].frame.seq <= Len(o)
    BY <1>3, <2>2 DEF Good, Noise, NoFrame
  <2> QED
    BY <2>1, <2>3, <2>4
<1>6. Ordered(q)
  <2> SUFFICES ASSUME NEW k \in 1 .. Len(q), NEW l \in 1 .. Len(q), k <= l
               PROVE  Rel(q[k], q[l], l - k)
    BY DEF Ordered
  <2>1. CASE l \in 1 .. Len(p)
    <3>1. k \in 1 .. Len(p)
      BY <1>2, <2>1
    <3>2. Rel(p[k], p[l], l - k)
      BY <2>1, <3>1, OrderedPair DEF Sound
    <3> QED
      BY <1>2, <2>1, <3>1, <3>2
  <2>2. CASE k \in 1 .. Len(p) /\ l \notin 1 .. Len(p)
    <3>1. /\ q[k] = p[k] /\ q[l] = [frame |-> f, at |-> l - Len(p)]
          /\ l - Len(p) \in 1 .. f.len
      BY <1>2, <1>4, <2>2
    <3>2. PICK a \in Nat : a = p[k].frame.len
      BY <1>5, <2>2
    <3>3. PICK b \in Nat : b = p[k].at
      BY <1>5, <2>2
    <3>4. p[k].frame.seq \in Nat /\ p[k].frame.seq < f.seq
      BY <1>3, <1>5, <2>2
    <3>5. ASSUME p[k] # Noise
          PROVE  /\ k + a - b <= Len(p)
                 /\ k + a - b = Len(p) => p[k].frame.seq = Len(o)
      BY <2>2, <3>2, <3>3, <3>5 DEF Whole
    <3>6. ASSUME p[k] # Noise
          PROVE  /\ ~(l - k <= a - b)
                 /\ l - k = a - b + 1 => l - Len(p) = 1 /\ k + a - b = Len(p)
      <4>1. PICK m \in Nat : m = Len(p)
        BY <1>2
      <4>2. k \in Int /\ l \in Int /\ l - m >= 1 /\ k + a - b <= m
        BY <3>1, <3>5, <3>6, <4>1
      <4>3. ~(l - k <= a - b) /\ (l - k = a - b + 1 => l - m = 1 /\ k + a - b = m)
        BY <4>2
      <4> QED
        BY <4>1, <4>3
    <3>7. ASSUME p[k] # Noise, l - k = a - b + 1
          PROVE  l - Len(p) = 1 /\ f.seq = p[k].frame.seq + 1
      BY <3>5, <3>6, <3>7
    <3>8. Rel(p[k], [frame |-> f, at |-> l - Len(p)], l - k)
      BY <3>2, <3>3, <3>4, <3>6, <3>7 DEF Rel
    <3> QED
      BY <3>1, <3>8
  <2>3. CASE k \notin 1 .. Len(p)
    <3>1. /\ q[k] = [frame |-> f, at |-> k - Len(p)] /\ k - Len(p) \in 1 .. f.len
          /\ q[l] = [frame |-> f, at |-> l - Len(p)] /\ l - Len(p) \in 1 .. f.len
      BY <1>2, <1>4, <2>3
    <3>2. l - k <= f.len - (k - Len(p)) /\ (k - Len(p)) + (l - k) = l - Len(p)
      BY <1>1, <1>2, <3>1
    <3>3. Rel([frame |-> f, at |-> k - Len(p)], [frame |-> f, at |-> l - Len(p)], l - k)
      <4> DEFINE c == [frame |-> f, at |-> k - Len(p)]
                 d == [frame |-> f, at |-> l - Len(p)]
      <4>1. c.frame = f /\ c.at = k - Len(p) /\ d.frame = f /\ d.at = l - Len(p)
            /\ d = [frame |-> c.frame, at |-> c.at + (l - k)]
        BY <3>2
      <4>2. l - k \in Int /\ f.len - (k - Len(p)) \in Int
        BY <1>1, <1>2
      <4> HIDE DEF c, d
      <4>3. Rel(c, d, l - k)
        BY <1>1, <3>2, <4>1, <4>2 DEF Rel
      <4> QED
        BY <4>3 DEF c, d
    <3> QED
      BY <3>1, <3>3
  <2> QED
    BY <2>1, <2>2, <2>3
<1>7. ASSUME NEW k \in 1 .. Len(q) PROVE Good(q[k], r, z)
  <2>1. CASE k \in 1 .. Len(p) /\ q[k] = p[k]
    <3>1. Good(p[k], o, z)
      BY <2>1 DEF Sound
    <3> QED
      BY <1>3, <2>1, <3>1 DEF Good
  <2>2. CASE k - Len(p) \in 1 .. f.len /\ q[k] = [frame |-> f, at |-> k - Len(p)]
    BY <1>1, <1>2, <1>3, <2>2 DEF Good, Noise
  <2> QED
    BY <1>4, <2>1, <2>2
<1>8. ASSUME NEW i \in 1 .. Len(g), NEW k \in 1 .. Len(q)
      PROVE  g[i].seq < q[k].frame.seq
  <2>1. CASE k \in 1 .. Len(p) /\ q[k] = p[k]
    BY <2>1 DEF Sound
  <2>2. CASE k - Len(p) \in 1 .. f.len /\ q[k] = [frame |-> f, at |-> k - Len(p)]
    <3>1. g[i].seq \in 1 .. Len(o)
      BY DEF GotInOrder
    <3> QED
      BY <1>3, <2>2, <3>1
  <2> QED
    BY <1>4, <2>1, <2>2
<1>9. z = 0 => q[1].at = 1 /\ q[1].frame.seq = Len(g) + 1
  <2> SUFFICES ASSUME z = 0 PROVE q[1].at = 1 /\ q[1].frame.seq = Len(g) + 1
    OBVIOUS
  <2>1. CASE Len(p) = 0
    <3>1. Len(g) = Len(o)
      BY <2>1 DEF Whole
    <3>2. q[1] = [frame |-> f, at |-> 1]
      <4>1. 1 \in 1 .. f.len /\ Len(p) + 1 = 1
        BY <1>1, <2>1
      <4> QED
        BY <1>2, <4>1
    <3> QED
      BY <3>1, <3>2
  <2>2. CASE Len(p) > 0
    <3>1. q[1] = p[1]
      BY <1>2, <2>2
    <3> QED
      BY <2>2, <3>1 DEF Sound
  <2> QED
    BY <1>2, <2>1, <2>2
<1>10. Sound(q, g, r, z)
  BY <1>6, <1>7, <1>8, <1>9 DEF Sound
<1>11. ASSUME NEW k \in 1 .. Len(q), q[k] # Noise
       PROVE  /\ k + q[k].frame.len - q[k].at <= Len(q)
              /\ k + q[k].frame.len - q[k].at = Len(q) => q[k].frame.seq = Len(r)
  <2>1. CASE k \in 1 .. Len(p) /\ q[k] = p[k]
    <3>1. PICK a \in Nat : a = p[k].frame.len
      BY <1>5, <2>1
    <3>2. PICK b \in Nat : b = p[k].at
      BY <1>5, <2>1
    <3>3. k + a - b <= Len(p)
      BY <1>11, <2>1, <3>1, <3>2 DEF Whole
    <3>4. k + a - b < Len(q)
      BY <1>1, <1>2, <3>3
    <3> QED
      <4>1. PICK m \in Nat : m = Len(q)
        BY <1>1, <1>2
      <4>2. q[k].frame.len = a /\ q[k].at = b /\ k \in Int
        BY <2>1, <3>1, <3>2
      <4>3. k + a - b <= m /\ k + a - b # m
        BY <3>4, <4>1, <4>2
      <4> QED
        BY <4>1, <4>2, <4>3
  <2>2. CASE k - Len(p) \in 1 .. f.len /\ q[k] = [frame |-> f, at |-> k - Len(p)]
    <3>1. k + f.len - (k - Len(p)) = Len(q)
      BY <1>1, <1>2
    <3> QED
      BY <1>1, <1>2, <1>3, <2>2, <3>1
  <2> QED
    BY <1>4, <2>1, <2>2
<1>12. Len(q) # 0
  BY <1>1, <1>2
<1>13. Whole(q, g, r, z)
  BY <1>11, <1>12 DEF Whole
<1> QED
  BY <1>10, <1>13 DEF q, r

-----------------------------------------------------------------------------
(***************************************************************************)
(* The invariant, step by step.                                            *)
(***************************************************************************)

\* What the steps below are about: the stream, with what s has yet to write.
Arrived == buffer \o wire
Pending(s) == Arrived \o out[s]

\* These are sequences of cells.
LEMMA StreamTypes ==
  ASSUME TypeInv
  PROVE  /\ buffer \in Seq(Cell) /\ wire \in Seq(Cell) /\ Arrived \in Seq(Cell)
         /\ order \in Seq(Frame) /\ got \in Seq(Frame) /\ env.noise \in Nat
         /\ \A s \in Senders : out[s] \in Seq(Cell) /\ Pending(s) \in Seq(Cell)
<1>1. buffer \in Seq(Cell) /\ wire \in Seq(Cell) /\ \A s \in Senders : out[s] \in Seq(Cell)
  BY DEF TypeInv
<1>2. Arrived \in Seq(Cell)
  BY <1>1, ConcatProperties DEF Arrived
<1>3. \A s \in Senders : Pending(s) \in Seq(Cell)
  BY <1>1, <1>2, ConcatProperties DEF Pending
<1>4. order \in Seq(Frame) /\ got \in Seq(Frame) /\ env.noise \in Nat
  BY FrameAssumption DEF TypeInv
<1> QED
  BY <1>1, <1>2, <1>3, <1>4

\* Nothing but noise is on the stream at first.
LEMMA InitInv == Init => IndInv
<1> SUFFICES ASSUME Init PROVE IndInv
  OBVIOUS
<1>1. /\ env \in Environments /\ env.noise \in Nat
      /\ env.plan \in [Senders -> Seq(Nat)]
      /\ \A s \in Senders : \A i \in 1 .. Len(env.plan[s]) : env.plan[s][i] >= Header
  BY FrameAssumption DEF Init
<1>2. Noise \in Cell
  BY DEF Noise, NoFrame, Cell, Frame
<1>3. /\ wire = [i \in 1 .. env.noise |-> Noise]
      /\ wire \in Seq(Cell) /\ Len(wire) = env.noise
      /\ \A i \in 1 .. env.noise : wire[i] = Noise
  BY <1>1, <1>2 DEF Init
<1>4. TypeInv
  <2>1. /\ sender = [s \in Senders |-> "idle"] /\ out = [s \in Senders |-> <<>>]
        /\ plan = env.plan /\ seq = 0 /\ order = <<>> /\ got = <<>> /\ buffer = <<>>
    BY DEF Init
  <2>2. <<>> \in Seq(Cell) /\ <<>> \in Seq(Frame) /\ Len(<<>>) = 0
    BY EmptySeq
  <2> QED
    BY <1>1, <1>3, <2>1, <2>2 DEF TypeInv
<1>5. Arrived = wire /\ \A s \in Senders : Pending(s) = wire
  <2>1. Arrived = wire
    BY <1>3, ConcatEmptySeq DEF Init, Arrived
  <2>2. \A s \in Senders : out[s] = <<>>
    BY DEF Init
  <2> QED
    BY <1>3, <2>1, <2>2, ConcatEmptySeq DEF Pending
<1>6. got = <<>> /\ order = <<>> /\ Len(got) = 0 /\ Len(order) = 0
  BY DEF Init
<1>7. Sound(wire, got, order, env.noise)
  <2>1. \A n \in Int : Rel(Noise, Noise, n)
    BY DEF Rel, Noise, NoFrame
  <2>2. Ordered(wire)
    <3> SUFFICES ASSUME NEW k \in 1 .. Len(wire), NEW l \in 1 .. Len(wire)
                 PROVE  Rel(wire[k], wire[l], l - k)
      BY DEF Ordered
    <3>1. wire[k] = Noise /\ wire[l] = Noise /\ l - k \in Int
      BY <1>1, <1>3
    <3> QED
      BY <2>1, <3>1
  <2>3. \A k \in 1 .. Len(wire) : Good(wire[k], order, env.noise)
    BY <1>1, <1>3 DEF Good
  <2>4. ~(\E i \in 1 .. Len(got) : TRUE) /\ ~(env.noise = 0 /\ Len(wire) > 0)
    BY <1>3, <1>6
  <2> QED
    BY <2>2, <2>3, <2>4 DEF Sound
<1>8. Whole(wire, got, order, env.noise)
  BY <1>3, <1>6 DEF Whole
<1>9. GotInOrder(got, order, env.noise)
  BY <1>6 DEF GotInOrder
<1> QED
  BY <1>4, <1>5, <1>7, <1>8, <1>9 DEF IndInv, Arrived, Pending

\* A step that leaves the stream, and who writes to it, alone.
LEMMA StreamUnchanged ==
  ASSUME IndInv, TypeInv',
         UNCHANGED <<env, cancel, out, order, wire, buffer, got>>,
         \A s \in Senders : sender'[s] = "writing" <=> sender[s] = "writing"
  PROVE  IndInv'
<1>1. \A s \in Senders : Alone(s)' <=> Alone(s)
  BY DEF Alone
<1>2. ~cancel' =>
        \A s \in Senders :
          Alone(s)' => /\ Sound((buffer \o wire) \o out[s], got, order, env.noise)
                       /\ Whole((buffer \o wire) \o out[s], got, order, env.noise)
  BY <1>1 DEF IndInv
<1> QED
  BY <1>2 DEF IndInv

\* A refused frame is no longer planned.
LEMMA CheckInv == ASSUME IndInv, NEW s \in Senders, Check(s) PROVE IndInv'
<1>1. /\ UNCHANGED <<env, cancel, seq, out, order, wire, buffer, got>>
      /\ sender[s] = "idle" /\ plan[s] # <<>>
      /\ \/ sender' = [sender EXCEPT ![s] = "checked"] /\ plan' = plan
         \/ plan' = [plan EXCEPT ![s] = Tail(@)] /\ sender' = sender
  BY DEF Check
<1>2. /\ sender \in [Senders -> {"idle", "checked", "writing"}]
      /\ plan \in [Senders -> Seq(Nat)] /\ plan[s] \in Seq(Nat)
  BY DEF IndInv, TypeInv
<1>3. /\ Tail(plan[s]) \in Seq(Nat)
      /\ \A i \in 1 .. Len(Tail(plan[s])) : Tail(plan[s])[i] >= Header
  <2>1. /\ Tail(plan[s]) \in Seq(Nat) /\ Len(Tail(plan[s])) = Len(plan[s]) - 1
        /\ \A i \in 1 .. Len(Tail(plan[s])) : Tail(plan[s])[i] = plan[s][i + 1]
    BY <1>1, <1>2, HeadTailProperties
  <2>2. /\ Len(plan[s]) \in Nat
        /\ \A i \in 1 .. Len(plan[s]) : plan[s][i] >= Header
    BY <1>2, LenProperties DEF IndInv, TypeInv
  <2>3. \A i \in 1 .. Len(Tail(plan[s])) : i + 1 \in 1 .. Len(plan[s])
    BY <2>1, <2>2
  <2> QED
    BY <2>1, <2>2, <2>3
<1>4. CASE sender' = [sender EXCEPT ![s] = "checked"] /\ plan' = plan
  <2>1. TypeInv'
    BY <1>1, <1>2, <1>4 DEF IndInv, TypeInv
  <2>2. \A t \in Senders : sender'[t] = "writing" <=> sender[t] = "writing"
    BY <1>1, <1>2, <1>4
  <2> QED
    BY <1>1, <2>1, <2>2, StreamUnchanged
<1>5. CASE plan' = [plan EXCEPT ![s] = Tail(@)] /\ sender' = sender
  <2>1. plan' \in [Senders -> Seq(Nat)]
    BY <1>2, <1>3, <1>5
  <2>2. \A t \in Senders : plan'[t] = IF t = s THEN Tail(plan[s]) ELSE plan[t]
    BY <1>2, <1>5
  <2>3. \A t \in Senders : \A i \in 1 .. Len(plan'[t]) : plan'[t][i] >= Header
    BY <1>3, <2>2 DEF IndInv, TypeInv
  <2>4. \A t \in Senders : sender'[t] = "checked" => plan'[t] # <<>>
    BY <1>1, <1>5, <2>2 DEF IndInv, TypeInv
  <2>5. TypeInv'
    BY <1>1, <1>5, <2>1, <2>3, <2>4 DEF IndInv, TypeInv
  <2> QED
    BY <1>1, <1>5, <2>5, StreamUnchanged
<1> QED
  BY <1>1, <1>4, <1>5

\* A thread takes the mutex: its frame comes after all the others.
LEMMA LockInv == ASSUME IndInv, NEW s \in Senders, Lock(s) PROVE IndInv'
<1> DEFINE f == FrameOf(s, seq + 1, Head(plan[s]))
<1>1. /\ UNCHANGED <<env, cancel, wire, buffer, got>>
      /\ sender[s] = "checked" /\ \A t \in Senders : sender[t] # "writing"
      /\ sender' = [sender EXCEPT ![s] = "writing"]
      /\ out' = [out EXCEPT ![s] = Cells(f)] /\ order' = Append(order, f)
      /\ plan' = [plan EXCEPT ![s] = Tail(@)] /\ seq' = seq + 1
  BY DEF Lock
<1>2. /\ sender \in [Senders -> {"idle", "checked", "writing"}]
      /\ plan \in [Senders -> Seq(Nat)] /\ plan[s] \in Seq(Nat) /\ plan[s] # <<>>
      /\ out \in [Senders -> Seq(Cell)] /\ \A t \in Senders : out[t] = <<>>
      /\ order \in Seq(Frame) /\ got \in Seq(Frame) /\ Len(order) \in Nat
      /\ seq = Len(order)
  BY <1>1, LenProperties DEF IndInv, TypeInv
<1>3. /\ Head(plan[s]) \in Nat /\ Head(plan[s]) >= Header
      /\ Tail(plan[s]) \in Seq(Nat)
      /\ \A i \in 1 .. Len(Tail(plan[s])) : Tail(plan[s])[i] >= Header
  <2>1. /\ Tail(plan[s]) \in Seq(Nat) /\ Len(Tail(plan[s])) = Len(plan[s]) - 1
        /\ \A i \in 1 .. Len(Tail(plan[s])) : Tail(plan[s])[i] = plan[s][i + 1]
        /\ Head(plan[s]) \in Nat
    BY <1>2, HeadTailProperties
  <2>2. /\ Len(plan[s]) \in Nat
        /\ \A i \in 1 .. Len(plan[s]) : plan[s][i] >= Header
    BY <1>2, LenProperties DEF IndInv, TypeInv
  <2>3. \A i \in 1 .. Len(Tail(plan[s])) : i + 1 \in 1 .. Len(plan[s])
    BY <2>1, <2>2
  <2>4. Head(plan[s]) = plan[s][1] /\ 1 \in 1 .. Len(plan[s])
    BY <1>2, <2>2
  <2> QED
    BY <2>1, <2>2, <2>3, <2>4
<1>4. f \in Frame /\ f.seq = Len(order) + 1 /\ f.len >= 1
  BY <1>2, <1>3, FrameAssumption DEF FrameOf, Frame
<1> HIDE DEF f
<1>5. /\ Cells(f) \in Seq(Cell) /\ order' \in Seq(Frame)
      /\ Len(order') = Len(order) + 1
  BY <1>1, <1>2, <1>4, CellsOfFrame, AppendProperties
<1>6. TypeInv'
  <2>1. plan' \in [Senders -> Seq(Nat)] /\ out' \in [Senders -> Seq(Cell)]
        /\ sender' \in [Senders -> {"idle", "checked", "writing"}]
    BY <1>1, <1>2, <1>3, <1>5
  <2>2. \A t \in Senders :
          /\ plan'[t] = IF t = s THEN Tail(plan[s]) ELSE plan[t]
          /\ sender'[t] = IF t = s THEN "writing" ELSE sender[t]
          /\ t # s => out'[t] = out[t]
    BY <1>1, <1>2
  <2>3. \A t \in Senders : \A i \in 1 .. Len(plan'[t]) : plan'[t][i] >= Header
    BY <1>3, <2>2 DEF IndInv, TypeInv
  <2>4. /\ \A t \in Senders : sender'[t] = "checked" => plan'[t] # <<>>
        /\ \A t \in Senders : sender'[t] # "writing" => out'[t] = <<>>
        /\ \A t, u \in Senders : sender'[t] = "writing" /\ sender'[u] = "writing" => t = u
    BY <1>1, <1>2, <2>2 DEF IndInv, TypeInv
  <2> QED
    BY <1>1, <1>2, <1>5, <2>1, <2>3, <2>4 DEF IndInv, TypeInv
<1>7. /\ GotInOrder(got, order', env.noise)
      /\ Sound(Arrived, got, order', env.noise)
  BY <1>1, <1>2, <1>4, OrderGrows DEF IndInv, Arrived
<1>8. ASSUME ~cancel, NEW t \in Senders, Alone(t)'
      PROVE  /\ Sound(Arrived \o out'[t], got, order', env.noise)
             /\ Whole(Arrived \o out'[t], got, order', env.noise)
  <2>1. t = s /\ out'[t] = Cells(f)
    BY <1>1, <1>2, <1>8 DEF Alone
  <2>2. Alone(s) /\ out[s] = <<>> /\ Arrived \in Seq(Cell)
    BY <1>1, <1>2, StreamTypes DEF Alone, IndInv
  <2>3. Arrived \o out[s] = Arrived
    BY <2>2, ConcatEmptySeq
  <2>4. Sound(Arrived, got, order, env.noise) /\ Whole(Arrived, got, order, env.noise)
    BY <1>8, <2>2, <2>3 DEF IndInv, Arrived
  <2>5. GotInOrder(got, order, env.noise)
    BY DEF IndInv
  <2>6. /\ Sound(Arrived \o Cells(f), got, Append(order, f), env.noise)
        /\ Whole(Arrived \o Cells(f), got, Append(order, f), env.noise)
    BY <1>2, <1>4, <2>2, <2>4, <2>5, FrameIsSent
  <2> QED
    BY <1>1, <2>1, <2>6
<1> QED
  BY <1>1, <1>6, <1>7, <1>8 DEF IndInv, Arrived

\* Three parts may be joined in either order.
LEMMA CellsJoin ==
  ASSUME NEW a \in Seq(Cell), NEW b \in Seq(Cell), NEW c \in Seq(Cell)
  PROVE  (a \o b) \o c = a \o (b \o c)
BY ConcatAssociative

\* Joined cells are cells.
LEMMA CellsConcat ==
  ASSUME NEW a \in Seq(Cell), NEW b \in Seq(Cell)
  PROVE  a \o b \in Seq(Cell)
BY ConcatProperties

\* A piece moves from the thread that has the mutex to the wire.
LEMMA WritePieceInv ==
  ASSUME IndInv, NEW s \in Senders, NEW n \in 1 .. Len(out[s]), WritePiece(s, n)
  PROVE  IndInv'
<1> DEFINE x == SubSeq(out[s], 1, n)
           y == SubSeq(out[s], n + 1, Len(out[s]))
<1>1. /\ UNCHANGED <<env, cancel, sender, plan, seq, order, buffer, got>>
      /\ sender[s] = "writing" /\ ~cancel
      /\ wire' = wire \o x /\ out' = [out EXCEPT ![s] = y]
  BY DEF WritePiece
<1>2. /\ out \in [Senders -> Seq(Cell)] /\ out[s] \in Seq(Cell)
      /\ wire \in Seq(Cell) /\ buffer \in Seq(Cell) /\ Arrived \in Seq(Cell)
  BY StreamTypes DEF IndInv, TypeInv
<1>3. x \in Seq(Cell) /\ y \in Seq(Cell) /\ x \o y = out[s]
  <2>1. n \in 0 .. Len(out[s])
    BY <1>2, LenProperties
  <2> QED
    BY <1>2, <2>1, Split
<1> HIDE DEF x, y
<1>4. /\ wire' \in Seq(Cell) /\ buffer' = buffer
      /\ buffer' \o wire' = Arrived \o x
      /\ (buffer' \o wire') \o y = Arrived \o out[s]
  <2>1. wire \o x \in Seq(Cell) /\ buffer \o (wire \o x) = Arrived \o x
    <3>1. (buffer \o wire) \o x = buffer \o (wire \o x)
      BY <1>2, <1>3, CellsJoin
    <3>2. wire \o x \in Seq(Cell)
      BY <1>2, <1>3, CellsConcat
    <3> QED
      BY Zenon, <3>1, <3>2 DEF Arrived
  <2>2. (Arrived \o x) \o y = Arrived \o (x \o y)
    BY Zenon, <1>2, <1>3, CellsJoin, CellsConcat
  <2> QED
    BY <1>1, <1>3, <2>1, <2>2
<1>5. \A t \in Senders : t # s => sender[t] # "writing" /\ out'[t] = out[t]
  BY <1>1, <1>2 DEF IndInv, TypeInv
<1>6. out' \in [Senders -> Seq(Cell)] /\ out'[s] = y
  BY <1>1, <1>2, <1>3
<1>7. TypeInv'
  BY <1>1, <1>4, <1>5, <1>6 DEF IndInv, TypeInv
<1>8. /\ Sound(Arrived \o out[s], got, order, env.noise)
      /\ Whole(Arrived \o out[s], got, order, env.noise)
  BY <1>1, <1>5 DEF IndInv, Arrived, Alone
<1>9. Sound(Arrived \o x, got, order, env.noise)
  <2>1. Arrived \o x \in Seq(Cell)
    BY Zenon, <1>2, <1>3, CellsJoin, CellsConcat
  <2>2. (Arrived \o x) \o y = Arrived \o out[s]
    BY <1>1, <1>4
  <2> QED
    BY <1>3, <1>8, <2>1, <2>2, SoundBeginning
<1>10. ASSUME NEW t \in Senders, Alone(t)'
       PROVE  /\ Sound((buffer' \o wire') \o out'[t], got, order, env.noise)
              /\ Whole((buffer' \o wire') \o out'[t], got, order, env.noise)
  <2>1. t = s
    BY <1>1, <1>10 DEF Alone
  <2> QED
    BY <1>4, <1>6, <1>8, <2>1
<1> QED
  BY <1>1, <1>4, <1>7, <1>9, <1>10 DEF IndInv

\* The mutex is released with everything written, or after the cancellation.
LEMMA UnlockInv ==
  ASSUME NoTimeouts, IndInv, NEW s \in Senders, Unlock(s) PROVE IndInv'
<1>1. /\ UNCHANGED <<env, cancel, plan, seq, order, wire, buffer, got>>
      /\ sender[s] = "writing" /\ (out[s] = <<>> \/ cancel \/ env.times_out)
      /\ sender' = [sender EXCEPT ![s] = "idle"]
      /\ out' = [out EXCEPT ![s] = <<>>]
  BY DEF Unlock
<1>2. /\ sender \in [Senders -> {"idle", "checked", "writing"}]
      /\ out \in [Senders -> Seq(Cell)] /\ ~env.times_out
  BY DEF IndInv, TypeInv, NoTimeouts
<1>3. \A t \in Senders : t # s => sender[t] # "writing" /\ out[t] = <<>>
  BY <1>1 DEF IndInv, TypeInv
<1>4. /\ sender' \in [Senders -> {"idle", "checked", "writing"}]
      /\ out' \in [Senders -> Seq(Cell)]
      /\ \A t \in Senders : sender'[t] # "writing" /\ out'[t] = <<>>
      /\ \A t \in Senders : sender'[t] = "checked" => sender[t] = "checked"
  BY <1>1, <1>2, <1>3, EmptySeq
<1>5. TypeInv'
  BY <1>1, <1>4 DEF IndInv, TypeInv
<1>6. ASSUME ~cancel, NEW t \in Senders
      PROVE  /\ Sound((buffer \o wire) \o out'[t], got, order, env.noise)
             /\ Whole((buffer \o wire) \o out'[t], got, order, env.noise)
  <2>1. out[s] = <<>> /\ out'[t] = <<>>
    BY <1>1, <1>2, <1>4, <1>6
  <2>2. Alone(s)
    BY <1>3 DEF Alone
  <2>3. /\ Sound((buffer \o wire) \o out[s], got, order, env.noise)
        /\ Whole((buffer \o wire) \o out[s], got, order, env.noise)
    BY <1>6, <2>2 DEF IndInv
  <2> QED
    BY <2>1, <2>3
<1> QED
  BY <1>1, <1>5, <1>6 DEF IndInv

\* A piece moves from the wire to the buffer.
LEMMA ReadInv ==
  ASSUME IndInv, NEW n \in 1 .. Chunk, Read(n) PROVE IndInv'
<1> DEFINE x == SubSeq(wire, 1, n)
           y == SubSeq(wire, n + 1, Len(wire))
<1>1. /\ UNCHANGED <<env, cancel, sender, plan, seq, out, order, got>>
      /\ n \in 1 .. Len(wire) /\ buffer' = buffer \o x /\ wire' = y
  BY DEF Read, sending
<1>2. wire \in Seq(Cell) /\ buffer \in Seq(Cell)
  BY DEF IndInv, TypeInv
<1>3. x \in Seq(Cell) /\ y \in Seq(Cell) /\ x \o y = wire
  <2>1. n \in 0 .. Len(wire)
    BY <1>1, <1>2, LenProperties
  <2> QED
    BY <1>2, <2>1, Split
<1> HIDE DEF x, y
<1>4. buffer' \in Seq(Cell) /\ wire' \in Seq(Cell)
  BY Zenon, <1>1, <1>2, <1>3, CellsJoin, CellsConcat
<1>5. buffer' \o wire' = buffer \o wire
  BY Zenon, <1>1, <1>2, <1>3, CellsJoin, CellsConcat
<1>6. TypeInv'
  BY <1>1, <1>4 DEF IndInv, TypeInv
<1>7. \A s \in Senders : Alone(s)' <=> Alone(s)
  BY <1>1 DEF Alone
<1> QED
  BY <1>1, <1>5, <1>6, <1>7 DEF IndInv

\* A frame leaves the buffer whole, and is the next.
LEMMA PopInv == ASSUME IndInv, Pop PROVE IndInv'
<1> DEFINE f == buffer[1].frame
           x == SubSeq(buffer, 1, f.len)
           y == SubSeq(buffer, f.len + 1, Len(buffer))
<1>1. /\ UNCHANGED <<env, cancel, sender, plan, seq, out, order, wire>>
      /\ Complete /\ got' = Append(got, Taken) /\ buffer' = y
  BY DEF Pop, sending
<1>2. /\ wire \in Seq(Cell) /\ buffer \in Seq(Cell) /\ order \in Seq(Frame)
      /\ got \in Seq(Frame) /\ Len(buffer) \in Nat /\ Header \in Nat \ {0}
  BY LenProperties, FrameAssumption DEF IndInv, TypeInv
<1>3. Len(buffer) > 0 /\ buffer[1].at = 1 /\ Len(buffer) >= f.len
  BY <1>1, <1>2 DEF Complete, HasHeader, Aligned
<1>4. Sound(buffer \o wire, got, order, env.noise)
  BY DEF IndInv
<1>5. /\ f.seq \in 1 .. Len(order) /\ f = order[f.seq] /\ f.len >= 1
      /\ \A i \in 1 .. f.len : buffer[i] = [frame |-> f, at |-> i]
  BY <1>2, <1>3, <1>4, FirstFrame
<1>6. buffer[1] \in Cell /\ f \in Frame /\ f.len \in Nat
  <2>1. buffer[1] \in Cell
    BY <1>2, <1>3, ElementOfSeq
  <2> QED
    BY <2>1 DEF Cell, Frame
<1>7. /\ x \in Seq(Cell) /\ y \in Seq(Cell) /\ x \o y = buffer /\ Len(x) = f.len
      /\ \A i \in 1 .. f.len : x[i] = buffer[i]
  <2>1. f.len \in 0 .. Len(buffer)
    BY <1>2, <1>3, <1>6
  <2>2. PICK n \in 0 .. Len(buffer) : n = f.len
    BY <2>1
  <2>3. /\ SubSeq(buffer, 1, n) \in Seq(Cell)
        /\ SubSeq(buffer, n + 1, Len(buffer)) \in Seq(Cell)
        /\ Len(SubSeq(buffer, 1, n)) = n
        /\ SubSeq(buffer, 1, n) \o SubSeq(buffer, n + 1, Len(buffer)) = buffer
        /\ \A i \in 1 .. n : SubSeq(buffer, 1, n)[i] = buffer[i]
    BY <1>2, Split
  <2> QED
    BY Zenon, <2>2, <2>3
<1>8. x[1] = buffer[1]
  BY <1>5, <1>6, <1>7
<1>9. Taken = f
  <2>1. /\ Cells(f) \in Seq(Cell) /\ Len(Cells(f)) = f.len
        /\ \A i \in 1 .. f.len : Cells(f)[i] = [frame |-> f, at |-> i]
    BY <1>6, CellsOfFrame
  <2>2. \A i \in 1 .. Len(x) : x[i] = Cells(f)[i]
    BY <1>5, <1>7, <2>1
  <2>3. x = Cells(f)
    BY <1>7, <2>1, <2>2, SeqEqual
  <2> QED
    BY <2>3 DEF Taken
<1> HIDE DEF f, x, y
<1>10. /\ got' = Append(got, f) /\ got' \in Seq(Frame) /\ Len(got) \in Nat
       /\ Len(got') = Len(got) + 1 /\ got'[Len(got) + 1] = f
       /\ \A i \in 1 .. Len(got) : got'[i] = got[i]
  BY <1>1, <1>2, <1>6, <1>9, AppendProperties, LenProperties
<1>11. TypeInv'
  BY <1>1, <1>7, <1>10 DEF IndInv, TypeInv
<1>12. f = x[1].frame /\ x[1].at = 1 /\ Len(x) > 0 /\ Len(x) = x[1].frame.len
  BY <1>3, <1>5, <1>6, <1>7, <1>8 DEF f
<1>13. y \o wire \in Seq(Cell) /\ buffer \o wire = x \o (y \o wire)
  <2>1. x \in Seq(Cell) /\ y \in Seq(Cell) /\ wire \in Seq(Cell)
    BY <1>2, <1>7
  <2>2. (x \o y) \o wire = x \o (y \o wire)
    BY <2>1, CellsJoin
  <2>3. y \o wire \in Seq(Cell)
    BY <2>1, CellsConcat
  <2> QED
    BY Zenon, <1>7, <2>2, <2>3
<1>14. Sound(y \o wire, got', order, env.noise)
  BY <1>2, <1>4, <1>7, <1>10, <1>12, <1>13, SoundAfterFrame
<1>15. GotInOrder(got', order, env.noise)
  <2>1. \A i \in 1 .. Len(got) : got[i].seq < f.seq
    <3>1. 1 \in 1 .. Len(buffer \o wire) /\ (buffer \o wire)[1] = buffer[1]
      BY <1>2, <1>3, Parts
    <3> QED
      BY <1>4, <3>1 DEF Sound, f
  <2>2. env.noise = 0 => f.seq = Len(got) + 1
    <3>1. Len(buffer \o wire) > 0 /\ (buffer \o wire)[1] = buffer[1]
      BY <1>2, <1>3, Parts
    <3> QED
      BY <1>4, <3>1 DEF Sound, f
  <2>3. GotInOrder(got, order, env.noise)
    BY DEF IndInv
  <2>4. \A i \in 1 .. Len(got') : i \in 1 .. Len(got) \/ i = Len(got) + 1
    BY <1>10
  <2>5. \A i \in 1 .. Len(got') : got'[i].seq \in 1 .. Len(order)
                                  /\ got'[i] = order[got'[i].seq]
    BY <1>5, <1>10, <2>3, <2>4 DEF GotInOrder
  <2>6. ASSUME NEW i \in 1 .. Len(got'), NEW j \in 1 .. Len(got'), i < j
        PROVE  got'[i].seq < got'[j].seq
    <3>1. i \in 1 .. Len(got)
      BY <1>10, <2>6
    <3>2. CASE j \in 1 .. Len(got)
      BY <1>10, <2>3, <2>6, <3>1, <3>2 DEF GotInOrder
    <3>3. CASE j = Len(got) + 1
      BY <1>10, <2>1, <3>1, <3>3
    <3> QED
      BY <2>4, <3>2, <3>3
  <2>7. env.noise = 0 => \A i \in 1 .. Len(got') : got'[i].seq = i
    BY <1>10, <2>2, <2>3, <2>4 DEF GotInOrder
  <2> QED
    BY <2>5, <2>6, <2>7 DEF GotInOrder
<1>16. ASSUME ~cancel, NEW s \in Senders, Alone(s)
       PROVE  /\ Sound((y \o wire) \o out[s], got', order, env.noise)
              /\ Whole((y \o wire) \o out[s], got', order, env.noise)
  <2>1. out[s] \in Seq(Cell)
    BY DEF IndInv, TypeInv
  <2>2. (y \o wire) \o out[s] \in Seq(Cell)
    BY Zenon, <1>13, <2>1, CellsJoin, CellsConcat
  <2>3. (buffer \o wire) \o out[s] = x \o ((y \o wire) \o out[s])
    <3>1. (x \o (y \o wire)) \o out[s] = x \o ((y \o wire) \o out[s])
      BY <1>7, <1>13, <2>1, CellsJoin
    <3> QED
      BY Zenon, <1>13, <3>1
  <2>4. /\ Sound(x \o ((y \o wire) \o out[s]), got, order, env.noise)
        /\ Whole(x \o ((y \o wire) \o out[s]), got, order, env.noise)
    BY <1>16, <2>3 DEF IndInv
  <2>5. Sound((y \o wire) \o out[s], got', order, env.noise)
    BY <1>2, <1>7, <1>10, <1>12, <2>2, <2>4, SoundAfterFrame
  <2>6. Whole((y \o wire) \o out[s], got', order, env.noise)
    BY <1>2, <1>7, <1>10, <1>12, <2>2, <2>4, WholeAfterFrame
  <2> QED
    BY <2>5, <2>6
<1>17. \A s \in Senders : Alone(s)' <=> Alone(s)
  BY <1>1 DEF Alone
<1> QED
  BY <1>1, <1>11, <1>14, <1>15, <1>16, <1>17 DEF IndInv

\* What is no header is dropped, or ends the connection.
LEMMA CorruptInv == ASSUME IndInv, Corrupt PROVE IndInv'
<1>1. /\ UNCHANGED <<env, cancel, sender, plan, seq, out, order, wire, got>>
      /\ HasHeader /\ ~Aligned
      /\ buffer' = <<>> \/ buffer' = buffer
  BY DEF Corrupt, sending
<1>2. /\ wire \in Seq(Cell) /\ buffer \in Seq(Cell)
      /\ Len(buffer) \in Nat /\ Header \in Nat \ {0}
  BY LenProperties, FrameAssumption DEF IndInv, TypeInv
<1>3. env.noise # 0
  <2>1. Len(buffer) > 0 /\ buffer[1].at # 1
    BY <1>1, <1>2 DEF HasHeader, Aligned
  <2>2. Len(buffer \o wire) > 0 /\ (buffer \o wire)[1] = buffer[1]
    BY <1>2, <2>1, Parts
  <2>3. Sound(buffer \o wire, got, order, env.noise)
    BY DEF IndInv
  <2> QED
    BY <2>1, <2>2, <2>3 DEF Sound
<1>4. CASE buffer' = buffer
  <2>1. TypeInv'
    BY <1>1, <1>4 DEF IndInv, TypeInv
  <2> QED
    BY <1>1, <1>4, <2>1, StreamUnchanged
<1>5. CASE buffer' = <<>>
  <2>1. buffer' \in Seq(Cell) /\ buffer' \o wire = wire
    BY <1>2, <1>5, EmptySeq, ConcatEmptySeq
  <2>2. TypeInv'
    BY <1>1, <2>1 DEF IndInv, TypeInv
  <2>3. Sound(wire, got, order, env.noise)
    BY <1>2, <1>3, SoundEnd DEF IndInv
  <2>4. ASSUME ~cancel, NEW s \in Senders, Alone(s)
        PROVE  /\ Sound(wire \o out[s], got, order, env.noise)
               /\ Whole(wire \o out[s], got, order, env.noise)
    <3>1. out[s] \in Seq(Cell)
      BY DEF IndInv, TypeInv
    <3>2. wire \o out[s] \in Seq(Cell)
      BY Zenon, <1>2, <3>1, CellsJoin, CellsConcat
    <3>3. (buffer \o wire) \o out[s] = buffer \o (wire \o out[s])
      BY Zenon, <1>2, <3>1, CellsJoin, CellsConcat
    <3>4. /\ Sound(buffer \o (wire \o out[s]), got, order, env.noise)
          /\ Whole(buffer \o (wire \o out[s]), got, order, env.noise)
      BY <2>4, <3>3 DEF IndInv
    <3> QED
      BY <1>2, <1>3, <3>2, <3>4, SoundEnd, WholeEnd
  <2>5. \A s \in Senders : Alone(s)' <=> Alone(s)
    BY <1>1 DEF Alone
  <2> QED
    BY <1>1, <2>1, <2>2, <2>3, <2>4, <2>5 DEF IndInv
<1> QED
  BY <1>1, <1>4, <1>5

-----------------------------------------------------------------------------
\* Every step keeps the invariant.
LEMMA StepInv ==
  ASSUME NoTimeouts, IndInv, [Next]_vars PROVE IndInv'
<1>1. ASSUME NEW s \in Senders, Sender(s) PROVE IndInv'
  BY <1>1, CheckInv, LockInv, WritePieceInv, UnlockInv DEF Sender
<1>2. CASE Stop
  <2>1. UNCHANGED <<env, cancel, sender, plan, seq, out, order, wire, buffer, got>>
    BY <1>2 DEF Stop
  <2>2. TypeInv'
    BY <2>1 DEF IndInv, TypeInv
  <2> QED
    BY <2>1, <2>2, StreamUnchanged
<1>3. CASE Cancel
  <2>1. UNCHANGED <<env, sender, plan, seq, out, order, wire, buffer, got>>
        /\ cancel' = TRUE
    BY <1>3 DEF Cancel
  <2>2. TypeInv'
    BY <2>1 DEF IndInv, TypeInv
  <2> QED
    BY <2>1, <2>2 DEF IndInv
<1>4. CASE Close
  <2>1. UNCHANGED <<env, cancel, sender, plan, seq, out, order, wire, buffer, got>>
    BY <1>4 DEF Close
  <2>2. TypeInv'
    BY <2>1 DEF IndInv, TypeInv
  <2> QED
    BY <2>1, <2>2, StreamUnchanged
<1>5. CASE Receiver
  <2>1. CASE Incomplete \/ ReadEof
    <3>1. UNCHANGED <<env, cancel, sender, plan, seq, out, order, wire, buffer, got>>
      BY <2>1 DEF Incomplete, ReadEof, sending
    <3>2. TypeInv'
      BY <3>1 DEF IndInv, TypeInv
    <3> QED
      BY <3>1, <3>2, StreamUnchanged
  <2> QED
    BY <1>5, <2>1, ReadInv, PopInv, CorruptInv DEF Receiver
<1>6. CASE UNCHANGED vars
  <2>1. UNCHANGED <<env, cancel, sender, plan, seq, out, order, wire, buffer, got>>
    BY <1>6 DEF vars, sending
  <2>2. TypeInv'
    BY <2>1 DEF IndInv, TypeInv
  <2> QED
    BY <2>1, <2>2, StreamUnchanged
<1> QED
  BY <1>1, <1>2, <1>3, <1>4, <1>5, <1>6 DEF Next

\* The stream between the frames that are sent and those handed on, however it
\* is cut into pieces (softbus_session.c, dfile_conn.c, stream_file.c).
THEOREM StreamInvariant == ASSUME NoTimeouts PROVE Spec => []IndInv
<1>1. Init => IndInv
  BY InitInv
<1>2. IndInv /\ [Next]_vars => IndInv'
  BY StepInv
<1> QED
  BY <1>1, <1>2, PTL DEF Spec

\* Only whole frames are handed on, in the order they were written, and without
\* noise all of them (_pump_thread, dc_drain, sf_on_data).
THEOREM WholeFramesInOrderHolds ==
  ASSUME NoTimeouts PROVE Spec => []WholeFramesInOrder
<1>1. IndInv => WholeFramesInOrder
  <2> SUFFICES ASSUME IndInv PROVE WholeFramesInOrder
    OBVIOUS
  <2>1. /\ GotInOrder(got, order, env.noise)
        /\ got \in Seq(Frame) /\ order \in Seq(Frame)
        /\ Len(got) \in Nat /\ Len(order) \in Nat
    BY LenProperties DEF IndInv, TypeInv
  <2>2. \A i \in 1 .. Len(got) : \E j \in 1 .. Len(order) : got[i] = order[j]
    BY <2>1 DEF GotInOrder
  <2>3. ASSUME env.noise = 0 PROVE got = SubSeq(order, 1, Len(got))
    <3>1. \A i \in 1 .. Len(got) : i \in 1 .. Len(order) /\ got[i] = order[i]
      BY <2>1, <2>3 DEF GotInOrder
    <3>2. Len(got) \in 0 .. Len(order)
      <4>1. CASE Len(got) = 0
        BY <2>1, <4>1
      <4>2. CASE Len(got) > 0
        <5>1. Len(got) \in 1 .. Len(got)
          BY <2>1, <4>2
        <5> QED
          BY <2>1, <3>1, <5>1
      <4> QED
        BY <2>1, <4>1, <4>2
    <3>3. /\ SubSeq(order, 1, Len(got)) \in Seq(Frame)
          /\ Len(SubSeq(order, 1, Len(got))) = Len(got)
          /\ \A i \in 1 .. Len(got) : SubSeq(order, 1, Len(got))[i] = order[i]
      BY <2>1, <3>2, Split
    <3>4. \A i \in 1 .. Len(got) : got[i] = SubSeq(order, 1, Len(got))[i]
      BY <3>1, <3>3
    <3> QED
      BY <2>1, <3>3, <3>4, SeqEqual
  <2> QED
    BY <2>2, <2>3 DEF WholeFramesInOrder
<1> QED
  BY <1>1, StreamInvariant, PTL

\* The numbers of the frames handed on grow: "seq is serialized by the write
\* mutex" (softbus_session_send).
THEOREM NumbersGrowHold == ASSUME NoTimeouts PROVE Spec => []NumbersGrow
<1>1. IndInv => NumbersGrow
  BY DEF IndInv, GotInOrder, NumbersGrow
<1> QED
  BY <1>1, StreamInvariant, PTL
=============================================================================
