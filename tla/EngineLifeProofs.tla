-------------------------- MODULE EngineLifeProofs --------------------------
(***************************************************************************)
(* Proofs about EngineLife for any number of threads and peers and any use *)
(* of the engine.                                                          *)
(***************************************************************************)
EXTENDS EngineLife, FiniteSetTheorems, SequenceTheorems, TLAPS

\* Whoever still has to give up a reference is one of finitely many, so that
\* the count is bounded and is zero only when nobody is left.
LEMMA Holders ==
  ASSUME NEW H \in SUBSET (Users \cup {"creator"})
  PROVE  /\ IsFiniteSet(H)
         /\ Cardinality(H) \in 0 .. Cardinality(Users) + 1
         /\ Cardinality(H) = 0 <=> H = {}
         /\ \A h \in H : Cardinality(H \ {h}) = Cardinality(H) - 1
<1>1. /\ IsFiniteSet(Users \cup {"creator"})
      /\ Cardinality(Users \cup {"creator"}) <= Cardinality(Users) + 1
      /\ Cardinality(Users) \in Nat
  <2>1. IsFiniteSet(Users)
    BY EngineAssumption
  <2>2. /\ IsFiniteSet(Users \cup {"creator"})
        /\ Cardinality(Users \cup {"creator"}) =
             IF "creator" \in Users THEN Cardinality(Users) ELSE Cardinality(Users) + 1
    BY <2>1, FS_AddElement, Zenon
  <2>3. Cardinality(Users) \in Nat
    BY <2>1, FS_CardinalityType
  <2> QED
    BY <2>2, <2>3
<1>2. /\ IsFiniteSet(H) /\ Cardinality(H) <= Cardinality(Users \cup {"creator"})
      /\ Cardinality(H) \in Nat
      /\ Cardinality(Users \cup {"creator"}) \in Nat
  BY <1>1, FS_Subset, FS_CardinalityType
<1>3. Cardinality(H) \in 0 .. Cardinality(Users) + 1
  BY <1>1, <1>2
<1>4. Cardinality(H) = 0 <=> H = {}
  BY <1>2, FS_EmptySet
<1>5. \A h \in H : Cardinality(H \ {h}) = Cardinality(H) - 1
  BY <1>2, FS_RemoveElement
<1> QED
  BY <1>2, <1>3, <1>4, <1>5

\* A step that gives up no reference, and does not end the thread, keeps the
\* count.
LEMMA CountKept ==
  ASSUME CountsHolders, UNCHANGED count, pc = "ended" <=> pc' = "ended"
  PROVE  CountsHolders'
  BY DEF CountsHolders, count

\* The same for a step in which h gives up its reference.
LEMMA CountDropped ==
  ASSUME TypeOK, CountsHolders, NEW h \in holds,
         holds' = holds \ {h}, Unref(1), pc' = pc
  PROVE  CountsHolders' /\ refs' \in 0 .. Cardinality(Users) + 2
<1>1. holds \in SUBSET (Users \cup {"creator"})
  BY DEF TypeOK, StructureTyped
<1>2. /\ Cardinality(holds) \in 0 .. Cardinality(Users) + 1
      /\ Cardinality(holds \ {h}) = Cardinality(holds) - 1
      /\ Cardinality(holds) # 0
  BY <1>1, Holders
<1>3. Cardinality(Users) \in Nat
  BY EngineAssumption, FS_CardinalityType
<1>4. Cardinality(holds') = Cardinality(holds) - 1
  BY <1>2
<1>5. refs = Cardinality(holds) + (IF pc = "ended" THEN 0 ELSE 1)
  BY DEF CountsHolders
<1>6. refs' = refs - 1 /\ freed' = (refs = 1)
  BY DEF Unref
<1> QED
  BY <1>2, <1>3, <1>4, <1>5, <1>6 DEF CountsHolders

\* The structure is created with its references and, for a DFile connection,
\* its peer.
LEMMA InitInv == Init => IndInv
<1> SUFFICES ASSUME Init PROVE IndInv
  OBVIOUS
<1>1. holds \in SUBSET (Users \cup {"creator"})
  BY EngineAssumption DEF Init
<1>2. Cardinality(holds) \in 0 .. Cardinality(Users) + 1 /\ Cardinality(Users) \in Nat
  BY <1>1, Holders, EngineAssumption, FS_CardinalityType
<1>3. refs = Cardinality(holds) + 1 /\ freed = FALSE /\ pc = "begin"
  BY DEF Init
<1>4. CountsHolders
  <2>1. refs = Cardinality(holds) + (IF pc = "ended" THEN 0 ELSE 1) /\ refs # 0
    BY <1>2, <1>3
  <2> QED
    BY <1>3, <2>1, Zenon DEF CountsHolders
<1>5. StructureTyped
  <2>1. refs \in 0 .. Cardinality(Users) + 2
    BY <1>2, <1>3
  <2> QED
    BY <1>1, <2>1, EngineAssumption DEF Init, StructureTyped
<1>6. ThreadTyped
  BY DEF Init, ThreadTyped
<1>7. PeersTyped
  BY DEF Init, PeersTyped
<1>8. PeersAccounted
  <2>1. ~env.late => callbacks
    BY EngineAssumption DEF Init
  <2>2. \A p \in Peers : notified[p] = 0 /\ p \notin closed
    BY DEF Init
  <2>3. invoked = <<>> /\ table = born /\ alive = born /\ todo = {} /\ ~closing
    BY DEF Init
  <2> QED
    BY <1>3, <2>1, <2>2, <2>3 DEF PeersAccounted, Fillp, AfterSocket
<1> QED
  BY <1>4, <1>5, <1>6, <1>7, <1>8 DEF IndInv, TypeOK

\* The calls of the application's threads.
LEMMA UserInv ==
  ASSUME IndInv, NEW u \in Users, User(u)
  PROVE  IndInv'
<1> USE DEF IndInv
<1>1. CASE close(u)
  <2>1. CountsHolders'
    BY <1>1, CountKept DEF close
  <2>2. StructureTyped'
    BY <1>1 DEF TypeOK, StructureTyped, close, count, peers
  <2>3. ThreadTyped'
    <3>1. Append(invoked, "close") \in Seq({"close"} \cup Peers)
      BY AppendProperties DEF TypeOK, ThreadTyped
    <3> QED
      BY <1>1, <3>1 DEF close, TypeOK, ThreadTyped
  <2>4. PeersTyped'
    BY <1>1 DEF TypeOK, PeersTyped, close, count, peers
  <2>5. PeersAccounted'
    BY <1>1
    DEF PeersAccounted, Fillp, AfterSocket, TypeOK, ThreadTyped, PeersTyped,
        close, count, peers
  <2> QED
    BY <2>1, <2>2, <2>3, <2>4, <2>5 DEF TypeOK
<1>2. ASSUME NEW p \in Peers, connect(u, p)
      PROVE  IndInv'
  <2>1. CountsHolders'
    BY <1>2, CountKept DEF connect
  <2>2. StructureTyped'
    BY <1>2 DEF TypeOK, StructureTyped, connect, count, flags, peers
  <2>3. ThreadTyped'
    BY <1>2 DEF TypeOK, ThreadTyped, connect, count, flags, peers
  <2>4. PeersTyped'
    <3>1. <<u, p>> \in Users \X Peers
      BY <1>2
    <3>2. sending' \subseteq Users \X Peers
      BY <1>2, <3>1 DEF connect, TypeOK, PeersTyped
    <3> QED
      BY <1>2, <3>2 DEF connect, TypeOK, PeersTyped, count, flags, peers
  <2>5. PeersAccounted'
    BY <1>2
    DEF PeersAccounted, Fillp, AfterSocket, TypeOK, ThreadTyped, PeersTyped,
        connect, count, flags, peers
  <2> QED
    BY <2>1, <2>2, <2>3, <2>4, <2>5 DEF TypeOK
<1>3. ASSUME NEW p \in Peers, NEW ok \in BOOLEAN, ConnectSend(u, p, ok)
      PROVE  IndInv'
  <2>1. CountsHolders'
    BY <1>3, CountKept DEF ConnectSend
  <2>2. StructureTyped'
    BY <1>3 DEF TypeOK, StructureTyped, ConnectSend, count, flags, peers
  <2>3. ThreadTyped'
    <3>1. Append(invoked, p) \in Seq({"close"} \cup Peers)
      BY <1>3, AppendProperties DEF TypeOK, ThreadTyped
    <3> QED
      BY <1>3, <3>1 DEF ConnectSend, TypeOK, ThreadTyped
  <2>4. PeersTyped'
    BY <1>3 DEF TypeOK, PeersTyped, ConnectSend, count, flags, peers
  <2>5. PeersAccounted'
    <3>1. \A i \in 1 .. Len(invoked') : invoked'[i] = "close" =>
            \E j \in 1 .. Len(invoked) : invoked[j] = "close"
      <4>1. invoked' \in {invoked, Append(invoked, p)}
        BY <1>3 DEF ConnectSend
      <4>2. invoked \in Seq({"close"} \cup Peers)
        BY DEF TypeOK, ThreadTyped
      <4>3. p # "close"
        BY <1>3, EngineAssumption
      <4> QED
        BY <1>3, <4>1, <4>2, <4>3, AppendProperties
    <3> QED
      BY <1>3, <3>1
      DEF ConnectSend, PeersAccounted, Fillp, AfterSocket, count, flags, peers
  <2> QED
    BY <2>1, <2>2, <2>3, <2>4, <2>5 DEF TypeOK
<1>4. CASE unref(u)
  <2>1. CountsHolders' /\ refs' \in 0 .. Cardinality(Users) + 2
    BY <1>4, CountDropped DEF unref
  <2>2. StructureTyped'
    BY <1>4, <2>1 DEF TypeOK, StructureTyped, unref, Unref, flags, peers
  <2>3. ThreadTyped'
    BY <1>4 DEF TypeOK, ThreadTyped, unref, Unref, flags, peers
  <2>4. PeersTyped'
    BY <1>4 DEF TypeOK, PeersTyped, unref, Unref, flags, peers
  <2>5. PeersAccounted'
    BY <1>4
    DEF PeersAccounted, Fillp, AfterSocket, TypeOK, ThreadTyped, PeersTyped,
        unref, Unref, flags, peers
  <2> QED
    BY <2>1, <2>2, <2>3, <2>4, <2>5 DEF TypeOK
<1> QED
  BY <1>1, <1>2, <1>3, <1>4 DEF User

\* The engine thread up to the end of its loop, and what arrives in it.
LEMMA LoopInv ==
  ASSUME IndInv, \/ Begin \/ \E ok \in BOOLEAN : SendSetting(ok)
                 \/ Dispatch \/ Shutdown \/ Network \/ LoopReturns
  PROVE  IndInv'
<1> USE DEF IndInv
<1>1. CASE Begin
  <2>1. CountsHolders'
    BY <1>1, CountKept DEF Begin
  <2>2. StructureTyped'
    BY <1>1 DEF TypeOK, StructureTyped, Begin, count, peers
  <2>3. ThreadTyped'
    BY <1>1 DEF TypeOK, ThreadTyped, Begin, count, peers
  <2>4. PeersTyped'
    BY <1>1 DEF TypeOK, PeersTyped, Begin, count, peers
  <2>5. PeersAccounted'
    BY <1>1
    DEF PeersAccounted, Fillp, AfterSocket, TypeOK, ThreadTyped, PeersTyped,
        Begin, count, peers
  <2> QED
    BY <2>1, <2>2, <2>3, <2>4, <2>5 DEF TypeOK
<1>2. ASSUME NEW ok \in BOOLEAN, SendSetting(ok)
      PROVE  IndInv'
  <2>1. CountsHolders'
    BY <1>2, CountKept DEF SendSetting
  <2>2. StructureTyped'
    BY <1>2 DEF TypeOK, StructureTyped, SendSetting, count, flags, peers
  <2>3. ThreadTyped'
    BY <1>2 DEF TypeOK, ThreadTyped, SendSetting, count, flags, peers
  <2>4. PeersTyped'
    BY <1>2 DEF TypeOK, PeersTyped, SendSetting, count, flags, peers
  <2>5. PeersAccounted'
    BY <1>2
    DEF PeersAccounted, Fillp, AfterSocket, TypeOK, ThreadTyped, PeersTyped,
        SendSetting, count, flags, peers
  <2> QED
    BY <2>1, <2>2, <2>3, <2>4, <2>5 DEF TypeOK
<1>3. CASE Dispatch
  <2>1. CountsHolders'
    BY <1>3, CountKept DEF Dispatch
  <2>2. StructureTyped'
    BY <1>3 DEF TypeOK, StructureTyped, Dispatch, count, flags, peers
  <2>3. ThreadTyped'
    <3>1. Tail(invoked) \in Seq({"close"} \cup Peers)
      BY <1>3, HeadTailProperties DEF Dispatch, TypeOK, ThreadTyped
    <3> QED
      BY <1>3, <3>1 DEF Dispatch, TypeOK, ThreadTyped
  <2>4. PeersTyped'
    BY <1>3 DEF TypeOK, PeersTyped, Dispatch, count, flags, peers
  <2>5. PeersAccounted'
    <3> DEFINE S == {"close"} \cup Peers
    <3>1. invoked \in Seq(S) /\ invoked # <<>>
      BY <1>3 DEF Dispatch, TypeOK, ThreadTyped
    <3>2. \A i \in 1 .. Len(invoked') : invoked'[i] = "close" =>
            \E j \in 1 .. Len(invoked) : invoked[j] = "close"
      <4>1. /\ Len(invoked') = Len(invoked) - 1
            /\ \A i \in 1 .. Len(invoked') : invoked'[i] = invoked[i + 1]
        BY <1>3, <3>1, HeadTailProperties DEF Dispatch
      <4>2. \A i \in 1 .. Len(invoked') : i + 1 \in 1 .. Len(invoked)
        BY <3>1, <4>1
      <4> QED
        BY <4>1, <4>2
    <3>3. Head(invoked) = "close" => \E j \in 1 .. Len(invoked) : invoked[j] = "close"
      BY <3>1
    <3> QED
      BY <1>3, <3>2, <3>3
      DEF Dispatch, PeersAccounted, Fillp, AfterSocket, count, flags, peers
  <2> QED
    BY <2>1, <2>2, <2>3, <2>4, <2>5 DEF TypeOK
<1>4. CASE Shutdown
  <2>1. CountsHolders'
    BY <1>4, CountKept DEF Shutdown
  <2>2. StructureTyped'
    BY <1>4 DEF TypeOK, StructureTyped, Shutdown, count, flags, peers
  <2>3. ThreadTyped'
    BY <1>4 DEF TypeOK, ThreadTyped, Shutdown, count, flags, peers
  <2>4. PeersTyped'
    BY <1>4 DEF TypeOK, PeersTyped, Shutdown, count, flags, peers
  <2>5. PeersAccounted'
    BY <1>4
    DEF PeersAccounted, Fillp, AfterSocket, TypeOK, ThreadTyped, PeersTyped,
        Shutdown, count, flags, peers
  <2> QED
    BY <2>1, <2>2, <2>3, <2>4, <2>5 DEF TypeOK
<1>5. ASSUME NEW p \in Peers, PeerArrives(p)
      PROVE  IndInv'
  <2>1. CountsHolders'
    BY <1>5, CountKept DEF PeerArrives
  <2>2. StructureTyped'
    BY <1>5 DEF TypeOK, StructureTyped, PeerArrives, count, flags
  <2>3. ThreadTyped'
    BY <1>5 DEF TypeOK, ThreadTyped, PeerArrives, count, flags
  <2>4. PeersTyped'
    BY <1>5 DEF TypeOK, PeersTyped, PeerArrives, count, flags
  <2>5. PeersAccounted'
    BY <1>5
    DEF PeersAccounted, Fillp, AfterSocket, TypeOK, ThreadTyped, PeersTyped,
        PeerArrives, count, flags
  <2> QED
    BY <2>1, <2>2, <2>3, <2>4, <2>5 DEF TypeOK
<1>6. ASSUME NEW P \in SUBSET table, Tick(P)
      PROVE  IndInv'
  <2>1. CountsHolders'
    BY <1>6, CountKept DEF Tick
  <2>2. StructureTyped'
    BY <1>6 DEF TypeOK, StructureTyped, Tick, count, flags, peers
  <2>3. ThreadTyped'
    BY <1>6 DEF TypeOK, ThreadTyped, Tick, count, flags, peers
  <2>4. PeersTyped'
    BY <1>6 DEF TypeOK, PeersTyped, Tick, count, flags, peers
  <2>5. PeersAccounted'
    BY <1>6
    DEF PeersAccounted, Fillp, AfterSocket, TypeOK, ThreadTyped, PeersTyped,
        Tick, count, flags, peers
  <2> QED
    BY <2>1, <2>2, <2>3, <2>4, <2>5 DEF TypeOK
<1>7. CASE StreamEnds
  <2>1. CountsHolders'
    BY <1>7, CountKept DEF StreamEnds
  <2>2. StructureTyped'
    BY <1>7 DEF TypeOK, StructureTyped, StreamEnds, count, flags, peers
  <2>3. ThreadTyped'
    BY <1>7 DEF TypeOK, ThreadTyped, StreamEnds, count, flags, peers
  <2>4. PeersTyped'
    BY <1>7 DEF TypeOK, PeersTyped, StreamEnds, count, flags, peers
  <2>5. PeersAccounted'
    BY <1>7
    DEF PeersAccounted, Fillp, AfterSocket, TypeOK, ThreadTyped, PeersTyped,
        StreamEnds, count, flags, peers
  <2> QED
    BY <2>1, <2>2, <2>3, <2>4, <2>5 DEF TypeOK
<1>8. CASE LoopReturns
  <2>1. CountsHolders'
    BY <1>8, CountKept DEF LoopReturns
  <2>2. StructureTyped'
    BY <1>8 DEF TypeOK, StructureTyped, LoopReturns, count, flags, peers
  <2>3. ThreadTyped'
    BY <1>8 DEF TypeOK, ThreadTyped, LoopReturns, count, flags, peers
  <2>4. PeersTyped'
    BY <1>8 DEF TypeOK, PeersTyped, LoopReturns, count, flags, peers
  <2>5. PeersAccounted'
    BY <1>8
    DEF PeersAccounted, Fillp, AfterSocket, TypeOK, ThreadTyped, PeersTyped,
        LoopReturns, count, flags, peers
  <2> QED
    BY <2>1, <2>2, <2>3, <2>4, <2>5 DEF TypeOK
<1> QED
  BY <1>1, <1>2, <1>3, <1>4, <1>5, <1>6, <1>7, <1>8 DEF Network

\* The peers of a snapshot are reported closed and freed.
LEMMA FinalizeInv ==
  ASSUME IndInv, \/ \E p \in Peers : Notify(p) \/ CloseInside(p) \/ RemovePeer(p)
                 \/ Finalized
  PROVE  IndInv'
<1> USE DEF IndInv
<1>1. ASSUME NEW p \in Peers, Notify(p)
      PROVE  IndInv'
  <2>1. CountsHolders' /\ refs' \in 0 .. Cardinality(Users) + 2
    <3>1. CASE callbacks /\ "creator" \in holds
      BY <1>1, <3>1, CountDropped DEF Notify
    <3>2. CASE ~(callbacks /\ "creator" \in holds)
      <4>1. UNCHANGED count /\ pc' = pc
        BY <1>1, <3>2 DEF Notify
      <4>2. CountsHolders'
        BY <4>1, CountKept
      <4> QED
        BY <4>1, <4>2 DEF count, TypeOK, StructureTyped
    <3> QED
      BY <3>1, <3>2
  <2>2. StructureTyped'
    BY <1>1, <2>1
    DEF TypeOK, StructureTyped, Notify, Finalizing, Unref, count, flags
  <2>3. ThreadTyped'
    BY <1>1 DEF TypeOK, ThreadTyped, Notify, Finalizing, Unref, count, flags
  <2>4. PeersTyped'
    <3>1. notified[p] = 0
      BY <1>1 DEF Notify, PeersAccounted
    <3>2. notified' \in [Peers -> 0 .. 2]
      BY <1>1, <3>1 DEF Notify, TypeOK, PeersTyped
    <3>3. p \in born
      BY <1>1 DEF Notify, PeersAccounted
    <3> QED
      BY <1>1, <3>2, <3>3 DEF Notify, TypeOK, PeersTyped
  <2>5. PeersAccounted'
    <3>1. notified[p] = 0
      BY <1>1 DEF Notify, PeersAccounted
    <3>2. \A q \in Peers : /\ notified'[q] <= 1
                           /\ q \notin closed' => notified'[q] = 0
                           /\ q \in closed' /\ ~env.late => notified'[q] = 1
      <4> SUFFICES ASSUME NEW q \in Peers
                   PROVE  /\ notified'[q] <= 1
                          /\ q \notin closed' => notified'[q] = 0
                          /\ q \in closed' /\ ~env.late => notified'[q] = 1
        OBVIOUS
      <4>1. closed' = closed \cup {p} /\ notified \in [Peers -> 0 .. 2]
        BY <1>1 DEF Notify, TypeOK, PeersTyped
      <4>2. /\ notified'[p] = IF callbacks THEN 1 ELSE 0
            /\ q # p => notified'[q] = notified[q]
        BY <1>1, <3>1, <4>1 DEF Notify
      <4>3. ~env.late => callbacks
        BY DEF PeersAccounted
      <4>4. CASE q = p
        BY <4>1, <4>2, <4>3, <4>4
      <4>5. CASE q # p
        <5>1. /\ notified[q] <= 1
              /\ q \notin closed => notified[q] = 0
              /\ q \in closed /\ ~env.late => notified[q] = 1
          BY DEF PeersAccounted
        <5> QED
          BY <4>1, <4>2, <4>5, <5>1
      <4> QED
        BY <4>4, <4>5
    <3> QED
      BY <1>1, <3>2
      DEF Notify, Finalizing, PeersAccounted, Fillp, AfterSocket, flags
  <2> QED
    BY <2>1, <2>2, <2>3, <2>4, <2>5 DEF TypeOK
<1>2. ASSUME NEW p \in Peers, CloseInside(p)
      PROVE  IndInv'
  <2>1. CountsHolders'
    BY <1>2, CountKept DEF CloseInside, Finalizing
  <2>2. StructureTyped'
    BY <1>2 DEF TypeOK, StructureTyped, CloseInside, Finalizing, count, peers
  <2>3. ThreadTyped'
    BY <1>2 DEF TypeOK, ThreadTyped, CloseInside, Finalizing, count, peers
  <2>4. PeersTyped'
    BY <1>2 DEF TypeOK, PeersTyped, CloseInside, Finalizing, count, peers
  <2>5. PeersAccounted'
    BY <1>2
    DEF PeersAccounted, Fillp, AfterSocket, TypeOK, ThreadTyped, PeersTyped,
        CloseInside, Finalizing, count, peers
  <2> QED
    BY <2>1, <2>2, <2>3, <2>4, <2>5 DEF TypeOK
<1>3. ASSUME NEW p \in Peers, RemovePeer(p)
      PROVE  IndInv'
  <2>1. CountsHolders'
    BY <1>3, CountKept DEF RemovePeer, Finalizing
  <2>2. StructureTyped'
    BY <1>3 DEF TypeOK, StructureTyped, RemovePeer, Finalizing, count, flags
  <2>3. ThreadTyped'
    BY <1>3 DEF TypeOK, ThreadTyped, RemovePeer, Finalizing, count, flags
  <2>4. PeersTyped'
    BY <1>3 DEF TypeOK, PeersTyped, RemovePeer, Finalizing, count, flags
  <2>5. PeersAccounted'
    BY <1>3
    DEF PeersAccounted, Fillp, AfterSocket, TypeOK, ThreadTyped, PeersTyped,
        RemovePeer, Finalizing, count, flags
  <2> QED
    BY <2>1, <2>2, <2>3, <2>4, <2>5 DEF TypeOK
<1>4. CASE Finalized
  <2>1. CountsHolders'
    BY <1>4, CountKept DEF Finalized, Finalizing
  <2>2. StructureTyped'
    BY <1>4
    DEF TypeOK, StructureTyped, Finalized, Finalizing, count, flags, peers
  <2>3. ThreadTyped'
    BY <1>4 DEF TypeOK, ThreadTyped, Finalized, Finalizing, count, flags, peers
  <2>4. PeersTyped'
    BY <1>4 DEF TypeOK, PeersTyped, Finalized, Finalizing, count, flags, peers
  <2>5. PeersAccounted'
    BY <1>4
    DEF PeersAccounted, Fillp, AfterSocket, TypeOK, ThreadTyped, PeersTyped,
        Finalized, Finalizing, count, flags, peers
  <2> QED
    BY <2>1, <2>2, <2>3, <2>4, <2>5 DEF TypeOK
<1> QED
  BY <1>1, <1>2, <1>3, <1>4 DEF Finalizing

\* The teardown, to the last reference.
LEMMA TeardownInv ==
  ASSUME IndInv, \/ Teardown \/ MarkDone \/ UnrefContext \/ DropInternal
                 \/ set_callbacks \/ UNCHANGED vars
  PROVE  IndInv'
<1> USE DEF IndInv
<1>1. CASE Teardown
  <2>1. CountsHolders'
    BY <1>1, CountKept DEF Teardown
  <2>2. StructureTyped'
    BY <1>1 DEF TypeOK, StructureTyped, Teardown, count, flags
  <2>3. ThreadTyped'
    BY <1>1 DEF TypeOK, ThreadTyped, Teardown, count, flags
  <2>4. PeersTyped'
    BY <1>1 DEF TypeOK, PeersTyped, Teardown, count, flags
  <2>5. PeersAccounted'
    BY <1>1
    DEF PeersAccounted, Fillp, AfterSocket, TypeOK, ThreadTyped, PeersTyped,
        Teardown, count, flags
  <2> QED
    BY <2>1, <2>2, <2>3, <2>4, <2>5 DEF TypeOK
<1>2. CASE MarkDone
  <2>1. CountsHolders'
    BY <1>2, CountKept DEF MarkDone
  <2>2. StructureTyped'
    BY <1>2 DEF TypeOK, StructureTyped, MarkDone, count, peers
  <2>3. ThreadTyped'
    BY <1>2 DEF TypeOK, ThreadTyped, MarkDone, count, peers
  <2>4. PeersTyped'
    BY <1>2 DEF TypeOK, PeersTyped, MarkDone, count, peers
  <2>5. PeersAccounted'
    BY <1>2
    DEF PeersAccounted, Fillp, AfterSocket, TypeOK, ThreadTyped, PeersTyped,
        MarkDone, count, peers
  <2> QED
    BY <2>1, <2>2, <2>3, <2>4, <2>5 DEF TypeOK
<1>3. CASE UnrefContext
  <2>1. CountsHolders'
    BY <1>3, CountKept DEF UnrefContext
  <2>2. StructureTyped'
    BY <1>3 DEF TypeOK, StructureTyped, UnrefContext, count, flags, peers
  <2>3. ThreadTyped'
    BY <1>3 DEF TypeOK, ThreadTyped, UnrefContext, count, flags, peers
  <2>4. PeersTyped'
    BY <1>3 DEF TypeOK, PeersTyped, UnrefContext, count, flags, peers
  <2>5. PeersAccounted'
    BY <1>3
    DEF PeersAccounted, Fillp, AfterSocket, TypeOK, ThreadTyped, PeersTyped,
        UnrefContext, count, flags, peers
  <2> QED
    BY <2>1, <2>2, <2>3, <2>4, <2>5 DEF TypeOK
<1>4. CASE DropInternal
  <2>1. CountsHolders' /\ refs' \in 0 .. Cardinality(Users) + 2
    <3>1. holds \in SUBSET (Users \cup {"creator"})
      BY DEF TypeOK, StructureTyped
    <3>2. /\ Cardinality(holds) \in 0 .. Cardinality(Users) + 1
          /\ Cardinality(Users) \in Nat
      BY <3>1, Holders, EngineAssumption, FS_CardinalityType
    <3>3. refs = Cardinality(holds) + 1
      BY <1>4 DEF DropInternal, CountsHolders
    <3>4. /\ refs' = Cardinality(holds') + (IF pc' = "ended" THEN 0 ELSE 1)
          /\ (refs = 1) = (refs' = 0) /\ refs' \in 0 .. Cardinality(Users) + 2
      BY <1>4, <3>2, <3>3 DEF DropInternal, Unref
    <3>5. freed' = (refs = 1)
      BY <1>4 DEF DropInternal, Unref
    <3> QED
      BY <3>4, <3>5, Zenon DEF CountsHolders
  <2>2. StructureTyped'
    BY <1>4, <2>1 DEF TypeOK, StructureTyped, DropInternal, Unref, flags, peers
  <2>3. ThreadTyped'
    BY <1>4 DEF TypeOK, ThreadTyped, DropInternal, Unref, flags, peers
  <2>4. PeersTyped'
    BY <1>4 DEF TypeOK, PeersTyped, DropInternal, Unref, flags, peers
  <2>5. PeersAccounted'
    BY <1>4
    DEF PeersAccounted, Fillp, AfterSocket, TypeOK, ThreadTyped, PeersTyped,
        DropInternal, Unref, flags, peers
  <2> QED
    BY <2>1, <2>2, <2>3, <2>4, <2>5 DEF TypeOK
<1>5. CASE set_callbacks
  <2>1. CountsHolders'
    BY <1>5, CountKept DEF set_callbacks
  <2>2. StructureTyped'
    BY <1>5 DEF TypeOK, StructureTyped, set_callbacks, count, flags, peers
  <2>3. ThreadTyped'
    BY <1>5 DEF TypeOK, ThreadTyped, set_callbacks, count, flags, peers
  <2>4. PeersTyped'
    BY <1>5 DEF TypeOK, PeersTyped, set_callbacks, count, flags, peers
  <2>5. PeersAccounted'
    BY <1>5
    DEF PeersAccounted, Fillp, AfterSocket, TypeOK, ThreadTyped, PeersTyped,
        set_callbacks, count, flags, peers
  <2> QED
    BY <2>1, <2>2, <2>3, <2>4, <2>5 DEF TypeOK
<1>6. CASE UNCHANGED vars
  <2>1. CountsHolders'
    BY <1>6, CountKept DEF vars
  <2>2. StructureTyped'
    BY <1>6 DEF TypeOK, StructureTyped, vars, count, flags, peers
  <2>3. ThreadTyped'
    BY <1>6 DEF TypeOK, ThreadTyped, vars, count, flags, peers
  <2>4. PeersTyped'
    BY <1>6 DEF TypeOK, PeersTyped, vars, count, flags, peers
  <2>5. PeersAccounted'
    BY <1>6
    DEF PeersAccounted, Fillp, AfterSocket, TypeOK, ThreadTyped, PeersTyped,
        vars, count, flags, peers
  <2> QED
    BY <2>1, <2>2, <2>3, <2>4, <2>5 DEF TypeOK
<1> QED
  BY <1>1, <1>2, <1>3, <1>4, <1>5, <1>6 DEF vars

\* Every step preserves the invariant.
LEMMA StepInv == IndInv /\ [Next]_vars => IndInv'
  BY UserInv, LoopInv, FinalizeInv, TeardownInv DEF Next, EngineThread

\* The count of references, the types and the account of peers hold in every
\* behaviour, whatever the engine is and whoever uses it how.
THEOREM EngineInvariant == Spec => []IndInv
<1>1. Init => IndInv
  BY InitInv
<1>2. IndInv /\ [Next]_vars => IndInv'
  BY StepInv
<1> QED
  BY <1>1, <1>2, PTL DEF Spec

\* The last unref frees the engine, never an earlier one: engine_unref and
\* dc_unref, whatever threads give up their references in which order.
THEOREM FreedWhenUnusedHolds == Spec => []FreedWhenUnused
<1>1. IndInv => FreedWhenUnused
  <2> SUFFICES ASSUME IndInv PROVE FreedWhenUnused
    OBVIOUS
  <2>1. holds \in SUBSET (Users \cup {"creator"})
    BY DEF IndInv, TypeOK, StructureTyped
  <2>2. Cardinality(holds) \in Nat /\ (Cardinality(holds) = 0 <=> holds = {})
    BY <2>1, Holders, EngineAssumption, FS_CardinalityType
  <2>3. refs = 0 <=> pc = "ended" /\ holds = {}
    BY <2>2 DEF IndInv, CountsHolders
  <2> QED
    BY <2>3, Zenon DEF IndInv, CountsHolders, FreedWhenUnused
<1> QED
  BY <1>1, EngineInvariant, PTL

\* on_closed never fires twice for a peer, and a shutdown leaves none without
\* it: fp_engine_shutdown over a snapshot, with connect refused from then on.
THEOREM ClosedOnceHolds == Spec => []ClosedOnce
<1>1. IndInv => ClosedOnce
  <2> SUFFICES ASSUME IndInv PROVE ClosedOnce
    OBVIOUS
  <2>1. \A p \in Peers : notified[p] <= 1
    BY DEF IndInv, PeersAccounted
  <2>2. ASSUME pc = "ended", closing
        PROVE  alive = {} /\ \A p \in born : env.late \/ notified[p] = 1
    BY <2>2 DEF IndInv, PeersAccounted, TypeOK, PeersTyped
  <2> QED
    BY <2>1, <2>2 DEF ClosedOnce
<1> QED
  BY <1>1, EngineInvariant, PTL

\* Who holds a reference calls a structure that exists.
LEMMA HolderKeeps ==
  ASSUME IndInv, NEW u \in holds
  PROVE  ~freed
<1>1. holds \in SUBSET (Users \cup {"creator"})
  BY DEF IndInv, TypeOK, StructureTyped
<1>2. Cardinality(holds) # 0 /\ Cardinality(holds) \in Nat
  BY <1>1, Holders, EngineAssumption, FS_CardinalityType
<1>3. refs # 0
  BY <1>2 DEF IndInv, CountsHolders
<1> QED
  BY <1>3, Zenon DEF IndInv, CountsHolders

\* The calls of disciplined threads.
LEMMA UserOrderly ==
  ASSUME Disciplined, IndInv, OrderlyEnd, NEW u \in Users, User(u)
  PROVE  OrderlyEnd'
<1> USE DEF IndInv, OrderlyEnd
<1>1. CASE close(u)
  <2>0. u \in holds /\ ~freed
    <3>1. u \in holds
      BY <1>1 DEF Disciplined, close, TypeOK, StructureTyped
    <3> QED
      BY <3>1, HolderKeeps
  <2>1. EndsInOrder'
    BY <1>1
    DEF EndsInOrder, PeersAccounted, Fillp, AfterSocket, TypeOK,
        StructureTyped, close, count, peers
  <2>2. SendsToLive'
    <3>1. \A v \in Users, p \in Peers : <<v, p>> \notin sending
      <4> SUFFICES ASSUME NEW v \in Users, NEW p \in Peers, <<v, p>> \in sending
                   PROVE  FALSE
        OBVIOUS
      <4>1. v \in env.connectors
        BY DEF SendsToLive
      <4>2. env.closers \subseteq {v}
        BY <4>1 DEF Disciplined, TypeOK, StructureTyped
      <4>3. u = v
        BY <1>1, <4>2 DEF close
      <4> QED
        BY <1>1, <4>3 DEF close, Calls
    <3> QED
      BY <1>1, <3>1 DEF SendsToLive, close
  <2>3. InvokesLive'
    <3>1. ~close_requested /\ invoked' \in {invoked, Append(invoked, "close")}
      BY <1>1, <2>0 DEF close
    <3>2. invoked \in Seq({"close"} \cup Peers)
      BY DEF TypeOK, ThreadTyped
    <3>3. CASE invoked' = invoked
      BY <1>1, <3>3 DEF close, InvokesLive, Fillp, peers
    <3>4. CASE invoked' = Append(invoked, "close")
      <4>1. /\ Len(invoked') = Len(invoked) + 1 /\ Len(invoked) \in Nat
            /\ \A i \in 1 .. Len(invoked) : invoked'[i] = invoked[i]
            /\ invoked'[Len(invoked')] = "close"
        BY <3>2, <3>4, AppendProperties
      <4>2. Fillp => /\ ~closing /\ pc # "shutdown"
                     /\ \A i \in 1 .. Len(invoked) : invoked[i] # "close"
        BY <3>1 DEF PeersAccounted
      <4>3. \A i \in 1 .. Len(invoked') : i \in 1 .. Len(invoked) \/ i = Len(invoked')
        BY <4>1
      <4>4. \A i \in 1 .. Len(invoked') :
              IF invoked'[i] = "close" THEN Fillp => i = Len(invoked')
              ELSE Fillp /\ invoked'[i] \in alive /\ invoked'[i] \notin todo
        BY <4>1, <4>2, <4>3 DEF InvokesLive
      <4> QED
        BY <1>1, <4>2, <4>4 DEF InvokesLive, close, peers, Fillp
    <3> QED
      BY <3>1, <3>3, <3>4
  <2>4. NoUseAfterEnd'
    BY <1>1, <2>0 DEF close, NoUseAfterEnd, EndsInOrder
  <2> QED
    BY <2>1, <2>2, <2>3, <2>4 DEF OrderlyEnd
<1>2. ASSUME NEW p \in Peers, connect(u, p)
      PROVE  OrderlyEnd'
  <2>0. u \in holds /\ ~freed
    <3>1. u \in holds
      BY <1>2 DEF Disciplined, connect, TypeOK, StructureTyped
    <3> QED
      BY <3>1, HolderKeeps
  <2>1. EndsInOrder'
    BY <1>2
    DEF EndsInOrder, PeersAccounted, Fillp, AfterSocket, TypeOK,
        StructureTyped, connect, count, flags, peers
  <2>2. SendsToLive'
    <3>1. /\ p \notin todo /\ todo' = todo /\ p \in alive' /\ alive \subseteq alive'
          /\ sending' = sending \cup {<<u, p>>} /\ ~close_requested'
          /\ Fillp' /\ u \in env'.connectors /\ u \in holds'
          /\ env' = env /\ holds' = holds
      BY <1>2, <2>0 DEF connect, count, flags, PeersAccounted, Fillp
    <3> QED
      BY <3>1 DEF SendsToLive, Fillp
  <2>3. InvokesLive'
    <3>1. alive' \cap born = alive \cap born /\ alive \subseteq alive'
      BY <1>2, <2>0 DEF connect
    <3> QED
      BY <1>2, <3>1 DEF connect, InvokesLive, Fillp
  <2>4. NoUseAfterEnd'
    <3>1. pc \notin AfterSocket
      BY <1>2, <2>0 DEF connect, EndsInOrder, Fillp
    <3> QED
      BY <1>2, <2>0, <3>1 DEF connect, NoUseAfterEnd, AfterSocket
  <2> QED
    BY <2>1, <2>2, <2>3, <2>4 DEF OrderlyEnd
<1>3. ASSUME NEW p \in Peers, NEW ok \in BOOLEAN, ConnectSend(u, p, ok)
      PROVE  OrderlyEnd'
  <2>0. /\ Fillp /\ u \in holds /\ ~freed /\ ~close_requested
        /\ p \in alive /\ p \notin todo
    <3>1. /\ Fillp /\ u \in holds /\ p \in alive /\ p \notin todo
          /\ ~close_requested
      BY <1>3 DEF ConnectSend, SendsToLive
    <3> QED
      BY <3>1, HolderKeeps
  <2>1. EndsInOrder'
    BY <1>3
    DEF EndsInOrder, PeersAccounted, Fillp, AfterSocket, TypeOK,
        StructureTyped, ConnectSend, count, flags, peers
  <2>2. SendsToLive'
    BY <1>3
    DEF SendsToLive, PeersAccounted, Fillp, Calls, Waiting, TypeOK, PeersTyped,
        ConnectSend, count, flags, peers
  <2>3. InvokesLive'
    <3>1. /\ invoked' \in {invoked, Append(invoked, p)} /\ UNCHANGED <<env, peers, todo>>
          /\ UNCHANGED <<closing, pc>>
      BY <1>3 DEF ConnectSend
    <3>2. invoked \in Seq({"close"} \cup Peers) /\ p \in {"close"} \cup Peers
      BY <1>3 DEF TypeOK, ThreadTyped
    <3>3. CASE invoked' = invoked
      BY <3>1, <3>3 DEF InvokesLive, Fillp, peers
    <3>4. CASE invoked' = Append(invoked, p)
      <4>1. /\ Len(invoked') = Len(invoked) + 1 /\ Len(invoked) \in Nat
            /\ \A i \in 1 .. Len(invoked) : invoked'[i] = invoked[i]
            /\ invoked'[Len(invoked')] = p
        BY <3>2, <3>4, AppendProperties
      <4>2. /\ ~closing /\ pc # "shutdown" /\ p # "close"
            /\ \A i \in 1 .. Len(invoked) : invoked[i] # "close"
        BY <1>3, <2>0, EngineAssumption DEF PeersAccounted
      <4>3. \A i \in 1 .. Len(invoked') : i \in 1 .. Len(invoked) \/ i = Len(invoked')
        BY <4>1
      <4>4. \A i \in 1 .. Len(invoked') :
              invoked'[i] # "close" /\ invoked'[i] \in alive /\ invoked'[i] \notin todo
        BY <2>0, <4>1, <4>2, <4>3 DEF InvokesLive
      <4> QED
        BY <2>0, <3>1, <4>2, <4>4 DEF InvokesLive, peers, Fillp
    <3> QED
      BY <3>1, <3>3, <3>4
  <2>4. NoUseAfterEnd'
    <3>1. socket
      BY <2>0 DEF EndsInOrder
    <3>2. thread_started => ctx
      BY DEF EndsInOrder
    <3> QED
      BY <1>3, <2>0, <3>1, <3>2 DEF ConnectSend, NoUseAfterEnd
  <2> QED
    BY <2>1, <2>2, <2>3, <2>4 DEF OrderlyEnd
<1>4. CASE unref(u)
  <2>1. EndsInOrder'
    BY <1>4
    DEF EndsInOrder, PeersAccounted, Fillp, AfterSocket, TypeOK,
        StructureTyped, unref, flags, peers
  <2>2. SendsToLive'
    BY <1>4
    DEF SendsToLive, PeersAccounted, Fillp, Calls, Waiting, TypeOK, PeersTyped,
        unref, flags, peers
  <2>3. InvokesLive'
    BY <1>4
    DEF SendsToLive, InvokesLive, PeersAccounted, Fillp, Waiting, TypeOK,
        ThreadTyped, PeersTyped, unref, flags, peers
  <2>4. NoUseAfterEnd'
    BY <1>4
    DEF NoUseAfterEnd, EndsInOrder, InvokesLive, SendsToLive, Fillp, unref,
        flags, peers
  <2> QED
    BY <2>1, <2>2, <2>3, <2>4 DEF OrderlyEnd
<1> QED
  BY <1>1, <1>2, <1>3, <1>4 DEF User

\* The engine thread's loop: a close is the last it dispatches.
LEMMA LoopOrderly ==
  ASSUME Disciplined, IndInv, OrderlyEnd, \/ Begin \/ \E ok \in BOOLEAN : SendSetting(ok)
                                          \/ Dispatch \/ Shutdown \/ Network \/ LoopReturns
  PROVE  OrderlyEnd'
<1> USE DEF IndInv, OrderlyEnd
<1>1. CASE Begin
  <2>1. EndsInOrder'
    BY <1>1
    DEF EndsInOrder, PeersAccounted, Fillp, AfterSocket, TypeOK,
        StructureTyped, Begin, count, peers
  <2>2. SendsToLive'
    BY <1>1
    DEF SendsToLive, PeersAccounted, Fillp, Calls, Waiting, TypeOK, PeersTyped,
        Begin, count, peers
  <2>3. InvokesLive'
    BY <1>1
    DEF SendsToLive, InvokesLive, PeersAccounted, Fillp, Waiting, TypeOK,
        ThreadTyped, PeersTyped, Begin, count, peers
  <2>4. NoUseAfterEnd'
    BY <1>1
    DEF NoUseAfterEnd, EndsInOrder, InvokesLive, SendsToLive, Fillp, Begin,
        count, peers
  <2> QED
    BY <2>1, <2>2, <2>3, <2>4 DEF OrderlyEnd
<1>2. ASSUME NEW ok \in BOOLEAN, SendSetting(ok)
      PROVE  OrderlyEnd'
  <2>1. EndsInOrder'
    BY <1>2
    DEF EndsInOrder, PeersAccounted, Fillp, AfterSocket, TypeOK,
        StructureTyped, SendSetting, count, flags, peers
  <2>2. SendsToLive'
    BY <1>2
    DEF SendsToLive, PeersAccounted, Fillp, Calls, Waiting, TypeOK, PeersTyped,
        SendSetting, count, flags, peers
  <2>3. InvokesLive'
    BY <1>2
    DEF SendsToLive, InvokesLive, PeersAccounted, Fillp, Waiting, TypeOK,
        ThreadTyped, PeersTyped, SendSetting, count, flags, peers
  <2>4. NoUseAfterEnd'
    BY <1>2
    DEF NoUseAfterEnd, EndsInOrder, InvokesLive, SendsToLive, Fillp,
        SendSetting, count, flags, peers
  <2> QED
    BY <2>1, <2>2, <2>3, <2>4 DEF OrderlyEnd
<1>3. CASE Dispatch
  <2>1. EndsInOrder'
    BY <1>3
    DEF EndsInOrder, PeersAccounted, Fillp, AfterSocket, TypeOK,
        StructureTyped, Dispatch, count, flags, peers
  <2>2. SendsToLive'
    BY <1>3
    DEF SendsToLive, PeersAccounted, Fillp, Calls, Waiting, TypeOK, PeersTyped,
        Dispatch, count, flags, peers
  <2>3. InvokesLive'
    BY <1>3
    DEF SendsToLive, InvokesLive, PeersAccounted, Fillp, Waiting, TypeOK,
        ThreadTyped, PeersTyped, Dispatch, count, flags, peers
  <2>4. NoUseAfterEnd'
    BY <1>3
    DEF NoUseAfterEnd, EndsInOrder, InvokesLive, SendsToLive, Fillp, Dispatch,
        count, flags, peers
  <2> QED
    BY <2>1, <2>2, <2>3, <2>4 DEF OrderlyEnd
<1>4. CASE Shutdown
  <2>1. EndsInOrder'
    BY <1>4
    DEF EndsInOrder, PeersAccounted, Fillp, AfterSocket, TypeOK,
        StructureTyped, Shutdown, count, flags, peers
  <2>2. SendsToLive'
    BY <1>4
    DEF SendsToLive, PeersAccounted, Fillp, Calls, Waiting, TypeOK, PeersTyped,
        Shutdown, count, flags, peers
  <2>3. InvokesLive'
    <3>1. CASE Fillp
      <4>1. invoked = <<>>
        BY <1>4, <3>1 DEF Shutdown, InvokesLive, PeersAccounted
      <4>2. invoked' = <<>>
        BY <1>4, <4>1 DEF Shutdown
      <4> QED
        BY <4>2 DEF InvokesLive
    <3>2. CASE ~Fillp
      <4>1. \A i \in 1 .. Len(invoked) : invoked[i] = "close"
        BY <3>2 DEF InvokesLive
      <4>2. ~Fillp' /\ invoked' = invoked
        BY <1>4, <3>2 DEF Shutdown, Fillp
      <4> QED
        BY <4>1, <4>2 DEF InvokesLive
    <3> QED
      BY <3>1, <3>2
  <2>4. NoUseAfterEnd'
    BY <1>4
    DEF NoUseAfterEnd, EndsInOrder, InvokesLive, SendsToLive, Fillp, Shutdown,
        count, flags, peers
  <2> QED
    BY <2>1, <2>2, <2>3, <2>4 DEF OrderlyEnd
<1>5. ASSUME NEW p \in Peers, PeerArrives(p)
      PROVE  OrderlyEnd'
  <2>1. EndsInOrder'
    BY <1>5
    DEF EndsInOrder, PeersAccounted, Fillp, AfterSocket, TypeOK,
        StructureTyped, PeerArrives, count, flags
  <2>2. SendsToLive'
    BY <1>5
    DEF SendsToLive, PeersAccounted, Fillp, Calls, Waiting, TypeOK, PeersTyped,
        PeerArrives, count, flags
  <2>3. InvokesLive'
    BY <1>5
    DEF SendsToLive, InvokesLive, PeersAccounted, Fillp, Waiting, TypeOK,
        ThreadTyped, PeersTyped, PeerArrives, count, flags
  <2>4. NoUseAfterEnd'
    BY <1>5
    DEF NoUseAfterEnd, EndsInOrder, InvokesLive, SendsToLive, Fillp,
        PeerArrives, count, flags
  <2> QED
    BY <2>1, <2>2, <2>3, <2>4 DEF OrderlyEnd
<1>6. ASSUME NEW P \in SUBSET table, Tick(P)
      PROVE  OrderlyEnd'
  <2>1. EndsInOrder'
    BY <1>6, EngineAssumption
    DEF EndsInOrder, PeersAccounted, Fillp, AfterSocket, TypeOK,
        StructureTyped, Tick, count, flags, peers
  <2>2. SendsToLive'
    BY <1>6, EngineAssumption
    DEF Disciplined, SendsToLive, PeersAccounted, Fillp, Waiting, TypeOK,
        StructureTyped, PeersTyped, Tick, count, flags, peers
  <2>3. InvokesLive'
    BY <1>6, EngineAssumption
    DEF Disciplined, InvokesLive, PeersAccounted, Fillp, Waiting, TypeOK,
        StructureTyped, ThreadTyped, PeersTyped, Tick, count, flags, peers
  <2>4. NoUseAfterEnd'
    BY <1>6, EngineAssumption
    DEF NoUseAfterEnd, EndsInOrder, InvokesLive, SendsToLive, Fillp, Tick,
        count, flags, peers
  <2> QED
    BY <2>1, <2>2, <2>3, <2>4 DEF OrderlyEnd
<1>7. CASE StreamEnds
  <2>1. EndsInOrder'
    BY <1>7
    DEF EndsInOrder, PeersAccounted, Fillp, AfterSocket, TypeOK,
        StructureTyped, StreamEnds, count, flags, peers
  <2>2. SendsToLive'
    BY <1>7
    DEF SendsToLive, PeersAccounted, Fillp, Calls, Waiting, TypeOK, PeersTyped,
        StreamEnds, count, flags, peers
  <2>3. InvokesLive'
    BY <1>7
    DEF SendsToLive, InvokesLive, PeersAccounted, Fillp, Waiting, TypeOK,
        ThreadTyped, PeersTyped, StreamEnds, count, flags, peers
  <2>4. NoUseAfterEnd'
    BY <1>7
    DEF NoUseAfterEnd, EndsInOrder, InvokesLive, SendsToLive, Fillp,
        StreamEnds, count, flags, peers
  <2> QED
    BY <2>1, <2>2, <2>3, <2>4 DEF OrderlyEnd
<1>8. CASE LoopReturns
  <2>1. EndsInOrder'
    BY <1>8
    DEF EndsInOrder, PeersAccounted, Fillp, AfterSocket, TypeOK,
        StructureTyped, LoopReturns, count, flags, peers
  <2>2. SendsToLive'
    BY <1>8
    DEF SendsToLive, PeersAccounted, Fillp, Calls, Waiting, TypeOK, PeersTyped,
        LoopReturns, count, flags, peers
  <2>3. InvokesLive'
    BY <1>8
    DEF SendsToLive, InvokesLive, PeersAccounted, Fillp, Waiting, TypeOK,
        ThreadTyped, PeersTyped, LoopReturns, count, flags, peers
  <2>4. NoUseAfterEnd'
    BY <1>8
    DEF NoUseAfterEnd, EndsInOrder, InvokesLive, SendsToLive, Fillp,
        LoopReturns, count, flags, peers
  <2> QED
    BY <2>1, <2>2, <2>3, <2>4 DEF OrderlyEnd
<1> QED
  BY <1>1, <1>2, <1>3, <1>4, <1>5, <1>6, <1>7, <1>8 DEF Network

\* Finalizing peers that nobody waits for.
LEMMA FinalizeOrderly ==
  ASSUME Disciplined, IndInv, OrderlyEnd, \/ \E p \in Peers : Notify(p) \/ CloseInside(p) \/ RemovePeer(p)
                                          \/ Finalized
  PROVE  OrderlyEnd'
<1> USE DEF IndInv, OrderlyEnd
<1>1. ASSUME NEW p \in Peers, Notify(p)
      PROVE  OrderlyEnd'
  <2>1. EndsInOrder'
    BY <1>1, EngineAssumption
    DEF EndsInOrder, PeersAccounted, Fillp, AfterSocket, TypeOK,
        StructureTyped, Notify, Finalizing, count, flags
  <2>2. SendsToLive'
    BY <1>1, EngineAssumption
    DEF SendsToLive, PeersAccounted, Fillp, Calls, Waiting, TypeOK, PeersTyped,
        Notify, Finalizing, count, flags
  <2>3. InvokesLive'
    BY <1>1, EngineAssumption
    DEF SendsToLive, InvokesLive, PeersAccounted, Fillp, Waiting, TypeOK,
        ThreadTyped, PeersTyped, Notify, Finalizing, count, flags
  <2>4. NoUseAfterEnd'
    BY <1>1, EngineAssumption
    DEF NoUseAfterEnd, EndsInOrder, InvokesLive, SendsToLive, Fillp, Notify,
        Finalizing, count, flags
  <2> QED
    BY <2>1, <2>2, <2>3, <2>4 DEF OrderlyEnd
<1>2. ASSUME NEW p \in Peers, CloseInside(p)
      PROVE  OrderlyEnd'
  <2>1. EndsInOrder'
    BY <1>2
    DEF EndsInOrder, PeersAccounted, Fillp, AfterSocket, TypeOK,
        StructureTyped, CloseInside, Finalizing, count, peers
  <2>2. SendsToLive'
    BY <1>2
    DEF SendsToLive, PeersAccounted, Fillp, Calls, Waiting, TypeOK, PeersTyped,
        CloseInside, Finalizing, count, peers
  <2>3. InvokesLive'
    BY <1>2
    DEF SendsToLive, InvokesLive, PeersAccounted, Fillp, Waiting, TypeOK,
        ThreadTyped, PeersTyped, CloseInside, Finalizing, count, peers
  <2>4. NoUseAfterEnd'
    BY <1>2
    DEF NoUseAfterEnd, EndsInOrder, InvokesLive, SendsToLive, Fillp,
        CloseInside, Finalizing, count, peers
  <2> QED
    BY <2>1, <2>2, <2>3, <2>4 DEF OrderlyEnd
<1>3. ASSUME NEW p \in Peers, RemovePeer(p)
      PROVE  OrderlyEnd'
  <2>1. EndsInOrder'
    BY <1>3
    DEF EndsInOrder, PeersAccounted, Fillp, AfterSocket, TypeOK,
        StructureTyped, RemovePeer, Finalizing, count, flags
  <2>2. SendsToLive'
    BY <1>3
    DEF SendsToLive, PeersAccounted, Fillp, Calls, Waiting, TypeOK, PeersTyped,
        RemovePeer, Finalizing, count, flags
  <2>3. InvokesLive'
    BY <1>3
    DEF SendsToLive, InvokesLive, PeersAccounted, Fillp, Waiting, TypeOK,
        ThreadTyped, PeersTyped, RemovePeer, Finalizing, count, flags
  <2>4. NoUseAfterEnd'
    BY <1>3
    DEF NoUseAfterEnd, EndsInOrder, InvokesLive, SendsToLive, Fillp,
        RemovePeer, Finalizing, count, flags
  <2> QED
    BY <2>1, <2>2, <2>3, <2>4 DEF OrderlyEnd
<1>4. CASE Finalized
  <2>1. EndsInOrder'
    BY <1>4
    DEF EndsInOrder, PeersAccounted, Fillp, AfterSocket, TypeOK,
        StructureTyped, Finalized, Finalizing, count, flags, peers
  <2>2. SendsToLive'
    BY <1>4
    DEF SendsToLive, PeersAccounted, Fillp, Calls, Waiting, TypeOK, PeersTyped,
        Finalized, Finalizing, count, flags, peers
  <2>3. InvokesLive'
    BY <1>4
    DEF SendsToLive, InvokesLive, PeersAccounted, Fillp, Waiting, TypeOK,
        ThreadTyped, PeersTyped, Finalized, Finalizing, count, flags, peers
  <2>4. NoUseAfterEnd'
    BY <1>4
    DEF NoUseAfterEnd, EndsInOrder, InvokesLive, SendsToLive, Fillp, Finalized,
        Finalizing, count, flags, peers
  <2> QED
    BY <2>1, <2>2, <2>3, <2>4 DEF OrderlyEnd
<1> QED
  BY <1>1, <1>2, <1>3, <1>4 DEF Finalizing

\* The teardown, to the last reference.
LEMMA TeardownOrderly ==
  ASSUME Disciplined, IndInv, OrderlyEnd, \/ Teardown \/ MarkDone \/ UnrefContext \/ DropInternal
                                          \/ set_callbacks \/ UNCHANGED vars
  PROVE  OrderlyEnd'
<1> USE DEF IndInv, OrderlyEnd
<1>1. CASE Teardown
  <2>1. EndsInOrder'
    BY <1>1
    DEF EndsInOrder, PeersAccounted, Fillp, AfterSocket, TypeOK,
        StructureTyped, Teardown, count, flags
  <2>2. SendsToLive'
    BY <1>1
    DEF SendsToLive, PeersAccounted, Fillp, Calls, Waiting, TypeOK, PeersTyped,
        Teardown, count, flags
  <2>3. InvokesLive'
    BY <1>1
    DEF SendsToLive, InvokesLive, PeersAccounted, Fillp, Waiting, TypeOK,
        ThreadTyped, PeersTyped, Teardown, count, flags
  <2>4. NoUseAfterEnd'
    BY <1>1
    DEF NoUseAfterEnd, EndsInOrder, InvokesLive, SendsToLive, Fillp, Teardown,
        count, flags
  <2> QED
    BY <2>1, <2>2, <2>3, <2>4 DEF OrderlyEnd
<1>2. CASE MarkDone
  <2>1. EndsInOrder'
    BY <1>2
    DEF EndsInOrder, PeersAccounted, Fillp, AfterSocket, TypeOK,
        StructureTyped, MarkDone, count, peers
  <2>2. SendsToLive'
    BY <1>2
    DEF SendsToLive, PeersAccounted, Fillp, Calls, Waiting, TypeOK, PeersTyped,
        MarkDone, count, peers
  <2>3. InvokesLive'
    BY <1>2
    DEF SendsToLive, InvokesLive, PeersAccounted, Fillp, Waiting, TypeOK,
        ThreadTyped, PeersTyped, MarkDone, count, peers
  <2>4. NoUseAfterEnd'
    BY <1>2
    DEF NoUseAfterEnd, EndsInOrder, InvokesLive, SendsToLive, Fillp, MarkDone,
        count, peers
  <2> QED
    BY <2>1, <2>2, <2>3, <2>4 DEF OrderlyEnd
<1>3. CASE UnrefContext
  <2>1. EndsInOrder'
    BY <1>3
    DEF EndsInOrder, PeersAccounted, Fillp, AfterSocket, TypeOK,
        StructureTyped, UnrefContext, count, flags, peers
  <2>2. SendsToLive'
    BY <1>3
    DEF SendsToLive, PeersAccounted, Fillp, Calls, Waiting, TypeOK, PeersTyped,
        UnrefContext, count, flags, peers
  <2>3. InvokesLive'
    BY <1>3
    DEF SendsToLive, InvokesLive, PeersAccounted, Fillp, Waiting, TypeOK,
        ThreadTyped, PeersTyped, UnrefContext, count, flags, peers
  <2>4. NoUseAfterEnd'
    BY <1>3
    DEF NoUseAfterEnd, EndsInOrder, InvokesLive, SendsToLive, Fillp,
        UnrefContext, count, flags, peers
  <2> QED
    BY <2>1, <2>2, <2>3, <2>4 DEF OrderlyEnd
<1>4. CASE DropInternal
  <2>1. EndsInOrder'
    BY <1>4
    DEF EndsInOrder, PeersAccounted, Fillp, AfterSocket, TypeOK,
        StructureTyped, DropInternal, flags, peers
  <2>2. SendsToLive'
    BY <1>4
    DEF SendsToLive, PeersAccounted, Fillp, Calls, Waiting, TypeOK, PeersTyped,
        DropInternal, flags, peers
  <2>3. InvokesLive'
    BY <1>4
    DEF SendsToLive, InvokesLive, PeersAccounted, Fillp, Waiting, TypeOK,
        ThreadTyped, PeersTyped, DropInternal, flags, peers
  <2>4. NoUseAfterEnd'
    BY <1>4
    DEF NoUseAfterEnd, EndsInOrder, InvokesLive, SendsToLive, Fillp,
        DropInternal, flags, peers
  <2> QED
    BY <2>1, <2>2, <2>3, <2>4 DEF OrderlyEnd
<1>5. CASE set_callbacks
  <2>1. EndsInOrder'
    BY <1>5
    DEF EndsInOrder, PeersAccounted, Fillp, AfterSocket, TypeOK,
        StructureTyped, set_callbacks, count, flags, peers
  <2>2. SendsToLive'
    BY <1>5
    DEF SendsToLive, PeersAccounted, Fillp, Calls, Waiting, TypeOK, PeersTyped,
        set_callbacks, count, flags, peers
  <2>3. InvokesLive'
    BY <1>5
    DEF SendsToLive, InvokesLive, PeersAccounted, Fillp, Waiting, TypeOK,
        ThreadTyped, PeersTyped, set_callbacks, count, flags, peers
  <2>4. NoUseAfterEnd'
    BY <1>5
    DEF NoUseAfterEnd, EndsInOrder, InvokesLive, SendsToLive, Fillp,
        set_callbacks, count, flags, peers
  <2> QED
    BY <2>1, <2>2, <2>3, <2>4 DEF OrderlyEnd
<1>6. CASE UNCHANGED vars
  <2>1. EndsInOrder'
    BY <1>6
    DEF EndsInOrder, PeersAccounted, Fillp, AfterSocket, TypeOK,
        StructureTyped, vars, count, flags, peers
  <2>2. SendsToLive'
    BY <1>6
    DEF SendsToLive, PeersAccounted, Fillp, Calls, Waiting, TypeOK, PeersTyped,
        vars, count, flags, peers
  <2>3. InvokesLive'
    BY <1>6
    DEF SendsToLive, InvokesLive, PeersAccounted, Fillp, Waiting, TypeOK,
        ThreadTyped, PeersTyped, vars, count, flags, peers
  <2>4. NoUseAfterEnd'
    BY <1>6
    DEF NoUseAfterEnd, EndsInOrder, InvokesLive, SendsToLive, Fillp, vars,
        count, flags, peers
  <2> QED
    BY <2>1, <2>2, <2>3, <2>4 DEF OrderlyEnd
<1> QED
  BY <1>1, <1>2, <1>3, <1>4, <1>5, <1>6 DEF vars

\* Neither a call nor the thread uses the engine, its context, its socket, its
\* table or a peer after its end, when callers hold references, closes and
\* connects do not overlap and no call outlasts the timeouts.
THEOREM NoUseAfterEndHolds ==
  ASSUME Disciplined
  PROVE  Spec => []NoUseAfterEnd
<1>1. Init => IndInv /\ OrderlyEnd
  <2> SUFFICES ASSUME Init PROVE OrderlyEnd
    BY InitInv
  <2>1. EndsInOrder
    BY DEF Init, EndsInOrder, AfterSocket
  <2>2. SendsToLive
    BY DEF Init, SendsToLive
  <2>3. InvokesLive
    BY DEF Init, InvokesLive
  <2>4. NoUseAfterEnd
    BY DEF Init, NoUseAfterEnd
  <2> QED
    BY <2>1, <2>2, <2>3, <2>4 DEF OrderlyEnd
<1>2. (IndInv /\ OrderlyEnd) /\ [Next]_vars => (IndInv /\ OrderlyEnd)'
  BY StepInv, UserOrderly, LoopOrderly, FinalizeOrderly, TeardownOrderly
  DEF Next, EngineThread
<1>3. OrderlyEnd => NoUseAfterEnd
  BY DEF OrderlyEnd
<1> QED
  BY <1>1, <1>2, <1>3, PTL DEF Spec
=============================================================================
