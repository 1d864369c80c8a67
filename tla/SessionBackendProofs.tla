------------------------ MODULE SessionBackendProofs ------------------------
(***************************************************************************)
(* Proofs about SessionBackend for any number of sessions, whether or not  *)
(* the owner may drop the transport while it runs.                         *)
(*                                                                         *)
(* IndInv counts, per session, the holders against the references, and     *)
(* says how far its pump has come when the list, the main thread or a join *)
(* has it.                                                                 *)
(***************************************************************************)
EXTENDS SessionBackend, Integers, TLAPS

\* The pump has left its loop and claimed, or lost, its thread.
PumpOver == {"claimed", "called", "signal", "drop", "done"}

\* Only the types the proofs need; the accept loop has one session at a time.
TypeInv ==
  /\ refs \in [Sessions -> Int]
  /\ running \in [Sessions -> BOOLEAN]
  /\ thread \in [Sessions -> {"unset", "owned", "dropped", "joined"}]
  /\ closed_cb \in [Sessions -> BOOLEAN]
  /\ pump \in [Sessions -> {"off", "reading", "ended"} \cup PumpOver]
  /\ current \subseteq Sessions /\ listed \subseteq Sessions
  /\ todo \subseteq Sessions
  /\ \A s, t \in current : s = t
  /\ main = "new" => accept = "off"

\* What a session has been through: before its pump nobody has it, it comes to
\* the list with its callback, the pump that has ended has cleared the flag,
\* and a thread that is joined was on the list, and running no more.
Progress(s) ==
  /\ pump[s] = "off" => s \notin current \cup listed \cup todo
                        /\ thread[s] # "joined"
  /\ s \in current /\ accept # "listed" => s \notin listed \cup todo
                                           /\ thread[s] # "joined"
  /\ s \in current /\ accept \in {"registered", "listed"} => closed_cb[s]
  /\ s \in listed \cup todo => closed_cb[s]
  /\ pump[s] \in PumpOver => ~running[s]
  /\ thread[s] = "joined" => ~running[s] /\ closed_cb[s]
  /\ pump[s] = "drop" /\ broken = "no" => s \in closed
  /\ pump[s] = "done" /\ thread[s] = "joined" => s \in closed

\* The inductive invariant.
IndInv ==
  /\ TypeInv
  /\ \A s \in Sessions : Progress(s)
  /\ HoldersHaveReferences
  /\ NeverJoinsItself
  /\ OneThreadOwner

\* Nobody holds a session yet.
LEMMA InitInv == Init => IndInv
<1> SUFFICES ASSUME Init PROVE IndInv
  OBVIOUS
<1> USE DEF Init
<1>1. TypeInv
  BY DEF TypeInv
<1>2. \A s \in Sessions : Progress(s)
  BY DEF Progress, PumpOver
<1>3. HoldersHaveReferences /\ NeverJoinsItself /\ OneThreadOwner
  BY DEF HoldersHaveReferences, NeverJoinsItself, OneThreadOwner
<1> QED
  BY <1>1, <1>2, <1>3 DEF IndInv

USE DEF PumpOver

\* A change of one count, or none, for the action lemmas below.
LEMMA RefsChange ==
  ASSUME refs \in [Sessions -> Int], NEW s \in Sessions, NEW n \in Int,
         \/ refs' = [refs EXCEPT ![s] = n]
         \/ refs' = refs /\ n = refs[s]
  PROVE  /\ refs' \in [Sessions -> Int]
         /\ refs'[s] = n
         /\ \A t \in Sessions : t # s => refs'[t] = refs[t]
  OBVIOUS

\* The winner of the exchange clears the flag, so does the loser find it.
LEMMA PumpClaimsInv ==
  ASSUME IndInv, NEW s \in Sessions, PumpClaims(s) PROVE IndInv'
<1>z. refs[s] \in Nat /\ running \in [Sessions -> BOOLEAN]
  BY DEF IndInv, TypeInv, HoldersHaveReferences
<1>a. /\ UNCHANGED <<refs, accept, current, main, todo, closed_cb, listed,
                     closed>>
      /\ pump[s] = "ended" /\ pump' = [pump EXCEPT ![s] = "claimed"]
      /\ running' = [running EXCEPT ![s] = FALSE]
      /\ broken = "no" /\ broken' # "joined itself"
  BY <1>z DEF PumpClaims, threadVars
<1>c. \/ thread' = thread
      \/ running[s] /\ thread' = [thread EXCEPT ![s] = "dropped"]
  <2>1. CASE running[s]
    <3>1. thread' = thread \/ thread' = [thread EXCEPT ![s] = "dropped"]
      BY <1>z DEF PumpClaims
    <3> QED
      BY Zenon, <2>1, <3>1
  <2>2. CASE ~running[s]
    <3>1. thread' = thread
      BY <1>z, <2>2 DEF PumpClaims
    <3> QED
      BY Zenon, <3>1
  <2> QED
    BY <2>1, <2>2
<1>b. /\ ~running'[s]
      /\ \A t \in Sessions :
           t # s => /\ running'[t] = running[t] /\ thread'[t] = thread[t]
                    /\ pump'[t] = pump[t]
  BY <1>a, <1>c DEF IndInv, TypeInv
<1>1. TypeInv'
  BY <1>a, <1>c DEF IndInv, TypeInv
<1>2. ASSUME NEW t \in Sessions PROVE Progress(t)'
  <2>1. Progress(t)
    BY DEF IndInv
  <2>2. CASE t = s
    BY <1>a, <1>b, <1>c, <2>1, <2>2 DEF IndInv, TypeInv, Progress
  <2>3. CASE t # s
    BY <1>a, <1>b, <1>c, <2>1, <2>3 DEF Progress
  <2> QED
    BY <2>2, <2>3
<1>3. HoldersHaveReferences'
  BY <1>a, <1>c DEF IndInv, TypeInv, HoldersHaveReferences
<1>4. NeverJoinsItself' /\ OneThreadOwner'
  BY <1>a, <1>c DEF IndInv, TypeInv, Progress, NeverJoinsItself, OneThreadOwner
<1> QED
  BY <1>1, <1>2, <1>3, <1>4 DEF IndInv

\* The pump takes a reference only for the callback it is about to make.
LEMMA EmitClosedInv ==
  ASSUME IndInv, NEW s \in Sessions, EmitClosed(s) PROVE IndInv'
<1>z. refs[s] \in Nat
  BY DEF IndInv, TypeInv, HoldersHaveReferences
<1>a. /\ UNCHANGED <<accept, current, main, todo, running, thread, closed_cb,
                     listed, closed>>
      /\ pump[s] = "claimed"
      /\ \/ UNCHANGED <<refs, pump>> /\ broken' = "freed session"
         \/ /\ pump' = [pump EXCEPT ![s] = "done"] /\ ~closed_cb[s]
            /\ UNCHANGED <<refs, broken>>
         \/ /\ pump' = [pump EXCEPT ![s] = "called"] /\ closed_cb[s] /\ broken' = "no"
            /\ refs' = [refs EXCEPT ![s] = refs[s] + 1]
            /\ UNCHANGED broken
  <2>1. CASE closed_cb[s]
    BY <2>1, <1>z DEF IndInv, TypeInv, threadVars, sessionVars, EmitClosed
  <2>2. CASE ~closed_cb[s]
    <3>1. /\ UNCHANGED <<accept, current, main, todo, running, thread,
                         closed_cb,
                       listed, closed>>
          /\ pump[s] = "claimed"
      BY DEF EmitClosed, threadVars
    <3>2. \/ UNCHANGED <<refs, pump>> /\ broken' = "freed session"
          \/ pump' = [pump EXCEPT ![s] = "done"] /\ UNCHANGED <<refs, broken>>
      <4>1. CASE refs[s] = 0
        BY <2>2, <4>1 DEF EmitClosed
      <4>2. CASE refs[s] # 0
        <5>1. refs[s] > 0 /\ ~closed_cb[s]
          BY <1>z, <2>2, <4>2
        <5>2. pump' = [pump EXCEPT ![s] = "done"]
          BY <4>2, <5>1 DEF EmitClosed
        <5>3. UNCHANGED <<refs, broken>>
          BY <4>2, <5>1 DEF EmitClosed
        <5> QED
          BY <5>2, <5>3
      <4> QED
        BY <4>1, <4>2
    <3> QED
      BY <2>2, <3>1, <3>2
  <2> QED
    BY <2>1, <2>2
<1>b. refs \in [Sessions -> Int]
  BY DEF IndInv, TypeInv
<1>p. /\ UNCHANGED <<accept, current, todo, listed>>
      /\ pump'[s] \in {"called", "signal", "drop"} => broken' = "no" /\ closed_cb[s]
  BY <1>a DEF IndInv, TypeInv
<1>r. /\ refs' \in [Sessions -> Int]
      /\ refs'[s] = IF broken' = "no" /\ closed_cb[s] THEN refs[s] + 1 ELSE refs[s]
      /\ \A t \in Sessions : t # s => refs'[t] = refs[t]
  <2> DEFINE n == IF broken' = "no" /\ closed_cb[s] THEN refs[s] + 1 ELSE refs[s]
  <2>1. n \in Int
    BY <1>b
  <2>2. \/ refs' = [refs EXCEPT ![s] = n]
        \/ refs' = refs /\ n = refs[s]
    BY <1>a
  <2> HIDE DEF n
  <2>3. /\ refs'[s] = n /\ refs' \in [Sessions -> Int]
        /\ \A t \in Sessions : t # s => refs'[t] = refs[t]
    BY <1>b, <2>1, <2>2, RefsChange
  <2> QED
    BY <2>3 DEF n
<1>1. TypeInv'
  BY <1>a, <1>r DEF IndInv, TypeInv
<1>2. ASSUME NEW t \in Sessions PROVE Progress(t)'
  <2>1. Progress(t)
    BY DEF IndInv
  <2> QED
    BY <1>a, <2>1 DEF IndInv, TypeInv, Progress
<1>3. HoldersHaveReferences'
  <2> SUFFICES ASSUME NEW t \in Sessions PROVE HoldersHaveReferences!(t)'
    BY DEF HoldersHaveReferences
  <2>1. HoldersHaveReferences!(t)
    BY DEF IndInv, HoldersHaveReferences
  <2>2. CASE t = s
    BY <1>b, <1>p, <1>r, <2>1, <2>2
  <2>3. CASE t # s
    BY <1>p, <1>a, <1>r, <2>1, <2>3 DEF IndInv, TypeInv
  <2> QED
    BY <2>2, <2>3
<1>4. NeverJoinsItself'
  BY <1>a DEF IndInv, NeverJoinsItself
<1>5. OneThreadOwner'
  BY <1>a DEF IndInv, OneThreadOwner, TypeInv
<1> QED
  BY <1>1, <1>2, <1>3, <1>4, <1>5 DEF IndInv

\* The callback gives back the reference of the list it takes the session off.
LEMMA OnSessionClosedInv ==
  ASSUME IndInv, NEW s \in Sessions, OnSessionClosed(s) PROVE IndInv'
<1>a. /\ UNCHANGED <<accept, current, main, todo, running, thread, closed_cb,
                     closed>>
      /\ pump[s] = "called"
      /\ \/ UNCHANGED <<refs, pump, listed>> /\ broken' = "freed transport"
         \/ /\ pump' = [pump EXCEPT ![s] = "signal"]
            /\ refs' = IF s \in listed THEN [refs EXCEPT ![s] = refs[s] - 1] ELSE refs
            /\ listed' = listed \ {s}
            /\ UNCHANGED broken /\ broken' = "no"
  BY DEF IndInv, TypeInv, threadVars, sessionVars, OnSessionClosed
<1>b. refs \in [Sessions -> Int]
  BY DEF IndInv, TypeInv
<1>p. /\ UNCHANGED <<accept, current, todo>> /\ pump[s] = "called"
      /\ IF broken' = "no" THEN s \notin listed' ELSE listed' = listed
  BY <1>a DEF IndInv, TypeInv
<1>r. /\ refs' \in [Sessions -> Int]
      /\ refs'[s] = IF broken' = "no" /\ s \in listed THEN refs[s] - 1 ELSE refs[s]
      /\ \A t \in Sessions : t # s => refs'[t] = refs[t]
  <2> DEFINE n == IF broken' = "no" /\ s \in listed THEN refs[s] - 1 ELSE refs[s]
  <2>1. n \in Int
    BY <1>b
  <2>2. \/ refs' = [refs EXCEPT ![s] = n]
        \/ refs' = refs /\ n = refs[s]
    BY <1>a
  <2> HIDE DEF n
  <2>3. /\ refs'[s] = n /\ refs' \in [Sessions -> Int]
        /\ \A t \in Sessions : t # s => refs'[t] = refs[t]
    BY <1>b, <2>1, <2>2, RefsChange
  <2> QED
    BY <2>3 DEF n
<1>1. TypeInv'
  BY <1>a, <1>r DEF IndInv, TypeInv
<1>2. ASSUME NEW t \in Sessions PROVE Progress(t)'
  <2>1. Progress(t)
    BY DEF IndInv
  <2> QED
    BY <1>a, <2>1 DEF IndInv, TypeInv, Progress
<1>3. HoldersHaveReferences'
  <2> SUFFICES ASSUME NEW t \in Sessions PROVE HoldersHaveReferences!(t)'
    BY DEF HoldersHaveReferences
  <2>1. HoldersHaveReferences!(t)
    BY DEF IndInv, HoldersHaveReferences
  <2>2. CASE t = s
    BY <1>b, <1>p, <1>r, <2>1, <2>2
  <2>3. CASE t # s
    BY <1>p, <1>a, <1>r, <2>1, <2>3 DEF IndInv, TypeInv
  <2> QED
    BY <2>2, <2>3
<1>4. NeverJoinsItself'
  BY <1>a DEF IndInv, NeverJoinsItself
<1>5. OneThreadOwner'
  BY <1>a DEF IndInv, OneThreadOwner, TypeInv
<1> QED
  BY <1>1, <1>2, <1>3, <1>4, <1>5 DEF IndInv

\* The reference of the pump ends with its callback; no flag is left that would
\* make finalize join.
LEMMA PumpDoneInv ==
  ASSUME IndInv, NEW s \in Sessions, PumpDone(s) PROVE IndInv'
<1>a. /\ UNCHANGED <<accept, current, main, todo, running, thread, closed_cb,
                     listed, closed>>
      /\ pump[s] = "drop" /\ broken = "no" /\ broken' = "no"
      /\ pump' = [pump EXCEPT ![s] = "done"]
      /\ refs' = [refs EXCEPT ![s] = refs[s] - 1]
  BY DEF IndInv, TypeInv, threadVars, sessionVars, PumpDone, Progress
<1>b. refs \in [Sessions -> Int]
  BY DEF IndInv, TypeInv
<1>p. /\ UNCHANGED <<accept, current, listed, todo>>
      /\ pump[s] = "drop" /\ pump'[s] = "done"
  BY <1>a DEF IndInv, TypeInv
<1>r. /\ refs' \in [Sessions -> Int]
      /\ refs'[s] = refs[s] - 1
      /\ \A t \in Sessions : t # s => refs'[t] = refs[t]
  <2> DEFINE n == refs[s] - 1
  <2>1. n \in Int
    BY <1>b
  <2>2. \/ refs' = [refs EXCEPT ![s] = n]
        \/ refs' = refs /\ n = refs[s]
    BY <1>a
  <2> HIDE DEF n
  <2>3. /\ refs'[s] = n /\ refs' \in [Sessions -> Int]
        /\ \A t \in Sessions : t # s => refs'[t] = refs[t]
    BY <1>b, <2>1, <2>2, RefsChange
  <2> QED
    BY <2>3 DEF n
<1>1. TypeInv'
  BY <1>a, <1>r DEF IndInv, TypeInv
<1>2. ASSUME NEW t \in Sessions PROVE Progress(t)'
  <2>1. Progress(t)
    BY DEF IndInv
  <2> QED
    BY <1>a, <2>1 DEF IndInv, TypeInv, Progress
<1>3. HoldersHaveReferences'
  <2> SUFFICES ASSUME NEW t \in Sessions PROVE HoldersHaveReferences!(t)'
    BY DEF HoldersHaveReferences
  <2>1. HoldersHaveReferences!(t)
    BY DEF IndInv, HoldersHaveReferences
  <2>2. CASE t = s
    BY <1>b, <1>p, <1>r, <2>1, <2>2
  <2>3. CASE t # s
    BY <1>p, <1>a, <1>r, <2>1, <2>3 DEF IndInv, TypeInv
  <2> QED
    BY <2>2, <2>3
<1>4. NeverJoinsItself'
  BY <1>a DEF IndInv, NeverJoinsItself
<1>5. OneThreadOwner'
  BY <1>a DEF IndInv, OneThreadOwner, TypeInv
<1> QED
  BY <1>1, <1>2, <1>3, <1>4, <1>5 DEF IndInv

\* The main thread gives up a reference only with the session it had to stop.
LEMMA StopSessionInv ==
  ASSUME IndInv, NEW s \in Sessions, StopSession(s) PROVE IndInv'
<1>a. /\ UNCHANGED <<accept, current, closed_cb, pump, listed, closed, broken>>
      /\ running' = [running EXCEPT ![s] = FALSE] /\ s \in todo
      /\ main \in {"stop sessions", "release"}
      /\ \/ /\ main' \in {"release joining", "joining"} /\ todo' = todo
            /\ thread' = [thread EXCEPT ![s] = "joined"] /\ refs' = refs
            /\ running[s]
         \/ /\ todo' = todo \ {s} /\ main' = main /\ thread' = thread /\ ~running[s]
            /\ refs' = IF main = "release" THEN [refs EXCEPT ![s] = refs[s] - 1] ELSE refs
  <2>1. CASE running[s]
    BY <2>1 DEF StopSession, threadVars, sessionVars
  <2>2. CASE ~running[s]
    BY <2>2 DEF StopSession, threadVars, sessionVars
  <2> QED
    BY <2>1, <2>2
<1>b. refs \in [Sessions -> Int]
  BY DEF IndInv, TypeInv
<1>p. /\ UNCHANGED <<accept, current, listed, pump>> /\ s \in todo
      /\ IF running[s] THEN todo' = todo ELSE s \notin todo'
  BY <1>a DEF IndInv, TypeInv
<1>r. /\ refs' \in [Sessions -> Int]
      /\ refs'[s] = IF main = "release" /\ ~running[s] THEN refs[s] - 1 ELSE refs[s]
      /\ \A t \in Sessions : t # s => refs'[t] = refs[t]
  <2> DEFINE n == IF main = "release" /\ ~running[s] THEN refs[s] - 1 ELSE refs[s]
  <2>1. n \in Int
    BY <1>b
  <2>2. \/ refs' = [refs EXCEPT ![s] = n]
        \/ refs' = refs /\ n = refs[s]
    BY <1>a
  <2> HIDE DEF n
  <2>3. /\ refs'[s] = n /\ refs' \in [Sessions -> Int]
        /\ \A t \in Sessions : t # s => refs'[t] = refs[t]
    BY <1>b, <2>1, <2>2, RefsChange
  <2> QED
    BY <2>3 DEF n
<1>1. TypeInv'
  BY <1>a, <1>r DEF IndInv, TypeInv
<1>2. ASSUME NEW t \in Sessions PROVE Progress(t)'
  <2>1. Progress(t)
    BY DEF IndInv
  <2> QED
    BY <1>a, <2>1 DEF IndInv, TypeInv, Progress
<1>3. HoldersHaveReferences'
  <2> SUFFICES ASSUME NEW t \in Sessions PROVE HoldersHaveReferences!(t)'
    BY DEF HoldersHaveReferences
  <2>1. HoldersHaveReferences!(t)
    BY DEF IndInv, HoldersHaveReferences
  <2>2. CASE t = s
    BY <1>b, <1>p, <1>r, <2>1, <2>2
  <2>3. CASE t # s
    BY <1>p, <1>a, <1>r, <2>1, <2>3 DEF IndInv, TypeInv
  <2> QED
    BY <2>2, <2>3
<1>4. NeverJoinsItself'
  BY <1>a DEF IndInv, NeverJoinsItself
<1>5. OneThreadOwner'
  BY <1>a DEF IndInv, OneThreadOwner, TypeInv
<1> QED
  BY <1>1, <1>2, <1>3, <1>4, <1>5 DEF IndInv

\* After a join the session leaves the main thread, with its reference.
LEMMA JoinedInv ==
  ASSUME IndInv, NEW s \in Sessions, Joined(s) PROVE IndInv'
<1>a. /\ UNCHANGED <<accept, current, running, thread, closed_cb, pump,
                     listed, closed, broken>>
      /\ main' \in {"stop sessions", "release"}
      /\ todo' = todo \ {s} /\ s \in todo
      /\ refs' = IF main = "joining" THEN refs ELSE [refs EXCEPT ![s] = refs[s] - 1]
  BY DEF IndInv, TypeInv, threadVars, sessionVars, Joined
<1>b. refs \in [Sessions -> Int]
  BY DEF IndInv, TypeInv
<1>p. /\ UNCHANGED <<accept, current, listed, pump>> /\ s \in todo
      /\ s \notin todo'
  BY <1>a DEF IndInv, TypeInv
<1>r. /\ refs' \in [Sessions -> Int]
      /\ refs'[s] = IF main = "joining" THEN refs[s] ELSE refs[s] - 1
      /\ \A t \in Sessions : t # s => refs'[t] = refs[t]
  <2> DEFINE n == IF main = "joining" THEN refs[s] ELSE refs[s] - 1
  <2>1. n \in Int
    BY <1>b
  <2>2. \/ refs' = [refs EXCEPT ![s] = n]
        \/ refs' = refs /\ n = refs[s]
    BY <1>a
  <2> HIDE DEF n
  <2>3. /\ refs'[s] = n /\ refs' \in [Sessions -> Int]
        /\ \A t \in Sessions : t # s => refs'[t] = refs[t]
    BY <1>b, <2>1, <2>2, RefsChange
  <2> QED
    BY <2>3 DEF n
<1>1. TypeInv'
  BY <1>a, <1>r DEF IndInv, TypeInv
<1>2. ASSUME NEW t \in Sessions PROVE Progress(t)'
  <2>1. Progress(t)
    BY DEF IndInv
  <2> QED
    BY <1>a, <2>1 DEF IndInv, TypeInv, Progress
<1>3. HoldersHaveReferences'
  <2> SUFFICES ASSUME NEW t \in Sessions PROVE HoldersHaveReferences!(t)'
    BY DEF HoldersHaveReferences
  <2>1. HoldersHaveReferences!(t)
    BY DEF IndInv, HoldersHaveReferences
  <2>2. CASE t = s
    BY <1>b, <1>p, <1>r, <2>1, <2>2
  <2>3. CASE t # s
    BY <1>p, <1>a, <1>r, <2>1, <2>3 DEF IndInv, TypeInv
  <2> QED
    BY <2>2, <2>3
<1>4. NeverJoinsItself'
  BY <1>a DEF IndInv, NeverJoinsItself
<1>5. OneThreadOwner'
  BY <1>a DEF IndInv, OneThreadOwner, TypeInv
<1> QED
  BY <1>1, <1>2, <1>3, <1>4, <1>5 DEF IndInv

\* The list's references change hands with the list.
LEMMA CollectSessionsInv ==
  ASSUME IndInv, CollectSessions PROVE IndInv'
<1>a. /\ UNCHANGED <<accept, current, refs, running, thread, closed_cb, pump,
                     closed, broken>>
      /\ main' = "stop sessions" /\ main = "collect"
      /\ todo' = listed /\ listed' = {}
  BY DEF CollectSessions, sessionVars
<1>1. TypeInv'
  BY <1>a DEF IndInv, TypeInv
<1>2. ASSUME NEW t \in Sessions PROVE Progress(t)'
  <2>1. Progress(t)
    BY DEF IndInv
  <2> QED
    BY <1>a, <2>1 DEF IndInv, TypeInv, Progress
<1>3. HoldersHaveReferences'
  <2> SUFFICES ASSUME NEW t \in Sessions PROVE HoldersHaveReferences!(t)'
    BY DEF HoldersHaveReferences
  <2>1. HoldersHaveReferences!(t) /\ refs[t] \in Int
    BY DEF IndInv, TypeInv, HoldersHaveReferences
  <2>2. /\ UNCHANGED <<refs, current, accept, pump>>
        /\ todo' = listed /\ listed' = {}
    BY <1>a
  <2> QED
    BY <2>1, <2>2
<1>4. NeverJoinsItself' /\ OneThreadOwner'
  BY <1>a DEF IndInv, NeverJoinsItself, OneThreadOwner
<1> QED
  BY <1>1, <1>2, <1>3, <1>4 DEF IndInv

\* One step per action; those that move references have lemmas of their own.
LEMMA StepInv == IndInv /\ [Next]_vars => IndInv'
<1> SUFFICES ASSUME IndInv, [Next]_vars PROVE IndInv'
  OBVIOUS
<1> USE DEF threadVars, sessionVars
<1>1. ASSUME NEW s \in Sessions, Accept(s) PROVE IndInv'
  <2>1. TypeInv'
    BY <1>1 DEF IndInv, TypeInv, Accept
  <2>2. \A t \in Sessions : Progress(t)'
    BY <1>1 DEF IndInv, TypeInv, Progress, Accept
  <2>3. HoldersHaveReferences'
    BY <1>1 DEF IndInv, TypeInv, Progress, HoldersHaveReferences, Accept
  <2>4. NeverJoinsItself' /\ OneThreadOwner'
    BY <1>1 DEF IndInv, TypeInv, Progress, NeverJoinsItself, OneThreadOwner, Accept
  <2> QED
    BY <2>1, <2>2, <2>3, <2>4 DEF IndInv
<1>2. ASSUME NEW s \in Sessions, StoreThread(s) PROVE IndInv'
  <2>1. TypeInv'
    BY <1>2 DEF IndInv, TypeInv, StoreThread
  <2>2. \A t \in Sessions : Progress(t)'
    BY <1>2 DEF IndInv, TypeInv, Progress, StoreThread
  <2>3. HoldersHaveReferences'
    BY <1>2 DEF IndInv, TypeInv, Progress, HoldersHaveReferences, StoreThread
  <2>4. NeverJoinsItself' /\ OneThreadOwner'
    BY <1>2 DEF IndInv, TypeInv, Progress, NeverJoinsItself, OneThreadOwner,
       StoreThread
  <2> QED
    BY <2>1, <2>2, <2>3, <2>4 DEF IndInv
<1>3. ASSUME NEW s \in Sessions, softbus_session_set_closed_cb(s) PROVE IndInv'
  <2>1. TypeInv'
    BY <1>3 DEF IndInv, TypeInv, softbus_session_set_closed_cb
  <2>2. \A t \in Sessions : Progress(t)'
    BY <1>3 DEF IndInv, TypeInv, Progress, softbus_session_set_closed_cb
  <2>3. HoldersHaveReferences'
    BY <1>3 DEF IndInv, TypeInv, Progress, HoldersHaveReferences,
       softbus_session_set_closed_cb
  <2>4. NeverJoinsItself' /\ OneThreadOwner'
    BY <1>3 DEF IndInv, TypeInv, Progress, NeverJoinsItself, OneThreadOwner,
       softbus_session_set_closed_cb
  <2> QED
    BY <2>1, <2>2, <2>3, <2>4 DEF IndInv
<1>4. ASSUME NEW s \in Sessions, AppendSession(s) PROVE IndInv'
  <2>1. TypeInv'
    BY <1>4 DEF IndInv, TypeInv, AppendSession
  <2>2. \A t \in Sessions : Progress(t)'
    BY <1>4 DEF IndInv, TypeInv, Progress, AppendSession
  <2>3. HoldersHaveReferences'
    BY <1>4 DEF IndInv, TypeInv, Progress, HoldersHaveReferences, AppendSession
  <2>4. NeverJoinsItself' /\ OneThreadOwner'
    BY <1>4 DEF IndInv, TypeInv, Progress, NeverJoinsItself, OneThreadOwner,
       AppendSession
  <2> QED
    BY <2>1, <2>2, <2>3, <2>4 DEF IndInv
<1>5. ASSUME NEW s \in Sessions, EmitOpened(s) PROVE IndInv'
  <2>1. TypeInv'
    BY <1>5 DEF IndInv, TypeInv, EmitOpened
  <2>2. \A t \in Sessions : Progress(t)'
    BY <1>5 DEF IndInv, TypeInv, Progress, EmitOpened
  <2>3. HoldersHaveReferences'
    BY <1>5 DEF IndInv, TypeInv, Progress, HoldersHaveReferences, EmitOpened
  <2>4. NeverJoinsItself' /\ OneThreadOwner'
    BY <1>5 DEF IndInv, TypeInv, Progress, NeverJoinsItself, OneThreadOwner,
       EmitOpened
  <2> QED
    BY <2>1, <2>2, <2>3, <2>4 DEF IndInv
<1>6. ASSUME NEW s \in Sessions, PumpEnds(s) PROVE IndInv'
  <2>1. TypeInv'
    BY <1>6 DEF IndInv, TypeInv, PumpEnds
  <2>2. \A t \in Sessions : Progress(t)'
    BY <1>6 DEF IndInv, TypeInv, Progress, PumpEnds
  <2>3. HoldersHaveReferences'
    BY <1>6 DEF IndInv, TypeInv, Progress, HoldersHaveReferences, PumpEnds
  <2>4. NeverJoinsItself' /\ OneThreadOwner'
    BY <1>6 DEF IndInv, TypeInv, Progress, NeverJoinsItself, OneThreadOwner,
       PumpEnds
  <2> QED
    BY <2>1, <2>2, <2>3, <2>4 DEF IndInv
<1>7. ASSUME NEW s \in Sessions, SignalClosed(s) PROVE IndInv'
  <2>1. TypeInv'
    BY <1>7 DEF IndInv, TypeInv, SignalClosed
  <2>2. \A t \in Sessions : Progress(t)'
    BY <1>7 DEF IndInv, TypeInv, Progress, SignalClosed
  <2>3. HoldersHaveReferences'
    BY <1>7 DEF IndInv, TypeInv, Progress, HoldersHaveReferences, SignalClosed
  <2>4. NeverJoinsItself' /\ OneThreadOwner'
    BY <1>7 DEF IndInv, TypeInv, Progress, NeverJoinsItself, OneThreadOwner,
       SignalClosed
  <2> QED
    BY <2>1, <2>2, <2>3, <2>4 DEF IndInv
<1>8. ASSUME NEW s \in Sessions, PumpClaims(s) PROVE IndInv'
  BY <1>8, PumpClaimsInv
<1>9. ASSUME NEW s \in Sessions, EmitClosed(s) PROVE IndInv'
  BY <1>9, EmitClosedInv
<1>10. ASSUME NEW s \in Sessions, OnSessionClosed(s) PROVE IndInv'
  BY <1>10, OnSessionClosedInv
<1>11. ASSUME NEW s \in Sessions, PumpDone(s) PROVE IndInv'
  BY <1>11, PumpDoneInv
<1>12. ASSUME NEW s \in Sessions, StopSession(s) PROVE IndInv'
  BY <1>12, StopSessionInv
<1>13. ASSUME NEW s \in Sessions, Joined(s) PROVE IndInv'
  BY <1>13, JoinedInv
<1>14. ASSUME NEW ok \in BOOLEAN, start(ok) PROVE IndInv'
  <2>1. TypeInv'
    BY <1>14 DEF IndInv, TypeInv, start
  <2>2. \A t \in Sessions : Progress(t)'
    BY <1>14 DEF IndInv, TypeInv, Progress, start
  <2>3. HoldersHaveReferences'
    BY <1>14 DEF IndInv, TypeInv, Progress, HoldersHaveReferences, start
  <2>4. NeverJoinsItself' /\ OneThreadOwner'
    BY <1>14 DEF IndInv, TypeInv, Progress, NeverJoinsItself, OneThreadOwner, start
  <2> QED
    BY <2>1, <2>2, <2>3, <2>4 DEF IndInv
<1>15. CASE AcceptLoopEnds
  <2>1. TypeInv'
    BY <1>15 DEF IndInv, TypeInv, AcceptLoopEnds
  <2>2. \A t \in Sessions : Progress(t)'
    BY <1>15 DEF IndInv, TypeInv, Progress, AcceptLoopEnds
  <2>3. HoldersHaveReferences'
    BY <1>15 DEF IndInv, TypeInv, Progress, HoldersHaveReferences, AcceptLoopEnds
  <2>4. NeverJoinsItself' /\ OneThreadOwner'
    BY <1>15 DEF IndInv, TypeInv, Progress, NeverJoinsItself,
       OneThreadOwner, AcceptLoopEnds
  <2> QED
    BY <2>1, <2>2, <2>3, <2>4 DEF IndInv
<1>16. CASE stop
  <2>1. TypeInv'
    BY <1>16 DEF IndInv, TypeInv, stop
  <2>2. \A t \in Sessions : Progress(t)'
    BY <1>16 DEF IndInv, TypeInv, Progress, stop
  <2>3. HoldersHaveReferences'
    BY <1>16 DEF IndInv, TypeInv, Progress, HoldersHaveReferences, stop
  <2>4. NeverJoinsItself' /\ OneThreadOwner'
    BY <1>16 DEF IndInv, TypeInv, Progress, NeverJoinsItself, OneThreadOwner, stop
  <2> QED
    BY <2>1, <2>2, <2>3, <2>4 DEF IndInv
<1>17. CASE StopListeners
  <2>1. TypeInv'
    BY <1>17 DEF IndInv, TypeInv, StopListeners
  <2>2. \A t \in Sessions : Progress(t)'
    BY <1>17 DEF IndInv, TypeInv, Progress, StopListeners
  <2>3. HoldersHaveReferences'
    BY <1>17 DEF IndInv, TypeInv, Progress, HoldersHaveReferences, StopListeners
  <2>4. NeverJoinsItself' /\ OneThreadOwner'
    BY <1>17 DEF IndInv, TypeInv, Progress, NeverJoinsItself,
       OneThreadOwner, StopListeners
  <2> QED
    BY <2>1, <2>2, <2>3, <2>4 DEF IndInv
<1>18. CASE StopReturns
  <2>1. TypeInv'
    BY <1>18 DEF IndInv, TypeInv, StopReturns
  <2>2. \A t \in Sessions : Progress(t)'
    BY <1>18 DEF IndInv, TypeInv, Progress, StopReturns
  <2>3. HoldersHaveReferences'
    BY <1>18 DEF IndInv, TypeInv, Progress, HoldersHaveReferences, StopReturns
  <2>4. NeverJoinsItself' /\ OneThreadOwner'
    BY <1>18 DEF IndInv, TypeInv, Progress, NeverJoinsItself,
       OneThreadOwner, StopReturns
  <2> QED
    BY <2>1, <2>2, <2>3, <2>4 DEF IndInv
<1>19. CASE finalize
  <2>1. TypeInv'
    BY <1>19 DEF IndInv, TypeInv, finalize
  <2>2. \A t \in Sessions : Progress(t)'
    BY <1>19 DEF IndInv, TypeInv, Progress, finalize
  <2>3. HoldersHaveReferences'
    BY <1>19 DEF IndInv, TypeInv, Progress, HoldersHaveReferences, finalize
  <2>4. NeverJoinsItself' /\ OneThreadOwner'
    BY <1>19 DEF IndInv, TypeInv, Progress, NeverJoinsItself,
       OneThreadOwner, finalize
  <2> QED
    BY <2>1, <2>2, <2>3, <2>4 DEF IndInv
<1>20. CASE FinalizeReturns
  <2>1. TypeInv'
    BY <1>20 DEF IndInv, TypeInv, FinalizeReturns
  <2>2. \A t \in Sessions : Progress(t)'
    BY <1>20 DEF IndInv, TypeInv, Progress, FinalizeReturns
  <2>3. HoldersHaveReferences'
    BY <1>20 DEF IndInv, TypeInv, Progress, HoldersHaveReferences, FinalizeReturns
  <2>4. NeverJoinsItself' /\ OneThreadOwner'
    BY <1>20 DEF IndInv, TypeInv, Progress, NeverJoinsItself,
       OneThreadOwner, FinalizeReturns
  <2> QED
    BY <2>1, <2>2, <2>3, <2>4 DEF IndInv
<1>21. CASE CollectSessions
  BY <1>21, CollectSessionsInv
<1>22. CASE UNCHANGED vars
  <2>1. TypeInv'
    BY <1>22 DEF IndInv, TypeInv, vars
  <2>2. \A t \in Sessions : Progress(t)'
    BY <1>22 DEF IndInv, TypeInv, Progress, vars
  <2>3. HoldersHaveReferences'
    BY <1>22 DEF IndInv, TypeInv, Progress, HoldersHaveReferences, vars
  <2>4. NeverJoinsItself' /\ OneThreadOwner'
    BY <1>22 DEF IndInv, TypeInv, Progress, NeverJoinsItself, OneThreadOwner, vars
  <2> QED
    BY <2>1, <2>2, <2>3, <2>4 DEF IndInv
<1> QED
    BY <1>1, <1>2, <1>3, <1>4, <1>5, <1>6, <1>7, <1>8, <1>9, <1>10, <1>11,
     <1>12, <1>13, <1>14, <1>15, <1>16, <1>17, <1>18, <1>19, <1>20, <1>21,
     <1>22
     DEF Next, AcceptLoop, PumpThread, MainThread

\* The references of every session, whatever the pumps, the accept loop and a
\* stop or finalize do in whichever order (infra_backend.c, softbus_session.c).
THEOREM BackendInvariant == Spec => []IndInv
<1>1. Init => IndInv
  BY InitInv
<1>2. IndInv /\ [Next]_vars => IndInv'
  BY StepInv
<1> QED
  BY <1>1, <1>2, PTL DEF Spec

\* Whoever holds a session has a reference to it (infra_backend.c).
THEOREM HoldersHaveReferencesHolds == Spec => []HoldersHaveReferences
<1>1. IndInv => HoldersHaveReferences
  BY DEF IndInv
<1> QED
  BY <1>1, BackendInvariant, PTL

\* finalize on the pump's own thread never joins it (softbus_session.c).
THEOREM NeverJoinsItselfHolds == Spec => []NeverJoinsItself
<1>1. IndInv => NeverJoinsItself
  BY DEF IndInv
<1> QED
  BY <1>1, BackendInvariant, PTL

\* A GThread is joined by the main thread or dropped by the pump, never both.
THEOREM OneThreadOwnerHolds == Spec => []OneThreadOwner
<1>1. IndInv => OneThreadOwner
  BY DEF IndInv
<1> QED
  BY <1>1, BackendInvariant, PTL

\* A pump that was joined has reported its end (softbus_session_stop).
THEOREM JoinedIsReportedHolds == Spec => []JoinedIsReported
<1>1. IndInv => JoinedIsReported
  BY DEF IndInv, Progress, JoinedIsReported
<1> QED
  BY <1>1, BackendInvariant, PTL
=============================================================================
