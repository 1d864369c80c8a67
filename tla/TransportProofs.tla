--------------------------- MODULE TransportProofs ---------------------------
(***************************************************************************)
(* Proofs about Transport: what SoftAp promises of the access point, and   *)
(* what SessionBackend promises of its sessions, hold of a transport of    *)
(* any kind.                                                               *)
(***************************************************************************)
EXTENDS Transport, SessionBackendProofs, SequenceTheorems

\* Where the main thread of an access point may be when no service runs that
\* it could end: before hostapd is started, and after it was ended.
Quiet == {"new", "dirs", "create", "wait", "set up", "address", "configs",
          "hostapd", "conf", "supplicant", "failed", "end rules", "end address",
          "end up", "end interface", "end supplicant", "stopped", "gone"}

\* The services of the access point follow the main thread, which dnsmasq
\* joins after hostapd and leaves before it.
ServicesFollow ==
  /\ main \in Quiet \/ kind # "softap" => hostapd # "known" /\ ~dnsmasq
  /\ main \in {"dnsmasq", "end hostapd"} => ~dnsmasq

\* An interface is up or has its address only as the cache knows it: the
\* requests about it have reached it, and those to come will.
OnlyAsCached == up \/ addr => Ap!Reaches

\* What stop has asked for, as far as it has come, is done or was refused.
StopIsComplete ==
  /\ main \in {"end up", "end interface", "stopped"} /\ kind = "softap" /\ addr
       => "remove address" \in missed
  /\ main \in {"end interface", "stopped"} /\ kind = "softap" /\ up
       => "down" \in missed
  /\ main = "stopped" /\ kind = "softap" /\ link # 0 => "delete" \in missed

\* Each kind has its own way through start and stop.
KindsApart ==
  /\ kind = "softap" => main \in {"new", "dirs", "create", "wait", "set up",
       "address", "configs", "hostapd", "dnsmasq", "iptables", "up", "failed",
       "end dnsmasq", "end hostapd", "end rules", "end address", "end up",
       "end interface", "stopped", "gone"}
  /\ kind = "p2p" => main \in {"new", "conf", "supplicant", "up", "failed",
                               "end supplicant", "stopped", "gone"}

\* What holds of an access point or a group owner.
ApInv == ServicesFollow /\ StopIsComplete /\ OnlyAsCached /\ KindsApart

\* The interface as the main thread has it, in the one start and stop of a
\* transport that is not started again, but for what the kernel refused.
InterfaceFollows ==
  /\ cache # 0 /\ main \notin {"stopped", "gone"} => link = cache
  /\ main \in {"set up", "address", "configs", "hostapd", "dnsmasq", "iptables"}
       => cache # 0
  /\ main \in {"address", "configs", "hostapd", "dnsmasq", "iptables"}
       => up \/ "up" \in missed
  /\ main \in {"configs", "hostapd", "dnsmasq", "iptables"}
       => addr \/ "address" \in missed

\* Nobody has used the sessions of a transport that is no infrastructure.
NoSessions ==
  /\ current = {} /\ todo = {} /\ listed = {} /\ broken = "no"
  /\ \A s \in Sessions : refs[s] = 0 /\ thread[s] = "unset" /\ pump[s] = "off"

\* Nor the services of one that is.
NoServices == hostapd = "none" /\ dnsmasq = FALSE

\* The inductive invariant.
TransportInv ==
  /\ kind \in {"infra", "softap", "p2p"}
  /\ kind = "infra" => IndInv /\ NoServices
  /\ kind # "infra" => ApInv /\ NoSessions

\* A transport that is new runs nothing.
LEMMA TransportInitInv == TransportInit => TransportInv
<1> SUFFICES ASSUME TransportInit PROVE TransportInv
  OBVIOUS
<1>1. IndInv
  BY InitInv DEF TransportInit
<1>2. Ap!Init /\ Init /\ kind \in {"infra", "softap", "p2p"}
  BY DEF TransportInit
<1>3. NoServices /\ NoSessions
  BY <1>2 DEF Ap!Init, Init, NoServices, NoSessions
<1>4. ServicesFollow /\ StopIsComplete /\ OnlyAsCached /\ KindsApart
  BY <1>2 DEF Ap!Init, Ap!Reaches, ServicesFollow, StopIsComplete,
              OnlyAsCached, KindsApart
<1> QED
  BY <1>1, <1>2, <1>3, <1>4 DEF TransportInv, ApInv

\* A step of an access point, with everything it may do.
LEMMA ApStepInv ==
  ASSUME kind \in {"softap", "p2p"}, ApInv, Ap!Next PROVE ApInv'
<1> USE DEF ApInv, ServicesFollow, StopIsComplete, OnlyAsCached, KindsApart,
            Quiet, Ap!Reaches, Ap!Ask, Ap!deviceVars, Ap!serviceVars, Ap!shellVars
<1>1. CASE Ap!start
  BY <1>1 DEF Ap!start
<1>2. CASE Ap!StepFails
  BY <1>2 DEF Ap!StepFails, Ap!StartSteps
<1>3. CASE Ap!WaitTimesOut
  BY <1>3 DEF Ap!WaitTimesOut
<1>4. CASE Ap!EnsureDirs
  BY <1>4 DEF Ap!EnsureDirs
<1>5. ASSUME NEW ok \in BOOLEAN, Ap!CreateInterface(ok) PROVE ApInv'
  BY <1>5 DEF Ap!CreateInterface
<1>6. CASE Ap!InterfaceShows
  BY <1>6 DEF Ap!InterfaceShows
<1>7. ASSUME NEW ok \in BOOLEAN, Ap!SetUp(ok) PROVE ApInv'
  BY <1>7 DEF Ap!SetUp
<1>8. ASSUME NEW ok \in BOOLEAN, Ap!AddAddress(ok) PROVE ApInv'
  BY <1>8 DEF Ap!AddAddress
<1>9. CASE Ap!GenerateConfigs
  BY <1>9 DEF Ap!GenerateConfigs
<1>10. CASE Ap!StartHostapd
  BY <1>10 DEF Ap!StartHostapd
<1>11. CASE Ap!StartDnsmasq
  BY <1>11 DEF Ap!StartDnsmasq
<1>12. CASE Ap!DnsmasqFails
  BY <1>12 DEF Ap!DnsmasqFails, Ap!WithoutHostapd
<1>13. ASSUME NEW ok \in BOOLEAN, Ap!Running(ok) PROVE ApInv'
  BY <1>13 DEF Ap!Running
<1>14. CASE Ap!GenerateSupplicantConf
  BY <1>14 DEF Ap!GenerateSupplicantConf
<1>15. CASE Ap!StartSupplicant
  BY <1>15 DEF Ap!StartSupplicant
<1>16. CASE Ap!stop
  BY <1>16 DEF Ap!stop
<1>17. CASE Ap!EndDnsmasq
  BY <1>17 DEF Ap!EndDnsmasq
<1>18. CASE Ap!EndHostapd
  BY <1>18 DEF Ap!EndHostapd, Ap!WithoutHostapd
<1>19. ASSUME NEW ok \in BOOLEAN, Ap!EndRules(ok) PROVE ApInv'
  BY <1>19 DEF Ap!EndRules
<1>20. ASSUME NEW ok \in BOOLEAN, Ap!EndAddress(ok) PROVE ApInv'
  BY <1>20 DEF Ap!EndAddress
<1>21. ASSUME NEW ok \in BOOLEAN, Ap!EndUp(ok) PROVE ApInv'
  BY <1>21 DEF Ap!EndUp
<1>22. ASSUME NEW ok \in BOOLEAN, Ap!EndInterface(ok) PROVE ApInv'
  BY <1>22 DEF Ap!EndInterface
<1>23. CASE Ap!EndSupplicant
  BY <1>23 DEF Ap!EndSupplicant
<1>24. CASE Ap!finalize
  BY <1>24 DEF Ap!finalize
<1>25. CASE Ap!ShellEnds
  <2>1. UNCHANGED <<kind, main, cache, link, up, addr, missed, hostapd, dnsmasq>>
    BY <1>25 DEF Ap!ShellEnds
  <2> QED
    BY <2>1
<1>26. CASE Ap!SupplicantDaemonizes
  BY <1>26 DEF Ap!SupplicantDaemonizes
<1> QED
  BY <1>1, <1>2, <1>3, <1>4, <1>5, <1>6, <1>7, <1>8, <1>9, <1>10, <1>11,
     <1>12, <1>13, <1>14, <1>15, <1>16, <1>17, <1>18, <1>19, <1>20, <1>21,
     <1>22, <1>23, <1>24, <1>25, <1>26
     DEF Ap!Next, Ap!MainThread, Ap!Netlink

\* The interface is there, up and has its address while services need it: the
\* steps are made in this order and undone in the opposite one.
LEMMA ApInterfaceStep ==
  ASSUME Restarts = FALSE, kind = "softap", ApInv,
         InterfaceFollows, Ap!ServicesOnInterface, Ap!Next
  PROVE  InterfaceFollows' /\ Ap!ServicesOnInterface'
<1> USE DEF ApInv, ServicesFollow, KindsApart, Quiet, InterfaceFollows,
            Ap!ServicesOnInterface, Ap!Ask, Ap!deviceVars, Ap!serviceVars,
            Ap!shellVars
<1>1. CASE Ap!start
  BY <1>1 DEF Ap!start
<1>2. CASE Ap!StepFails
  BY <1>2 DEF Ap!StepFails, Ap!StartSteps
<1>3. CASE Ap!WaitTimesOut
  BY <1>3 DEF Ap!WaitTimesOut
<1>4. CASE Ap!EnsureDirs
  BY <1>4 DEF Ap!EnsureDirs
<1>5. ASSUME NEW ok \in BOOLEAN, Ap!CreateInterface(ok)
      PROVE  InterfaceFollows' /\ Ap!ServicesOnInterface'
  BY <1>5 DEF Ap!CreateInterface
<1>6. CASE Ap!InterfaceShows
  BY <1>6 DEF Ap!InterfaceShows
<1>7. ASSUME NEW ok \in BOOLEAN, Ap!SetUp(ok)
      PROVE  InterfaceFollows' /\ Ap!ServicesOnInterface'
  BY <1>7 DEF Ap!SetUp, Ap!Reaches
<1>8. ASSUME NEW ok \in BOOLEAN, Ap!AddAddress(ok)
      PROVE  InterfaceFollows' /\ Ap!ServicesOnInterface'
  BY <1>8 DEF Ap!AddAddress, Ap!Reaches
<1>9. CASE Ap!GenerateConfigs
  BY <1>9 DEF Ap!GenerateConfigs
<1>10. CASE Ap!StartHostapd
  BY <1>10 DEF Ap!StartHostapd
<1>11. CASE Ap!StartDnsmasq
  BY <1>11 DEF Ap!StartDnsmasq
<1>12. CASE Ap!DnsmasqFails
  BY <1>12 DEF Ap!DnsmasqFails, Ap!WithoutHostapd
<1>13. ASSUME NEW ok \in BOOLEAN, Ap!Running(ok)
      PROVE  InterfaceFollows' /\ Ap!ServicesOnInterface'
  BY <1>13 DEF Ap!Running
<1>14. CASE Ap!GenerateSupplicantConf
  BY <1>14 DEF Ap!GenerateSupplicantConf
<1>15. CASE Ap!StartSupplicant
  BY <1>15 DEF Ap!StartSupplicant
<1>16. CASE Ap!stop
  BY <1>16 DEF Ap!stop
<1>17. CASE Ap!EndDnsmasq
  BY <1>17 DEF Ap!EndDnsmasq
<1>18. CASE Ap!EndHostapd
  BY <1>18 DEF Ap!EndHostapd, Ap!WithoutHostapd
<1>19. ASSUME NEW ok \in BOOLEAN, Ap!EndRules(ok)
      PROVE  InterfaceFollows' /\ Ap!ServicesOnInterface'
  BY <1>19 DEF Ap!EndRules
<1>20. ASSUME NEW ok \in BOOLEAN, Ap!EndAddress(ok)
      PROVE  InterfaceFollows' /\ Ap!ServicesOnInterface'
  BY <1>20 DEF Ap!EndAddress, Ap!Reaches
<1>21. ASSUME NEW ok \in BOOLEAN, Ap!EndUp(ok)
      PROVE  InterfaceFollows' /\ Ap!ServicesOnInterface'
  BY <1>21 DEF Ap!EndUp, Ap!Reaches
<1>22. ASSUME NEW ok \in BOOLEAN, Ap!EndInterface(ok)
      PROVE  InterfaceFollows' /\ Ap!ServicesOnInterface'
  BY <1>22 DEF Ap!EndInterface
<1>23. CASE Ap!EndSupplicant
  BY <1>23 DEF Ap!EndSupplicant
<1>24. CASE Ap!finalize
  BY <1>24 DEF Ap!finalize
<1>25. CASE Ap!ShellEnds
  <2>1. UNCHANGED <<kind, main, cache, link, up, addr, missed, hostapd, dnsmasq>>
    BY <1>25 DEF Ap!ShellEnds
  <2> QED
    BY <2>1
<1>26. CASE Ap!SupplicantDaemonizes
  BY <1>26 DEF Ap!SupplicantDaemonizes
<1> QED
  BY <1>1, <1>2, <1>3, <1>4, <1>5, <1>6, <1>7, <1>8, <1>9, <1>10, <1>11,
     <1>12, <1>13, <1>14, <1>15, <1>16, <1>17, <1>18, <1>19, <1>20, <1>21,
     <1>22, <1>23, <1>24, <1>25, <1>26
     DEF Ap!Next, Ap!MainThread, Ap!Netlink

\* The kind of a transport never changes, and an access point has no sessions.
LEMMA ApFrame ==
  ASSUME Ap!Next PROVE kind' = kind
<1> USE DEF Ap!deviceVars, Ap!serviceVars, Ap!shellVars
<1>1. CASE Ap!MainThread
  BY <1>1 DEF Ap!MainThread, Ap!Netlink, Ap!start, Ap!StepFails, Ap!WaitTimesOut,
     Ap!EnsureDirs, Ap!CreateInterface, Ap!InterfaceShows, Ap!SetUp,
     Ap!AddAddress, Ap!GenerateConfigs, Ap!StartHostapd, Ap!StartDnsmasq,
     Ap!DnsmasqFails, Ap!Running, Ap!GenerateSupplicantConf,
     Ap!StartSupplicant, Ap!stop, Ap!EndDnsmasq, Ap!EndHostapd, Ap!EndRules,
     Ap!EndAddress, Ap!EndUp, Ap!EndInterface, Ap!EndSupplicant, Ap!finalize
<1>2. CASE Ap!ShellEnds
  BY <1>2 DEF Ap!ShellEnds
<1>3. CASE Ap!SupplicantDaemonizes
  BY <1>3 DEF Ap!SupplicantDaemonizes
<1> QED
  BY <1>1, <1>2, <1>3 DEF Ap!Next

transportVars == <<vars, kind, apVars>>

\* A step of a transport of any kind.
LEMMA TransportStepInv ==
  ASSUME TransportInv, [TransportNext]_transportVars PROVE TransportInv'
<1>1. CASE kind = "infra" /\ Next /\ UNCHANGED <<kind, apVars>>
  <2>1. IndInv'
    BY <1>1, StepInv DEF TransportInv
  <2>2. kind' = kind /\ UNCHANGED <<hostapd, dnsmasq>>
    BY <1>1 DEF apVars
  <2>3. NoServices'
    BY <1>1, <2>2 DEF TransportInv, NoServices
  <2> QED
    BY <1>1, <2>1, <2>2, <2>3 DEF TransportInv
<1>2. CASE kind # "infra" /\ Ap!Next /\ UNCHANGED sharedByInfra
  <2>1. ApInv' /\ kind' = kind
    BY <1>2, ApFrame, ApStepInv DEF TransportInv
  <2>2. UNCHANGED <<current, todo, listed, broken, refs, thread, pump>>
    BY <1>2 DEF sharedByInfra, sessionVars
  <2>3. NoSessions'
    BY <1>2, <2>2 DEF TransportInv, NoSessions
  <2> QED
    BY <1>2, <2>1, <2>3 DEF TransportInv
<1>3. CASE UNCHANGED transportVars
  <2>1. UNCHANGED vars /\ kind' = kind
        /\ UNCHANGED <<link, cache, up, addr, missed, hostapd, dnsmasq, main>>
        /\ UNCHANGED <<current, todo, listed, broken, refs, thread, pump>>
    BY <1>3 DEF transportVars, apVars, vars, threadVars, sessionVars
  <2>2. CASE kind = "infra"
    <3>1. IndInv'
      BY <2>1, <2>2, StepInv DEF TransportInv
    <3> QED
      BY <2>1, <2>2, <3>1 DEF TransportInv, NoServices
  <2>3. CASE kind # "infra"
    <3>1. ApInv'
      BY <2>1, <2>3 DEF TransportInv, ApInv, ServicesFollow, StopIsComplete,
                        OnlyAsCached, Ap!Reaches, KindsApart
    <3>2. NoSessions'
      BY <2>1, <2>3 DEF TransportInv, NoSessions
    <3> QED
      BY <2>1, <2>3, <3>1, <3>2 DEF TransportInv
  <2> QED
    BY <2>2, <2>3
<1> QED
  BY <1>1, <1>2, <1>3 DEF TransportNext

\* A transport of any kind, whatever fails or is left running.
THEOREM TransportInvariant == TransportSpec => []TransportInv
<1>1. TransportInit => TransportInv
  BY TransportInitInv
<1>2. TransportInv /\ [TransportNext]_<<vars, kind, apVars>> => TransportInv'
  BY TransportStepInv DEF transportVars
<1> QED
  BY <1>1, <1>2, PTL DEF TransportSpec

\* A stop undoes a start wherever that has stopped, also when it is started
\* again afterwards, but for what the kernel does not do (softap_backend.c).
THEOREM StopUndoesStartHolds == TransportSpec => []StopUndoesStart
<1>1. TransportInv => StopUndoesStart
  BY DEF TransportInv, ApInv, ServicesFollow, StopIsComplete, OnlyAsCached,
         Quiet, StopUndoesStart, Ap!StopUndoesStart, Ap!Reaches
<1> QED
  BY <1>1, TransportInvariant, PTL

\* A start that fails serves nobody: hostapd is ended when dnsmasq fails
\* (softap_backend.c).
THEOREM FailedStartServesNobodyHolds == TransportSpec => []FailedStartServesNobody
<1>1. TransportInv => FailedStartServesNobody
  BY DEF TransportInv, ApInv, ServicesFollow, Quiet, NoServices,
         FailedStartServesNobody, Ap!FailedStartServesNobody
<1> QED
  BY <1>1, TransportInvariant, PTL

\* ServicesOnInterface with what it needs, of a transport that starts once.
InterfaceInv ==
  kind = "softap" => InterfaceFollows /\ Ap!ServicesOnInterface

\* dnsmasq and a hostapd that stop could end run on an interface that exists,
\* is up and has its address where the kernel did as it was asked, in a
\* transport that is started once, as main.c does (softap_backend.c).
THEOREM ServicesOnInterfaceHolds ==
  ASSUME Restarts = FALSE PROVE TransportSpec => []ServicesOnInterface
<1>1. TransportInit => InterfaceInv
  BY DEF TransportInit, Ap!Init, InterfaceInv, InterfaceFollows,
         Ap!ServicesOnInterface
<1>2. TransportInv /\ InterfaceInv /\ [TransportNext]_<<vars, kind, apVars>>
        => InterfaceInv'
  <2> SUFFICES ASSUME TransportInv, InterfaceInv,
                      [TransportNext]_transportVars, kind' = "softap"
               PROVE  InterfaceFollows' /\ Ap!ServicesOnInterface'
    BY DEF InterfaceInv, transportVars
  <2>1. CASE kind = "infra" /\ Next /\ UNCHANGED <<kind, apVars>>
    BY <2>1
  <2>2. CASE kind # "infra" /\ Ap!Next /\ UNCHANGED sharedByInfra
    <3>1. kind = "softap"
      BY <2>2, ApFrame
    <3> QED
      BY <2>2, <3>1, ApInterfaceStep DEF TransportInv, InterfaceInv
  <2>3. CASE UNCHANGED transportVars
    <3>1. UNCHANGED <<kind, main, cache, link, up, addr, missed, hostapd, dnsmasq>>
      BY <2>3 DEF transportVars, apVars, vars, threadVars
    <3> QED
      BY <3>1 DEF InterfaceInv, InterfaceFollows, Ap!ServicesOnInterface
  <2> QED
    BY <2>1, <2>2, <2>3 DEF TransportNext
<1>3. TransportInv /\ InterfaceInv => ServicesOnInterface
  BY DEF TransportInv, InterfaceInv, NoServices, ApInv, ServicesFollow,
         ServicesOnInterface, Ap!ServicesOnInterface
<1> QED
  BY <1>1, <1>2, <1>3, TransportInvariant, PTL DEF TransportSpec

\* The sessions of a transport of any kind are counted, joined by one thread
\* and reported (infra_backend.c through wifi_transport.c).
THEOREM TransportSessions ==
  TransportSpec =>
    [](HoldersHaveReferences /\ NeverJoinsItself /\ OneThreadOwner /\ JoinedIsReported)
<1>1. IndInv => HoldersHaveReferences /\ NeverJoinsItself /\ OneThreadOwner
                /\ JoinedIsReported
  BY DEF IndInv, Progress, JoinedIsReported
<1>2. ApInv /\ NoSessions /\ kind \in {"softap", "p2p"} =>
        HoldersHaveReferences /\ NeverJoinsItself /\ OneThreadOwner
        /\ JoinedIsReported
  <2>1. NoSessions => HoldersHaveReferences
    BY DEF NoSessions, HoldersHaveReferences
  <2>2. NoSessions => NeverJoinsItself /\ JoinedIsReported
    BY DEF NoSessions, NeverJoinsItself, JoinedIsReported
  <2>3. ApInv /\ kind \in {"softap", "p2p"} => OneThreadOwner
    BY DEF ApInv, KindsApart, OneThreadOwner
  <2> QED
    BY <2>1, <2>2, <2>3
<1>3. TransportInv => HoldersHaveReferences /\ NeverJoinsItself
                      /\ OneThreadOwner /\ JoinedIsReported
  BY <1>1, <1>2 DEF TransportInv
<1> QED
  BY <1>3, TransportInvariant, PTL

\* An access point or a group owner keeps to the types of SoftAp.
ApTypes == kind # "infra" => Ap!TypeOK

\* Shells come and go one by one.
LEMMA ShellTypes ==
  ASSUME shells \in Seq({"add", "delete"}), Ap!ShellEnds
  PROVE  /\ shells' \in Seq({"add", "delete"}) /\ rules' \in BOOLEAN
         /\ UNCHANGED <<kind, state, main, cache, link, hostapd, wpa>>
         /\ UNCHANGED <<up, addr, missed, dnsmasq>>
<1> PICK i \in 1 .. Len(shells) :
      /\ rules' = (shells[i] = "add")
      /\ shells' = SubSeq(shells, 1, i - 1) \o SubSeq(shells, i + 1, Len(shells))
      /\ UNCHANGED <<kind, state, main, cache, link, up, addr, missed>>
      /\ UNCHANGED <<hostapd, dnsmasq, wpa>>
  BY DEF Ap!ShellEnds, Ap!deviceVars, Ap!serviceVars
<1>1. /\ Len(shells) \in Nat
      /\ \A j \in 1 .. Len(shells) : shells[j] \in {"add", "delete"}
  BY LenProperties
<1>2. SubSeq(shells, 1, i - 1) \in Seq({"add", "delete"})
  <2>1. \A j \in 1 .. i - 1 : shells[j] \in {"add", "delete"}
    BY <1>1
  <2> QED
    BY <1>1, <2>1, SubSeqProperties
<1>3. SubSeq(shells, i + 1, Len(shells)) \in Seq({"add", "delete"})
  <2>1. \A j \in i + 1 .. Len(shells) : shells[j] \in {"add", "delete"}
    BY <1>1
  <2> QED
    BY <1>1, <2>1, SubSeqProperties
<1>4. shells' \in Seq({"add", "delete"})
  BY <1>2, <1>3, ConcatProperties
<1> QED
  BY <1>4

\* The steps that leave the main thread where it is, and the last one of stop.
LEMMA ApTypeOther ==
  ASSUME Ap!TypeOK,
         \/ \E ok \in BOOLEAN : Ap!EndInterface(ok)
         \/ Ap!ShellEnds \/ Ap!SupplicantDaemonizes
  PROVE  Ap!TypeOK'
<1> USE DEF Ap!deviceVars, Ap!serviceVars, Ap!shellVars
<1>1. ASSUME NEW ok \in BOOLEAN, Ap!EndInterface(ok) PROVE Ap!TypeOK'
  <2>1. UNCHANGED <<kind, cache, hostapd, wpa, shells>>
    BY <1>1 DEF Ap!EndInterface
  <2>2. UNCHANGED <<dnsmasq, rules>>
    BY <1>1 DEF Ap!EndInterface
  <2>3. link' \in 0 .. 2 /\ up' \in BOOLEAN /\ addr' \in BOOLEAN
    <3>1. CASE link' = 0 /\ up' = FALSE /\ addr' = FALSE
      <4>1. link' \in 0 .. 2
        BY <3>1
      <4> QED
        BY Zenon, <3>1, <4>1
    <3>2. CASE UNCHANGED <<link, up, addr>>
      <4>1. link' = link /\ up' = up /\ addr' = addr
        BY <3>2
      <4> QED
        BY Zenon, <4>1 DEF Ap!TypeOK
    <3> QED
      BY <1>1, <3>1, <3>2 DEF Ap!EndInterface
  <2>4. state' = "STOPPED" /\ main' \in Ap!Rest
    BY <1>1 DEF Ap!EndInterface, Ap!Rest
  <2>5. /\ main' \in Ap!StartSteps \cup Ap!StopSteps \cup Ap!Rest
        /\ state' \in {"STOPPED", "STARTING", "RUNNING", "STOPPING", "ERROR"}
    BY <2>4
  <2>6. missed' \subseteq Ap!Requests
    BY <1>1 DEF Ap!EndInterface, Ap!Ask, Ap!TypeOK, Ap!Requests
  <2> QED
    BY Zenon, <2>1, <2>2, <2>3, <2>5, <2>6 DEF Ap!TypeOK
<1>2. CASE Ap!ShellEnds
  <2>1. shells \in Seq({"add", "delete"})
    BY DEF Ap!TypeOK
  <2>2. /\ shells' \in Seq({"add", "delete"}) /\ rules' \in BOOLEAN
        /\ UNCHANGED <<kind, state, main, cache, link, hostapd, wpa>>
        /\ UNCHANGED <<up, addr, missed, dnsmasq>>
    BY <1>2, <2>1, ShellTypes
  <2> QED
    BY Zenon, <2>2 DEF Ap!TypeOK
<1>3. CASE Ap!SupplicantDaemonizes
  <2>1. UNCHANGED <<kind, state, main, cache, link, hostapd, shells>>
    BY <1>3 DEF Ap!SupplicantDaemonizes
  <2>2. UNCHANGED <<up, addr, missed, dnsmasq, rules>>
    BY <1>3 DEF Ap!SupplicantDaemonizes
  <2>3. wpa' \in {"none", "launcher", "daemon"}
    BY <1>3 DEF Ap!SupplicantDaemonizes
  <2> QED
    BY Zenon, <2>1, <2>2, <2>3 DEF Ap!TypeOK
<1> QED
  BY <1>1, <1>2, <1>3

\* What a step does to the interface and its services keeps their types.
LEMMA ApTypeStep ==
  ASSUME Ap!TypeOK, Ap!Next PROVE Ap!TypeOK'
<1> USE DEF Ap!TypeOK, Ap!StartSteps, Ap!StopSteps, Ap!Rest, Ap!Requests,
            Ap!Ask, Ap!deviceVars, Ap!serviceVars, Ap!shellVars
<1>1. CASE Ap!start
  BY <1>1 DEF Ap!start
<1>2. CASE Ap!StepFails
  BY <1>2 DEF Ap!StepFails
<1>3. CASE Ap!WaitTimesOut
  BY <1>3 DEF Ap!WaitTimesOut
<1>4. CASE Ap!EnsureDirs
  BY <1>4 DEF Ap!EnsureDirs
<1>5. ASSUME NEW ok \in BOOLEAN, Ap!CreateInterface(ok) PROVE Ap!TypeOK'
  <2>1. link' = link \/ link' = cache + 1
    BY <1>5 DEF Ap!CreateInterface
  <2>2. link' \in 0 .. 2
    <3>1. link \in 0 .. 2 /\ cache \in 0 .. 1
      BY Zenon DEF Ap!TypeOK
    <3> HIDE DEF Ap!TypeOK
    <3> QED
      BY <2>1, <3>1
  <2>3. /\ UNCHANGED <<kind, state, cache, hostapd, wpa, shells>>
        /\ UNCHANGED <<up, addr, missed, dnsmasq, rules>>
    BY <1>5 DEF Ap!CreateInterface
  <2>4. main' \in Ap!StartSteps \cup Ap!StopSteps \cup Ap!Rest
    BY <1>5 DEF Ap!CreateInterface
  <2> QED
    BY Zenon, <2>2, <2>3, <2>4 DEF Ap!TypeOK
<1>6. CASE Ap!InterfaceShows
  BY <1>6 DEF Ap!InterfaceShows
<1>7. ASSUME NEW ok \in BOOLEAN, Ap!SetUp(ok) PROVE Ap!TypeOK'
  BY <1>7 DEF Ap!SetUp, Ap!Reaches
<1>8. ASSUME NEW ok \in BOOLEAN, Ap!AddAddress(ok) PROVE Ap!TypeOK'
  BY <1>8 DEF Ap!AddAddress, Ap!Reaches
<1>9. CASE Ap!GenerateConfigs
  BY <1>9 DEF Ap!GenerateConfigs
<1>10. CASE Ap!StartHostapd
  BY <1>10 DEF Ap!StartHostapd
<1>11. CASE Ap!StartDnsmasq
  BY <1>11 DEF Ap!StartDnsmasq
<1>12. CASE Ap!DnsmasqFails
  BY <1>12 DEF Ap!DnsmasqFails, Ap!WithoutHostapd
<1>13. ASSUME NEW ok \in BOOLEAN, Ap!Running(ok) PROVE Ap!TypeOK'
  BY <1>13, AppendProperties DEF Ap!Running
<1>14. CASE Ap!GenerateSupplicantConf
  BY <1>14 DEF Ap!GenerateSupplicantConf
<1>15. CASE Ap!StartSupplicant
  BY <1>15 DEF Ap!StartSupplicant
<1>16. CASE Ap!stop
  BY <1>16 DEF Ap!stop
<1>17. CASE Ap!EndDnsmasq
  BY <1>17 DEF Ap!EndDnsmasq
<1>18. CASE Ap!EndHostapd
  BY <1>18 DEF Ap!EndHostapd, Ap!WithoutHostapd
<1>19. ASSUME NEW ok \in BOOLEAN, Ap!EndRules(ok) PROVE Ap!TypeOK'
  BY <1>19, AppendProperties DEF Ap!EndRules
<1>20. ASSUME NEW ok \in BOOLEAN, Ap!EndAddress(ok) PROVE Ap!TypeOK'
  BY <1>20 DEF Ap!EndAddress, Ap!Reaches
<1>21. ASSUME NEW ok \in BOOLEAN, Ap!EndUp(ok) PROVE Ap!TypeOK'
  BY <1>21 DEF Ap!EndUp, Ap!Reaches
<1>22. ASSUME NEW ok \in BOOLEAN, Ap!EndInterface(ok) PROVE Ap!TypeOK'
  BY <1>22, ApTypeOther
<1>23. CASE Ap!EndSupplicant
  BY <1>23 DEF Ap!EndSupplicant
<1>24. CASE Ap!finalize
  BY <1>24 DEF Ap!finalize
<1>25. CASE Ap!ShellEnds
  BY <1>25, ApTypeOther
<1>26. CASE Ap!SupplicantDaemonizes
  BY <1>26, ApTypeOther
<1> QED
  BY <1>1, <1>2, <1>3, <1>4, <1>5, <1>6, <1>7, <1>8, <1>9, <1>10, <1>11,
     <1>12, <1>13, <1>14, <1>15, <1>16, <1>17, <1>18, <1>19, <1>20, <1>21,
     <1>22, <1>23, <1>24, <1>25, <1>26
     DEF Ap!Next, Ap!MainThread, Ap!Netlink

\* Access points and group owners keep to the types of SoftAp, however often
\* they are started (softap_backend.c, p2p_backend.c).
THEOREM ApTypeCorrect == TransportSpec => [](kind # "infra" => Ap!TypeOK)
<1>1. TransportInit => ApTypes
  <2> SUFFICES ASSUME TransportInit, kind # "infra" PROVE Ap!TypeOK
    BY DEF ApTypes
  <2>1. Ap!Init /\ kind \in {"softap", "p2p"}
    BY DEF TransportInit
  <2>2. /\ up \in BOOLEAN /\ addr \in BOOLEAN /\ dnsmasq \in BOOLEAN
        /\ rules \in BOOLEAN
    BY Zenon, <2>1 DEF Ap!Init
  <2>6. link \in 0 .. 2 /\ cache \in 0 .. 1 /\ missed \subseteq Ap!Requests
    BY <2>1 DEF Ap!Init
  <2>3. /\ state \in {"STOPPED", "STARTING", "RUNNING", "STOPPING", "ERROR"}
        /\ hostapd \in {"none", "known", "lost"}
        /\ wpa \in {"none", "launcher", "daemon"}
    BY <2>1 DEF Ap!Init
  <2>5. shells \in Seq({"add", "delete"})
    BY <2>1 DEF Ap!Init
  <2>4. main \in Ap!StartSteps \cup Ap!StopSteps \cup Ap!Rest
    BY <2>1 DEF Ap!Init, Ap!Rest
  <2> QED
    BY Zenon, <2>1, <2>2, <2>3, <2>4, <2>5, <2>6 DEF Ap!TypeOK
<1>2. ApTypes /\ [TransportNext]_<<vars, kind, apVars>> => ApTypes'
  <2> SUFFICES ASSUME ApTypes, [TransportNext]_transportVars, kind' # "infra"
               PROVE  Ap!TypeOK'
    BY DEF ApTypes, transportVars
  <2>1. CASE kind = "infra" /\ Next /\ UNCHANGED <<kind, apVars>>
    BY <2>1
  <2>2. CASE kind # "infra" /\ Ap!Next /\ UNCHANGED sharedByInfra
    BY <2>2, ApTypeStep DEF ApTypes
  <2>3. CASE UNCHANGED transportVars
    <3>1. /\ UNCHANGED <<kind, main, state, cache, link, hostapd, wpa, shells>>
          /\ UNCHANGED <<up, addr, missed, dnsmasq, rules>>
      BY <2>3 DEF transportVars, apVars, vars, threadVars
    <3>2. Ap!TypeOK
      BY <3>1 DEF ApTypes
    <3> QED
      BY Zenon, <3>1, <3>2 DEF Ap!TypeOK
  <2> QED
    BY <2>1, <2>2, <2>3 DEF TransportNext
<1> QED
  BY <1>1, <1>2, PTL DEF TransportSpec, ApTypes
=============================================================================
