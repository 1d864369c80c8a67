----------------------------- MODULE Transport -----------------------------
(***************************************************************************)
(* The transport of the daemon, src/src/transport/wifi_transport.c: a base *)
(* class whose start and stop are those of the backend it was created as.  *)
(* Infrastructure is SessionBackend, the access point and the P2P group    *)
(* owner are SoftAp; the state and the main thread are the same for all.   *)
(***************************************************************************)
EXTENDS SessionBackend, Sequences

CONSTANT Restarts  \* of SoftAp

VARIABLES kind, link, cache, up, addr, missed, hostapd, dnsmasq, wpa, shells, rules

Ap == INSTANCE SoftAp

apVars == <<link, cache, up, addr, missed, hostapd, dnsmasq, wpa, shells, rules>>
sharedByInfra == <<accept, current, todo, sessionVars, listed, opened, closed, broken>>

\* hw_phone_link_transport_new and main.c: the backend, chosen once.
TransportInit ==
  /\ kind \in {"infra", "softap", "p2p"}
  /\ Init
  /\ Ap!Init

\* A call on the transport is the backend's.
TransportNext ==
  \/ kind = "infra" /\ Next /\ UNCHANGED <<kind, apVars>>
  \/ kind # "infra" /\ Ap!Next /\ UNCHANGED sharedByInfra

TransportSpec ==
  TransportInit /\ [][TransportNext]_<<vars, kind, apVars>>
  /\ (kind = "infra" => Fairness)

-----------------------------------------------------------------------------
\* The type invariant of whichever backend it is.
TransportTypeOK == IF kind = "infra" THEN TypeOK ELSE Ap!TypeOK

\* See SoftAp for these.
StopUndoesStart == Ap!StopUndoesStart
ServicesOnInterface == Ap!ServicesOnInterface
FailedStartServesNobody == Ap!FailedStartServesNobody
StopEndsHostapd == Ap!StopEndsHostapd
StopRemovesInterface == Ap!StopRemovesInterface
ServicesOnAddress == Ap!ServicesOnAddress
StopRemovesRules == Ap!StopRemovesRules
StopEndsSupplicant == Ap!StopEndsSupplicant
GoneLeavesNothing == Ap!GoneLeavesNothing
CreatedIsFound == Ap!CreatedIsFound
=============================================================================
