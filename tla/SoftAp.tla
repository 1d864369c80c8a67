------------------------------- MODULE SoftAp -------------------------------
(***************************************************************************)
(* The two transports that open a network of their own:                    *)
(* src/src/transport/softap_backend.c, which makes an interface, brings it *)
(* up, runs hostapd and dnsmasq on it and adds rules to the firewall, and  *)
(* p2p_backend.c, which runs wpa_supplicant.  Their start and stop are a   *)
(* sequence of steps on things outside the process, each of which may      *)
(* fail; a step is one of them, made by the main thread.  What             *)
(* netlink_utils.c asks of the kernel it may do or refuse: it is asked     *)
(* for no acknowledgement and nobody reads an answer, so that start goes   *)
(* on, and stop hears of no failure at all.  The files written, and the    *)
(* call that keeps NetworkManager away, are left out.                      *)
(*                                                                         *)
(* The module is instantiated by Transport, which declares its state.      *)
(***************************************************************************)
EXTENDS Naturals, Sequences

CONSTANT Restarts  \* the owner may start again after a stop

VARIABLES
  kind,     \* which backend the transport is: "softap" or "p2p" here
  state,    \* HwPhoneLinkState of the transport
  main,     \* the main thread: at rest, or the next step of start or stop
  link,     \* the interface: 0, or a number no other has had
  cache,    \* the interface link_cache shows, as of the transport's creation
  up, addr, \* the interface is up, has its address
  missed,   \* the requests since the last start that had no effect: history
  hostapd,  \* "none", "known" or, its pid not read, "lost"
  dnsmasq,  \* dnsmasq runs, as dnsmasq_proc
  wpa,      \* wpa_supplicant: "none", the "launcher", or the "daemon"
  shells,   \* the iptables shells that run: "add" or "delete" the rules
  rules     \* the rules are there

deviceVars == <<link, up, addr, missed>>
serviceVars == <<hostapd, dnsmasq, wpa>>
shellVars == <<shells, rules>>
vars == <<kind, state, main, deviceVars, cache, serviceVars, shellVars>>

StartSteps == {"dirs", "create", "wait", "set up", "address", "configs",
               "hostapd", "dnsmasq", "iptables", "conf", "supplicant"}
StopSteps == {"end dnsmasq", "end hostapd", "end rules", "end address",
              "end up", "end interface", "end supplicant"}
Rest == {"new", "failed", "up", "stopped", "gone"}
Requests == {"up", "address", "remove address", "down", "delete"}

TypeOK ==
  /\ kind \in {"softap", "p2p"}
  /\ state \in {"STOPPED", "STARTING", "RUNNING", "STOPPING", "ERROR"}
  /\ main \in StartSteps \cup StopSteps \cup Rest
  /\ link \in 0 .. 2 /\ cache \in 0 .. 1
  /\ missed \subseteq Requests
  /\ up \in BOOLEAN /\ addr \in BOOLEAN /\ dnsmasq \in BOOLEAN /\ rules \in BOOLEAN
  /\ hostapd \in {"none", "known", "lost"}
  /\ wpa \in {"none", "launcher", "daemon"}
  /\ shells \in Seq({"add", "delete"})

\* An earlier run of the daemon may have left its interface, as it was.
Init ==
  /\ state = "STOPPED" /\ main = "new"
  /\ link \in {0, 1} /\ cache = link /\ missed = {}
  /\ up \in BOOLEAN /\ addr \in BOOLEAN /\ (up \/ addr => link # 0)
  /\ hostapd = "none" /\ dnsmasq = FALSE /\ wpa = "none"
  /\ shells = <<>> /\ rules = FALSE

\* A request the kernel gets by the number the cache has.
Reaches == cache # 0 /\ cache = link

\* The request was sent and carried out, or it was not and nobody knows.
Ask(request, obeyed) ==
  missed' = IF obeyed THEN missed ELSE missed \cup {request}

-----------------------------------------------------------------------------
(***************************************************************************)
(* start, refused unless the transport is stopped.                         *)
(***************************************************************************)
start ==
  /\ main \in {"new"} \cup (IF Restarts THEN {"stopped"} ELSE {})
  /\ state = "STOPPED"
  /\ state' = "STARTING"
  /\ main' = IF kind = "softap" THEN "dirs" ELSE "conf"
  /\ missed' = {}
  /\ UNCHANGED <<kind, cache, link, up, addr, serviceVars, shellVars>>

\* A step fails: start returns and leaves what the earlier ones have made.
\* Only hostapd and dnsmasq turn the transport to ERROR.
StepFails ==
  /\ main \in StartSteps \ {"iptables", "dnsmasq", "wait"}
  /\ main' = "failed"
  /\ state' = IF main = "hostapd" THEN "ERROR" ELSE state
  /\ UNCHANGED <<kind, cache, deviceVars, serviceVars, shellVars>>

\* The interface does not show within five seconds: the cache is that of the
\* transport's creation.
WaitTimesOut ==
  /\ main = "wait" /\ cache = 0
  /\ main' = "failed"
  /\ UNCHANGED <<kind, state, cache, deviceVars, serviceVars, shellVars>>

EnsureDirs ==
  /\ main = "dirs" /\ main' = "create"
  /\ UNCHANGED <<kind, state, cache, deviceVars, serviceVars, shellVars>>

\* The kernel refuses a name that exists, or whatever it cannot make; nobody
\* reads its answer.
CreateInterface(obeyed) ==
  /\ main = "create" /\ main' = "wait"
  /\ link' = IF link = 0 /\ obeyed THEN cache + 1 ELSE link
  /\ UNCHANGED <<kind, state, cache, up, addr, missed, serviceVars, shellVars>>

InterfaceShows ==
  /\ main = "wait" /\ cache # 0 /\ main' = "set up"
  /\ UNCHANGED <<kind, state, cache, deviceVars, serviceVars, shellVars>>

\* rtnl_link_change and RTM_NEWADDR, sent: the kernel's refusal is not heard.
SetUp(obeyed) ==
  /\ main = "set up" /\ main' = "address"
  /\ up' = (up \/ (Reaches /\ obeyed))
  /\ Ask("up", obeyed)
  /\ UNCHANGED <<kind, state, cache, link, addr, serviceVars, shellVars>>

AddAddress(obeyed) ==
  /\ main = "address" /\ main' = "configs"
  /\ addr' = (addr \/ (Reaches /\ obeyed))
  /\ Ask("address", obeyed)
  /\ UNCHANGED <<kind, state, cache, link, up, serviceVars, shellVars>>

GenerateConfigs ==
  /\ main = "configs" /\ main' = "hostapd"
  /\ UNCHANGED <<kind, state, cache, deviceVars, serviceVars, shellVars>>

\* hostapd puts itself in the background.  Its pid file is read at once,
\* through a path that has been freed: the pid is found or it is not.
StartHostapd ==
  /\ main = "hostapd" /\ main' = "dnsmasq"
  /\ hostapd' \in {"known", "lost"}
  /\ UNCHANGED <<kind, state, cache, deviceVars, dnsmasq, wpa, shellVars>>

StartDnsmasq ==
  /\ main = "dnsmasq" /\ main' = "iptables"
  /\ dnsmasq' = TRUE
  /\ UNCHANGED <<kind, state, cache, deviceVars, hostapd, wpa, shellVars>>

\* Mutant: hostapd is left when dnsmasq fails.
DnsmasqFailsOnly ==
  /\ main = "dnsmasq" /\ main' = "failed"
  /\ state' = "ERROR"
  /\ UNCHANGED <<kind, cache, deviceVars, serviceVars, shellVars>>

\* _stop_process: SIGTERM, five seconds, SIGKILL, if the pid is known.
WithoutHostapd == IF hostapd = "known" THEN "none" ELSE hostapd

DnsmasqFails ==
  /\ main = "dnsmasq" /\ main' = "failed"
  /\ state' = "ERROR"
  /\ hostapd' = WithoutHostapd
  /\ UNCHANGED <<kind, cache, deviceVars, dnsmasq, wpa, shellVars>>

\* The rules are added by a shell nobody waits for; start succeeds whether or
\* not it can be spawned.
Running(ok) ==
  /\ main = "iptables" /\ main' = "up"
  /\ state' = "RUNNING"
  /\ shells' = IF ok THEN Append(shells, "add") ELSE shells
  /\ UNCHANGED <<kind, cache, deviceVars, serviceVars, rules>>

\* The P2P transport: a configuration, and wpa_supplicant in the background.
GenerateSupplicantConf ==
  /\ main = "conf" /\ main' = "supplicant"
  /\ UNCHANGED <<kind, state, cache, deviceVars, serviceVars, shellVars>>

StartSupplicant ==
  /\ main = "supplicant" /\ main' = "up"
  /\ state' = "RUNNING" /\ wpa' = "launcher"
  /\ UNCHANGED <<kind, cache, deviceVars, hostapd, dnsmasq, shellVars>>

-----------------------------------------------------------------------------
(***************************************************************************)
(* stop, and the end of the transport.                                     *)
(***************************************************************************)

\* Mutant: a transport that is not up is taken for one that is stopped.
StopIfRunning ==
  /\ main \in {"up", "failed"}
  /\ IF state = "RUNNING"
     THEN state' = "STOPPING" /\ main' = "end dnsmasq"
     ELSE main' = "stopped" /\ UNCHANGED state
  /\ UNCHANGED <<kind, cache, deviceVars, serviceVars, shellVars>>

\* After a start that succeeded, or that failed and left the transport in
\* STARTING or ERROR.
stop ==
  /\ main \in {"up", "failed"}
  /\ state \notin {"STOPPED", "STOPPING"}
  /\ IF kind = "softap"
     THEN state' = "STOPPING" /\ main' = "end dnsmasq"
     ELSE main' = "end supplicant" /\ UNCHANGED state
  /\ UNCHANGED <<kind, cache, deviceVars, serviceVars, shellVars>>

\* Mutant: dnsmasq has put itself in the background and only its launcher is
\* ended.
EndDnsmasqLauncher ==
  /\ main = "end dnsmasq" /\ main' = "end hostapd"
  /\ UNCHANGED <<kind, state, cache, deviceVars, serviceVars, shellVars>>

EndDnsmasq ==
  /\ main = "end dnsmasq" /\ main' = "end hostapd"
  /\ dnsmasq' = FALSE
  /\ UNCHANGED <<kind, state, cache, deviceVars, hostapd, wpa, shellVars>>

EndHostapd ==
  /\ main = "end hostapd" /\ main' = "end rules"
  /\ hostapd' = WithoutHostapd
  /\ UNCHANGED <<kind, state, cache, deviceVars, dnsmasq, wpa, shellVars>>

EndRules(ok) ==
  /\ main = "end rules" /\ main' = "end address"
  /\ shells' = IF ok THEN Append(shells, "delete") ELSE shells
  /\ UNCHANGED <<kind, state, cache, deviceVars, serviceVars, rules>>

\* What follows is given no place for an error, and goes on whether the
\* request could not be sent, was refused or was carried out.
EndAddress(obeyed) ==
  /\ main = "end address" /\ main' = "end up"
  /\ addr' = (addr /\ ~(Reaches /\ obeyed))
  /\ Ask("remove address", obeyed)
  /\ UNCHANGED <<kind, state, cache, link, up, serviceVars, shellVars>>

EndUp(obeyed) ==
  /\ main = "end up" /\ main' = "end interface"
  /\ up' = (up /\ ~(Reaches /\ obeyed))
  /\ Ask("down", obeyed)
  /\ UNCHANGED <<kind, state, cache, link, addr, serviceVars, shellVars>>

\* By its name, whatever the cache says.
EndInterface(obeyed) ==
  /\ main = "end interface" /\ main' = "stopped"
  /\ IF obeyed
     THEN link' = 0 /\ up' = FALSE /\ addr' = FALSE
     ELSE UNCHANGED <<link, up, addr>>
  /\ Ask("delete", obeyed)
  /\ state' = "STOPPED"
  /\ UNCHANGED <<kind, cache, serviceVars, shellVars>>

\* force_exit ends what was spawned, the launcher if it is still there.
EndSupplicant ==
  /\ main = "end supplicant" /\ main' = "stopped"
  /\ state' = "STOPPED"
  /\ wpa' = IF wpa = "launcher" THEN "none" ELSE wpa
  /\ UNCHANGED <<kind, cache, deviceVars, hostapd, dnsmasq, shellVars>>

\* The owner drops the transport (main.c: after a stop, or after a start
\* that failed): finalize frees the netlink handle and stops nothing.
finalize ==
  /\ main \in {"failed", "stopped"} /\ main' = "gone"
  /\ UNCHANGED <<kind, state, cache, deviceVars, serviceVars, shellVars>>

-----------------------------------------------------------------------------
(***************************************************************************)
(* The processes outside.                                                  *)
(***************************************************************************)
ShellEnds ==
  \E i \in 1 .. Len(shells) :
    /\ rules' = (shells[i] = "add")
    /\ shells' = SubSeq(shells, 1, i - 1) \o SubSeq(shells, i + 1, Len(shells))
    /\ UNCHANGED <<kind, state, main, cache, deviceVars, serviceVars>>

SupplicantDaemonizes ==
  /\ wpa = "launcher" /\ wpa' = "daemon"
  /\ UNCHANGED <<kind, state, main, cache, deviceVars, hostapd, dnsmasq, shellVars>>

\* A request made of the kernel.
Netlink(obeyed) ==
  \/ CreateInterface(obeyed) \/ SetUp(obeyed) \/ AddAddress(obeyed)
  \/ EndAddress(obeyed) \/ EndUp(obeyed) \/ EndInterface(obeyed)

MainThread ==
  \/ start \/ StepFails \/ WaitTimesOut
  \/ EnsureDirs \/ InterfaceShows \/ GenerateConfigs
  \/ StartHostapd \/ StartDnsmasq \/ DnsmasqFails
  \/ (\E ok \in BOOLEAN : Netlink(ok) \/ Running(ok) \/ EndRules(ok))
  \/ GenerateSupplicantConf \/ StartSupplicant
  \/ stop \/ EndDnsmasq \/ EndHostapd
  \/ EndSupplicant \/ finalize

Next == MainThread \/ ShellEnds \/ SupplicantDaemonizes

-----------------------------------------------------------------------------
(***************************************************************************)
(* Properties.                                                             *)
(***************************************************************************)

\* stop undoes a start wherever it has stopped: no dnsmasq and no hostapd
\* whose pid was read are left, and of the interface only what the kernel was
\* asked for and did not do.
StopUndoesStart ==
  main = "stopped" /\ kind = "softap" =>
    /\ ~dnsmasq /\ hostapd # "known"
    /\ link # 0 => "delete" \in missed
    /\ up => {"down", "delete"} \subseteq missed
    /\ addr => {"remove address", "delete"} \subseteq missed

\* dnsmasq, and a hostapd whose pid was read, run only on an interface that is
\* there, is up and has its address, but for what the kernel refused to set up
\* and start went on without: they start after that and end before it is
\* undone.  A hostapd whose pid was not read outlives its interface.
ServicesOnInterface ==
  hostapd = "known" \/ dnsmasq =>
    /\ link # 0
    /\ up \/ "up" \in missed
    /\ addr \/ "address" \in missed

\* A start that fails leaves no service running that it could have ended.
FailedStartServesNobody == main = "failed" => hostapd # "known" /\ ~dnsmasq

\* softap_backend.c: "Stop hostapd", also one whose pid came late.
StopEndsHostapd == main = "stopped" => hostapd = "none"

\* softap_backend.c: "Remove iptables rules", with shells nobody waits for.
StopRemovesRules == main = "stopped" /\ shells = <<>> => ~rules

\* p2p_backend.c, stop: the supplicant that was spawned is gone.
StopEndsSupplicant == main = "stopped" => wpa = "none"

\* softap_backend.c: "Delete AP interface", whether or not it could be.
StopRemovesInterface == main = "stopped" /\ kind = "softap" => link = 0

\* softap_backend.c: "Set AP interface up" and "Add IP address", before the
\* services are started.
ServicesOnAddress == dnsmasq => up /\ addr

\* main.c: a start that failed is followed by nothing but the unref.
GoneLeavesNothing == main = "gone" => link = 0

\* softap_backend.c: "Wait for interface to appear": an interface that was
\* made is found.
CreatedIsFound == [][WaitTimesOut => link = 0]_vars
=============================================================================
